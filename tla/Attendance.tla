------------------------------ MODULE Attendance ------------------------------
(***************************************************************************)
(* The attendants' inbox in one browser (attendance.tsx): what is on the   *)
(* screen, the requests it has in the air, and the conversations the       *)
(* server answers from (conversations-service.ts, conversations/route.ts). *)
(*                                                                         *)
(* The screen asks again every few seconds, on every click and after every *)
(* change, and nothing orders the answers: each is read by the server at   *)
(* some moment and used by the screen at a later one, when the attendant   *)
(* may have opened somebody else.  The handlers compare the conversation   *)
(* they asked for with the one open (isOpen), or do not.                   *)
(*                                                                         *)
(* A history is told by how many messages it has, a draft by the           *)
(* conversations that were open while it was written.  The order of the    *)
(* list, the tabs and the sectors only choose which conversation is next:  *)
(* any listed one may be.  The window of 24 hours is taken as open, and    *)
(* the notices of the system and the sizes of the panes are left out.      *)
(***************************************************************************)
EXTENDS Naturals, SequencesExt

CONSTANTS Conversations,
          Matching,     \* the conversations the searched text finds
          None,
          MaxEvents,    \* bound: what the attendant, the customers and the colleagues do
          MaxFailures,  \* bound: requests that fail
          MaxCalls      \* bound: requests of the list, or of messages, in the air at once

ASSUME MatchingAssumption == Matching \subseteq Conversations /\ None \notin Conversations
ASSUME ScreenBoundsAssumption == {MaxEvents, MaxFailures, MaxCalls} \subseteq Nat

VARIABLES past,         \* the conversations, as the server had them so far: the last is now
          lists,        \* requests of the list in the air, oldest first
          histories,    \* requests of messages in the air, oldest first
          posting,      \* the reply being sent, or None
          changing,     \* the change of state being asked, or None
          items, query, selected,
          shown,        \* the messages on the screen, and whose they are
          draft,        \* the conversations the draft was written in
          listBusy, messagesBusy,
          takeOver,     \* the colleague's conversation the dialog asks about
          page,         \* the screen's own state
          left          \* auxiliary: what is left of the bounds

calls == <<lists, histories, posting, changing>>
flags == <<listBusy, messagesBusy>>
view == <<items, query, selected, shown, draft, takeOver, page>>
screenVars == <<past, calls, view, flags, left>>

Owners == {"nobody", "me", "colleague"}
StateActions == {"claim", "release", "resolve", "reopen"}
server == Last(past)
Becomes(c, row) == past' = Append(past, [server EXCEPT ![c] = row])
\* The list and the messages as the server had them at a moment of its past.
Summary(c, then) == [of |-> c, said |-> past[then][c].said,
                     owner |-> past[then][c].owner, status |-> past[then][c].status]
Found(q) == IF q = "" THEN Conversations ELSE Matching
Listed(q, then) == {Summary(c, then) : c \in Found(q)}
Messages(c, then) == [of |-> c, said |-> past[then][c].said, state |-> "ready"]
Open == IF selected = None THEN None ELSE selected.of
isOpen(c) == Open = c
Blank(how) == [of |-> None, said |-> 0, state |-> how]

ListCall(mode) == [mode |-> mode, query |-> query', since |-> Len(past)]
HistoryCall(c, mode) == [of |-> c, mode |-> mode, since |-> Len(past)]
\* A request is answered from some moment of its time in the air.
Moments(call) == call.since..Len(past)
Fails == left.failures > 0 /\ left' = [left EXCEPT !.failures = @ - 1]

ScreenInit ==
    /\ past = <<[c \in Conversations |-> [said |-> 1, owner |-> "nobody", status |-> "open"]]>>
    /\ lists = <<[mode |-> "first", query |-> "", since |-> 1]>>
    /\ histories = <<>>
    /\ posting = None /\ changing = None
    /\ items = {} /\ query = "" /\ selected = None
    /\ shown = Blank("idle") /\ draft = {}
    /\ listBusy = TRUE /\ messagesBusy = FALSE
    /\ takeOver = None /\ page = "loading"
    /\ left = [events |-> MaxEvents, failures |-> MaxFailures]

Happens == left.events > 0 /\ left' = [left EXCEPT !.events = @ - 1]
Clicks == page = "ready" /\ Happens
\* The dialog is over the screen: only the keys still reach it.
Uncovered == takeOver = None

(***************************************************************************)
(* Conversations while nobody looks: a customer writes (which reopens what *)
(* was resolved), a colleague takes one.                                   *)
(***************************************************************************)
News ==
    /\ Happens
    /\ \E c \in Conversations :
         LET row == server[c]
         IN  \/ Becomes(c, [said |-> row.said + 1, status |-> "open",
                           owner |-> IF row.status = "resolved" THEN "nobody" ELSE row.owner])
             \/ Becomes(c, [row EXCEPT !.owner = "colleague", !.status = "open"])
    /\ UNCHANGED <<calls, view, flags>>

(***************************************************************************)
(* The list.                                                               *)
(***************************************************************************)
AsksList(mode) ==
    IF mode = "poll" /\ listBusy
    THEN UNCHANGED <<lists, listBusy>>
    ELSE /\ Len(lists) < MaxCalls
         /\ lists' = Append(lists, ListCall(mode))
         /\ listBusy' = TRUE

AsksHistory(c, mode) ==
    IF mode = "poll" /\ messagesBusy
    THEN UNCHANGED <<histories, messagesBusy>>
    ELSE /\ Len(histories) < MaxCalls
         /\ histories' = Append(histories, HistoryCall(c, mode))
         /\ messagesBusy' = TRUE

\* What open(item) puts on the screen; the requests it makes come from its callers.
Opens(item) ==
    /\ selected' = item
    /\ IF isOpen(item.of)
       THEN UNCHANGED <<shown, draft, histories, messagesBusy>>
       ELSE /\ shown' = Blank("loading") /\ draft' = {}
            /\ AsksHistory(item.of, "open")

Stays == UNCHANGED <<shown, draft, histories, messagesBusy>>

ListUsed(i, then) ==
    /\ items' = Listed(query, then) /\ page' = "ready"
    /\ IF \E fresh \in items' : isOpen(fresh.of)
       THEN selected' = (CHOOSE fresh \in items' : isOpen(fresh.of)) /\ Stays
       ELSE IF lists[i].mode = "first" /\ selected = None /\ items' # {}
       THEN \E item \in items' : Opens(item)
       ELSE UNCHANGED selected /\ Stays

\* Mutant: an answer nobody wants any more leaves the list marked as busy.
ListAnswerKeepsBusy(i) ==
    /\ lists' = RemoveAt(lists, i) /\ listBusy' = (lists[i].query # query)
    /\ \/ /\ lists[i].query = query /\ left' = left
          /\ \E then \in Moments(lists[i]) : ListUsed(i, then)
       \/ /\ lists[i].query # query /\ left' = left
          /\ UNCHANGED <<items, selected, page>> /\ Stays
       \/ /\ Fails
          /\ page' = IF lists[i].mode = "first" THEN "error" ELSE page
          /\ UNCHANGED <<items, selected>> /\ Stays
    /\ UNCHANGED <<past, query, posting, changing, takeOver>>

ListAnswer(i) ==
    /\ lists' = RemoveAt(lists, i) /\ listBusy' = FALSE
    /\ \/ /\ lists[i].query = query /\ left' = left
          /\ \E then \in Moments(lists[i]) : ListUsed(i, then)
       \/ /\ lists[i].query # query /\ left' = left
          /\ UNCHANGED <<items, selected, page>> /\ Stays
       \/ /\ Fails
          /\ page' = IF lists[i].mode = "first" THEN "error" ELSE page
          /\ UNCHANGED <<items, selected>> /\ Stays
    /\ UNCHANGED <<past, query, posting, changing, takeOver>>

(***************************************************************************)
(* The messages of the open conversation.                                  *)
(***************************************************************************)
\* The reply that waited for these messages is over, and asks for the list.
AfterReply(i) ==
    IF posting # None /\ posting.stage = "reading" /\ histories[i].mode = "force"
    THEN posting' = None /\ AsksList("force")
    ELSE UNCHANGED <<posting, lists, listBusy>>

HistoryAnswer(i) ==
    /\ histories' = RemoveAt(histories, i) /\ messagesBusy' = FALSE
    /\ \/ /\ ~isOpen(histories[i].of) /\ UNCHANGED <<shown, left>>
       \/ /\ isOpen(histories[i].of) /\ left' = left
          /\ \E then \in Moments(histories[i]) :
               shown' = Messages(Open, then)
       \/ /\ Fails
          /\ shown' = IF isOpen(histories[i].of) /\ histories[i].mode = "open"
                      THEN [shown EXCEPT !.state = "error"] ELSE shown
    /\ query' = query /\ AfterReply(i)
    /\ UNCHANGED <<past, changing, items, selected, draft, takeOver, page>>

\* The timer, or the tab shown again: both requests, each unless one of its kind is out.
Refresh ==
    /\ query' = query
    /\ AsksList("poll")
    /\ IF selected = None THEN UNCHANGED <<histories, messagesBusy>> ELSE AsksHistory(Open, "poll")
    /\ UNCHANGED <<past, posting, changing, items, selected, shown, draft,
                   takeOver, page, left>>

\* The timer with the tab hidden.
HiddenTick ==
    /\ query' = query /\ AsksList("poll")
    /\ UNCHANGED <<past, histories, posting, changing, items, selected, shown,
                   draft, takeOver, page, messagesBusy, left>>

(***************************************************************************)
(* The attendant.                                                          *)
(***************************************************************************)
\* A click on the list; Alt with an arrow does the same under the dialog too.
OpenConversation ==
    /\ Clicks
    /\ \E item \in items : Opens(item)
    /\ UNCHANGED <<past, lists, posting, changing, items, query, takeOver, page, listBusy>>

\* The field is shut while a reply goes out; a suggestion is put into it even then.
Write ==
    /\ Clicks /\ Uncovered
    /\ selected # None /\ shown.state = "ready"
    /\ draft' = draft \cup {Open}
    /\ UNCHANGED <<past, calls, items, query, selected, shown, takeOver, page, flags>>

\* Half a second after the last letter the text searched becomes the query.
Search ==
    /\ Clicks /\ Uncovered
    /\ query' \in {"", "text"} \ {query}
    /\ AsksList("force")
    /\ UNCHANGED <<past, histories, posting, changing, items, selected, shown,
                   draft, takeOver, page, messagesBusy>>

Send ==
    /\ Clicks /\ Uncovered
    /\ selected # None /\ shown.state = "ready" /\ posting = None /\ draft # {}
    /\ posting' = [to |-> Open, text |-> draft, stage |-> "asked"]
    /\ UNCHANGED <<past, lists, histories, changing, view, flags>>

\* The route sends and records the reply, or refuses; whoever answers becomes the owner.
ReplyServed ==
    /\ posting # None /\ posting.stage = "asked"
    /\ \/ /\ posting' = [posting EXCEPT !.stage = "sent"]
          /\ LET row == server[posting.to]
             IN  Becomes(posting.to, [said |-> row.said + 1, status |-> "open",
                   owner |-> IF row.status = "open" /\ row.owner = "colleague" THEN row.owner ELSE "me"])
          /\ left' = left
       \/ /\ Fails
          /\ posting' = [posting EXCEPT !.stage = "refused"]
          /\ past' = past
    /\ UNCHANGED <<lists, histories, changing, view, flags>>

ReplyAnswer ==
    /\ posting # None /\ posting.stage \in {"sent", "refused"}
    /\ IF posting.stage = "sent"
       THEN /\ posting' = [posting EXCEPT !.stage = "reading"]
            /\ draft' = {}
            /\ AsksHistory(posting.to, "force")
       ELSE posting' = None /\ UNCHANGED <<draft, histories, messagesBusy>>
    /\ UNCHANGED <<past, lists, changing, items, query, selected, shown,
                   takeOver, page, listBusy, left>>

\* The buttons of the head of the conversation, and of the dialog.
Buttons(item) ==
    IF item.status = "resolved" THEN {"reopen"}
    ELSE IF item.owner = "me" THEN {"release", "resolve"}
    ELSE {"claim", "resolve"}
ChangeState ==
    /\ Clicks
    /\ selected # None /\ changing = None
    /\ \E action \in IF Uncovered THEN Buttons(selected) ELSE {"claim"} :
         changing' = [item |-> selected, action |-> action, force |-> ~Uncovered, answer |-> "none"]
    /\ UNCHANGED <<past, lists, histories, posting, view, flags>>

Dismiss ==
    /\ takeOver # None /\ takeOver' = None
    /\ UNCHANGED <<past, calls, items, query, selected, shown, draft, page, flags, left>>

\* changeConversationState, in a word: a colleague's conversation is not claimed by the way.
NewState(action, row) ==
    CASE action = "claim" -> [row EXCEPT !.owner = "me", !.status = "open"]
      [] action = "resolve" -> [row EXCEPT !.status = "resolved"]
      [] action = "release" \/ row.status = "resolved" -> [row EXCEPT !.owner = "nobody", !.status = "open"]
      [] OTHER -> row
ChangeServed ==
    /\ changing # None /\ changing.answer = "none"
    /\ LET row == server[changing.item.of]
       IN  IF changing.action = "claim" /\ ~changing.force /\ row.status = "open" /\ row.owner = "colleague"
           THEN changing' = [changing EXCEPT !.answer = "conflict"] /\ UNCHANGED <<past, left>>
           ELSE \/ LET new == NewState(changing.action, row)
                   IN  /\ Becomes(changing.item.of, new)
                       /\ changing' = [changing EXCEPT !.answer = "changed",
                                          !.item.owner = new.owner, !.item.status = new.status]
                       /\ left' = left
                \/ /\ Fails
                   /\ changing' = [changing EXCEPT !.answer = "failed"] /\ past' = past
    /\ UNCHANGED <<lists, histories, posting, view, flags>>

\* The conversation that was changed is the open one again, whichever was opened since.
ChangeAnswer ==
    /\ changing # None /\ changing.answer # "none"
    /\ changing' = None /\ query' = query
    /\ IF changing.answer # "changed"
       THEN /\ takeOver' = IF changing.answer = "conflict" THEN changing.item.of ELSE takeOver
            /\ UNCHANGED <<items, selected, shown, draft, lists, listBusy, histories,
                           messagesBusy>>
       ELSE /\ takeOver' = None
            /\ items' = {IF item.of = changing.item.of THEN changing.item ELSE item : item \in items}
            /\ AsksList("force")
            /\ \/ /\ changing.action = "resolve"
                  /\ \E next \in items' :
                       /\ next.of # changing.item.of
                       /\ selected' = next
                       /\ shown' = Blank("loading") /\ draft' = {}
                       /\ AsksHistory(next.of, "open")
               \/ /\ selected' = changing.item
                  /\ UNCHANGED <<shown, draft, histories, messagesBusy>>
    /\ UNCHANGED <<past, posting, page, left>>

Answers ==
    \/ \E i \in DOMAIN lists : ListAnswer(i)
    \/ \E i \in DOMAIN histories : HistoryAnswer(i)
    \/ ReplyServed \/ ReplyAnswer \/ ChangeServed \/ ChangeAnswer
ScreenNext ==
    \/ Answers \/ Refresh \/ HiddenTick \/ News
    \/ OpenConversation \/ Write \/ Search \/ Send \/ ChangeState \/ Dismiss

(***************************************************************************)
(* Every request is answered or fails, and the timer goes on: the browser  *)
(* runs it as long as the tab exists.  The attendant owes nothing.         *)
(***************************************************************************)
ScreenSpec ==
    /\ ScreenInit /\ [][ScreenNext]_screenVars
    /\ WF_screenVars(Refresh)
    /\ WF_screenVars(\E i \in DOMAIN lists : ListAnswer(i))
    /\ WF_screenVars(\E i \in DOMAIN histories : HistoryAnswer(i))
    /\ WF_screenVars(ReplyServed) /\ WF_screenVars(ReplyAnswer)
    /\ WF_screenVars(ChangeServed) /\ WF_screenVars(ChangeAnswer)

(***************************************************************************)
(* Properties.                                                             *)
(***************************************************************************)
\* When the attendants and the customers stop, the screen ends up with what the server has:
\* the list of the query, and for the open conversation its own messages, whatever answers
\* came late, out of order or not at all (loadList, loadMessages, the busy flags).
UpToDate ==
    /\ page = "ready" /\ items = Listed(query, Len(past))
    /\ selected # None =>
         /\ shown = Messages(Open, Len(past))
         /\ Summary(Open, Len(past)) \in items => selected = Summary(Open, Len(past))
CatchesUp == <>[]UpToDate

\* A text goes to the conversation it was written in: "O rascunho é da conversa em que foi
\* escrito: trocar de cliente não o carrega junto." (attendance.tsx:260)
DraftStaysAtHome == posting # None => posting.text \subseteq {posting.to}

\* A colleague's conversation is only taken after the dialog asked about that one. Not so
\* in this code: Alt with an arrow changes the conversation under the dialog, and TLC finds
\* the one that is taken instead.
WarnedBeforeTaking ==
    [][changing' # None /\ changing = None /\ changing'.force
          => changing'.item.of = takeOver]_screenVars
===============================================================================
