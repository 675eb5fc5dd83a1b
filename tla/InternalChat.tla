---------------------------- MODULE InternalChat ----------------------------
(***************************************************************************)
(* The team's own chat, one thread of it: two inserts to open it, three    *)
(* writes to post, and a reading that fetches the rows first and marks     *)
(* them read afterwards. What is unread is computed from two time stamps,  *)
(* each taken before the write that carries it. Every stamp is later than  *)
(* the one before (two in one millisecond count as ordered).               *)
(*                                                                         *)
(* A message stands for the request that posted it; time 0 is "never".     *)
(***************************************************************************)
EXTENDS Naturals, FiniteSets

CONSTANTS Staff,
          ChatRequests,
          MaxStamps       \* bound on the time stamps taken

ASSUME ChatAssumption == MaxStamps \in Nat

VARIABLES stamps,         \* the last time stamp taken
          thread,         \* the row of the thread: author (the empty set before) and lastMessageAt
          readAt,         \* rows of the participants: lastReadAt
          participants,
          messages,
          chatting,       \* where each request is
          shown,          \* auxiliary: messages each person was shown
          missed          \* auxiliary: pairs of a person and a message that came as the person read

chatVars == <<stamps, thread, readAt, participants, messages, chatting, shown, missed>>

Stamps == 0 .. MaxStamps
ChatSteps == {"idle", "participants", "insert", "touch thread", "touch author", "rows", "mark", "done"}

ChatTypeOK ==
    /\ stamps \in Stamps
    /\ thread \in [author : SUBSET Staff, last : Stamps]
    /\ participants \subseteq Staff /\ readAt \in [Staff -> Stamps]
    /\ messages \subseteq [id : ChatRequests, author : Staff, at : Stamps]
    /\ chatting \in [ChatRequests -> [step : ChatSteps, who : SUBSET Staff, at : Stamps,
                                      invited : SUBSET Staff, found : SUBSET ChatRequests]]
    /\ shown \in [Staff -> SUBSET ChatRequests]
    /\ missed \subseteq Staff \X ChatRequests

NewChat == [step |-> "idle", who |-> {}, at |-> 0, invited |-> {}, found |-> {}]

ChatInit ==
    /\ stamps = 0
    /\ thread = [author |-> {}, last |-> 0]
    /\ participants = {} /\ readAt = [u \in Staff |-> 0]
    /\ messages = {}
    /\ chatting = [r \in ChatRequests |-> NewChat]
    /\ shown = [u \in Staff |-> {}] /\ missed = {}

-----------------------------------------------------------------------------
Stamp == stamps < MaxStamps /\ stamps' = stamps + 1
Reading(step) == {r \in ChatRequests : chatting[r].step = step}
Continues(r, step) == chatting' = [chatting EXCEPT ![r].step = step]

\* normalizeParticipants: the author is always one, and alone is refused.
CreateThread(r, u, invited) ==
    /\ chatting[r].step = "idle" /\ thread.author = {}
    /\ Cardinality({u} \union invited) >= 2
    /\ Stamp
    /\ thread' = [author |-> {u}, last |-> stamps']
    /\ chatting' = [chatting EXCEPT ![r] = [NewChat EXCEPT !.step = "participants", !.who = {u},
                                              !.at = stamps', !.invited = {u} \union invited]]
    /\ UNCHANGED <<readAt, participants, messages, shown, missed>>

AddParticipants(r) ==
    /\ chatting[r].step = "participants"
    /\ participants' = chatting[r].invited
    /\ readAt' = [u \in Staff |-> IF u \in chatting[r].who THEN chatting[r].at ELSE 0]
    /\ Continues(r, "done")
    /\ UNCHANGED <<stamps, thread, messages, shown, missed>>

\* addMessage: who does not participate is answered 404.
Post(r, u) ==
    /\ chatting[r].step = "idle" /\ u \in participants
    /\ Stamp
    /\ chatting' = [chatting EXCEPT ![r] = [NewChat EXCEPT !.step = "insert", !.who = {u}, !.at = stamps']]
    /\ UNCHANGED <<thread, readAt, participants, messages, shown, missed>>

\* Someone else's reading may be between its rows and its mark, or past a
\* mark whose stamp is later than this one.
InsertMessage(r) ==
    /\ chatting[r].step = "insert"
    /\ messages' = messages \union {[id |-> r, author |-> u, at |-> chatting[r].at] : u \in chatting[r].who}
    /\ missed' = missed \union
         {<<u, r>> : u \in {v \in Staff : \/ readAt[v] >= chatting[r].at
                                          \/ \E q \in Reading("mark") \union Reading("touch author") :
                                                v \in chatting[q].who}}
    /\ Continues(r, "touch thread")
    /\ UNCHANGED <<stamps, thread, readAt, participants, shown>>

TouchThread(r) ==
    /\ chatting[r].step = "touch thread"
    /\ thread' = [thread EXCEPT !.last = chatting[r].at]
    /\ Continues(r, "touch author")
    /\ UNCHANGED <<stamps, readAt, participants, messages, shown, missed>>

\* Mutant: the time of reading is not set for one participant alone.
SetsEveryReadAt(r) == readAt' = [u \in Staff |-> chatting[r].at]

\* Posting counts as reading: nothing older is unread for the author any more.
SetsReadAt(r) == readAt' = [u \in Staff |-> IF u \in chatting[r].who THEN chatting[r].at ELSE readAt[u]]

TouchAuthor(r) ==
    /\ chatting[r].step = "touch author"
    /\ SetsReadAt(r)
    /\ missed' = missed \union (chatting[r].who \X {m.id : m \in {n \in messages : n.at < chatting[r].at}})
    /\ Continues(r, "done")
    /\ UNCHANGED <<stamps, thread, participants, messages, shown>>

\* getThread: membership first, then the rows; no membership is answered 404.
OpenThread(r, u) ==
    /\ chatting[r].step = "idle" /\ u \in participants
    /\ chatting' = [chatting EXCEPT ![r] = [NewChat EXCEPT !.step = "rows", !.who = {u}]]
    /\ UNCHANGED <<stamps, thread, readAt, participants, messages, shown, missed>>

\* The rows arrive, and markRead stamps the time it is called at.
FetchRows(r) ==
    /\ chatting[r].step = "rows"
    /\ Stamp
    /\ chatting' = [chatting EXCEPT ![r].step = "mark", ![r].at = stamps', ![r].found = {m.id : m \in messages}]
    /\ UNCHANGED <<thread, readAt, participants, messages, shown, missed>>

MarkRead(r) ==
    /\ chatting[r].step = "mark"
    /\ SetsReadAt(r)
    /\ shown' = [u \in Staff |-> IF u \in chatting[r].who THEN shown[u] \union chatting[r].found ELSE shown[u]]
    /\ Continues(r, "done")
    /\ UNCHANGED <<stamps, thread, participants, messages, missed>>

\* A failing query is answered 503, or as a chat that is not available.
ChatFails(r) ==
    /\ chatting[r].step \notin {"idle", "done"}
    /\ Continues(r, "done")
    /\ UNCHANGED <<stamps, thread, readAt, participants, messages, shown, missed>>

ChatNext ==
    \E r \in ChatRequests :
        \/ \E u \in Staff : Post(r, u) \/ OpenThread(r, u) \/ \E i \in SUBSET Staff : CreateThread(r, u, i)
        \/ AddParticipants(r) \/ InsertMessage(r) \/ TouchThread(r) \/ TouchAuthor(r)
        \/ FetchRows(r) \/ MarkRead(r) \/ ChatFails(r)

ChatSpec == ChatInit /\ [][ChatNext]_chatVars

-----------------------------------------------------------------------------
\* countUnread: of others, and later than the last reading.
Unread(u) == {m \in messages : m.author # u /\ m.at > readAt[u]}

(* A message somebody else wrote and that a participant was never shown is
   counted as unread for them, unless it came in while they were reading or
   writing themselves, or they posted without opening the thread. *)
UnseenIsUnread ==
    \A u \in participants : \A m \in messages :
        m.author # u /\ m.id \notin shown[u] /\ <<u, m.id>> \notin missed => m \in Unread(u)

=============================================================================
