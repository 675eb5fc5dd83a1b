---------------------------- MODULE ChannelTurn ----------------------------
(***************************************************************************)
(* The channel as n8n and Evolution use it: a POST of a message is         *)
(* answered with a reply that the caller sends, or with a suggestion; the  *)
(* caller posts again when it heard no answer. One conversation, with the  *)
(* question about the service and the rating the customer may give. Each   *)
(* save of a turn is a statement of its own. (The Meta route, which sends  *)
(* by itself and starts a triage, is MetaInbound.)                         *)
(***************************************************************************)
EXTENDS Naturals, Sequences

CONSTANTS Said,            \* messages of the customer, by their idempotency key
          Posts,           \* POSTs; several may carry one message
          MaxDialogue      \* bound on the rows of the conversation

ASSUME TurnAssumption == MaxDialogue \in Nat

VARIABLES words,           \* whether a message can be read as a score
          dialogue,        \* channel_messages, oldest first
          kept,            \* channel_idempotency_keys with the response
          outcomes,        \* conversation_outcomes, by the POST that saved them
          rating,          \* csat_ratings: the messages that rated, one row for ever
          posting          \* where each POST is

turnVars == <<words, dialogue, kept, outcomes, rating, posting>>

Replies == {"none", "answer", "answer and question", "thanks"}
TurnStatuses == {"none", "resolved", "handoff", "suggested", "rated"}
NoResponse == [reply |-> "none", sent |-> FALSE, status |-> "none"]
Responses == [reply : Replies, sent : BOOLEAN, status : TurnStatuses]
DialogueRows == [role : {"customer", "agent", "suggestion"}, text : Replies \union {"words"}]
NewPost == [step |-> "idle", message |-> {}, auto |-> FALSE, response |-> NoResponse]

TurnTypeOK ==
    /\ words \in [Said -> {"score", "words"}]
    /\ dialogue \in Seq(DialogueRows)
    /\ kept \in [Said -> Responses]
    /\ outcomes \subseteq Posts /\ rating \subseteq Said
    /\ posting \in [Posts -> [step : {"idle", "read", "rate", "decide", "rows", "key", "outcome", "answered", "error"},
                              message : SUBSET Said, auto : BOOLEAN, response : Responses]]

\* The conversation begins here, or goes on after a turn that asked how it was.
Asked == << [role |-> "customer", text |-> "words"], [role |-> "agent", text |-> "answer and question"] >>

TurnInit ==
    /\ words \in [Said -> {"score", "words"}]
    /\ dialogue \in {<<>>, Asked}
    /\ kept = [k \in Said |-> NoResponse]
    /\ outcomes = {} /\ rating = {}
    /\ posting = [d \in Posts |-> NewPost]

-----------------------------------------------------------------------------
AtStep(d, step, k) == posting[d].step = step /\ posting[d].message = {k}
Then(d, step, response) == posting' = [posting EXCEPT ![d].step = step, ![d].response = response]

\* findIdempotent. Whether the AI may reply was asked just before: a person in
\* charge of the conversation makes it a suggestion, and Evolution never replies.
ArrivePost(d, k, auto) ==
    /\ posting[d].step = "idle"
    /\ posting' = [posting EXCEPT ![d] =
          IF kept[k] = NoResponse
          THEN [NewPost EXCEPT !.step = "read", !.message = {k}, !.auto = auto]
          ELSE [NewPost EXCEPT !.step = "answered", !.message = {k}, !.response = kept[k]]]
    /\ UNCHANGED <<words, dialogue, kept, outcomes, rating>>

\* Mutant: whatever the agent said may be answered with a score.
IsAwaitingCsatAlways == \E i \in 1 .. Len(dialogue) : dialogue[i].role = "agent"
\* The last thing an agent said, suggestions aside, was the question.
IsAwaitingCsat ==
    \E i \in 1 .. Len(dialogue) :
        /\ dialogue[i] = [role |-> "agent", text |-> "answer and question"]
        /\ \A j \in i + 1 .. Len(dialogue) : dialogue[j].role # "agent"

ReadDialogue(d, k) ==
    /\ AtStep(d, "read", k)
    /\ Then(d, IF IsAwaitingCsat /\ words[k] = "score" THEN "rate" ELSE "decide", NoResponse)
    /\ UNCHANGED <<words, dialogue, kept, outcomes, rating>>

\* One rating of a conversation, the first; a later one changes nothing and is
\* thanked for all the same.
SaveRating(d, k) ==
    /\ AtStep(d, "rate", k)
    /\ rating' = IF rating = {} THEN {k} ELSE rating
    /\ Then(d, "rows", [reply |-> "thanks", sent |-> posting[d].auto, status |-> "rated"])
    /\ UNCHANGED <<words, dialogue, kept, outcomes>>

\* The classifier and the pipeline, whatever they say. The question goes with a
\* reply that resolves, and only with one the caller sends.
DecideTurn(d, k, final) ==
    /\ AtStep(d, "decide", k)
    /\ LET sent == posting[d].auto
           reply == IF sent /\ final = "resolved" THEN "answer and question" ELSE "answer" IN
       Then(d, "rows", [reply |-> reply, sent |-> sent, status |-> IF sent THEN final ELSE "suggested"])
    /\ UNCHANGED <<words, dialogue, kept, outcomes, rating>>

SaveRows(d, k) ==
    /\ AtStep(d, "rows", k) /\ Len(dialogue) + 2 <= MaxDialogue
    /\ dialogue' = dialogue \o
          <<[role |-> "customer", text |-> "words"],
            [role |-> IF posting[d].response.sent THEN "agent" ELSE "suggestion",
             text |-> posting[d].response.reply]>>
    /\ Then(d, "key", posting[d].response)
    /\ UNCHANGED <<words, kept, outcomes, rating>>

\* The primary key refuses a second row: that POST ends in an error.
SaveIdempotency(d, k) ==
    /\ AtStep(d, "key", k)
    /\ IF kept[k] = NoResponse
       THEN /\ kept' = [kept EXCEPT ![k] = posting[d].response]
            /\ Then(d, "outcome", posting[d].response)
       ELSE /\ Then(d, "error", posting[d].response)
            /\ UNCHANGED kept
    /\ UNCHANGED <<words, dialogue, outcomes, rating>>

\* After the audit row; a rating is no outcome.
SaveOutcome(d, k) ==
    /\ AtStep(d, "outcome", k)
    /\ outcomes' = IF posting[d].response.status = "rated" THEN outcomes ELSE outcomes \union {d}
    /\ Then(d, "answered", posting[d].response)
    /\ UNCHANGED <<words, dialogue, kept, rating>>

PostFails(d) ==
    /\ posting[d].step \in {"read", "rate", "decide", "rows", "key", "outcome"}
    /\ posting' = [posting EXCEPT ![d].step = "error"]
    /\ UNCHANGED <<words, dialogue, kept, outcomes, rating>>

\* An attendant's own reply is an agent's too.
AttendantReplies ==
    /\ Len(dialogue) < MaxDialogue
    /\ dialogue' = Append(dialogue, [role |-> "agent", text |-> "answer"])
    /\ UNCHANGED <<words, kept, outcomes, rating, posting>>

TurnNext ==
    \/ \E d \in Posts, k \in Said :
          \/ \E auto \in BOOLEAN : ArrivePost(d, k, auto)
          \/ ReadDialogue(d, k) \/ SaveRating(d, k) \/ \E final \in {"resolved", "handoff"} : DecideTurn(d, k, final)
          \/ SaveRows(d, k) \/ SaveIdempotency(d, k) \/ SaveOutcome(d, k)
    \/ \E d \in Posts : PostFails(d)
    \/ AttendantReplies

TurnSpec == TurnInit /\ [][TurnNext]_turnVars

-----------------------------------------------------------------------------
(* Whatever overlaps, fails and comes again: a message counts as one outcome at
   most, and all POSTs of it that are answered are answered alike (so that the
   caller never has two replies to send). *)
OneAnswerPerMessage ==
    \A c, d \in Posts :
        c # d /\ posting[c].message = posting[d].message =>
            /\ ~(c \in outcomes /\ d \in outcomes)
            /\ posting[c].step = "answered" /\ posting[d].step = "answered" =>
                  posting[c].response = posting[d].response

(* A rating comes from a message read as a score after a question that counts
   as asked: never from a digit in some other message. *)
RatingsWereAskedFor ==
    rating # {} => /\ \E i \in 1 .. Len(dialogue) : dialogue[i] = [role |-> "agent", text |-> "answer and question"]
                   /\ \A k \in rating : words[k] = "score"

(* What a POST counts for: one outcome and one answer, and a rating that was asked for. *)
PostsCountOnce == OneAnswerPerMessage /\ RatingsWereAskedFor
=============================================================================
