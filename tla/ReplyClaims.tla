----------------------------- MODULE ReplyClaims ------------------------------
(***************************************************************************)
(* The reservation that keeps one text from going out twice.               *)
(*                                                                         *)
(* Both senders of LZR HUB share it: the automatic reply                   *)
(* (metaAutoReplySender, keyed by the wamid of the customer's message,     *)
(* which Meta redelivers for days) and the attendant's reply               *)
(* (sendAttendantReply, keyed by the click).  Each call is an attempt; the *)
(* attempts of a key run concurrently and any of them may die at any       *)
(* point.  The reservation is a row of channel_idempotency_keys.           *)
(*                                                                         *)
(* Meta is outside src/: a request is in flight, then accepted or turned   *)
(* away, and what the client sees of it (SendResult of cloud-client.ts) is *)
(* a separate event.  Every failure but one that carries an error code of  *)
(* Meta may hide a text that Meta accepted: the answer is late (timeout),  *)
(* the connection breaks after the request was sent (unreachable), or the  *)
(* answer cannot be read or has no id of a message (rejected).             *)
(***************************************************************************)
CONSTANTS Attempts, Keys, KeyOf, NoAttempt,
          FailureKinds   \* of SendFailureKind, the kinds told apart

\* The kinds a model may tell apart: "refused" stands for those that carry an
\* error code of Meta (window_closed, not_allowed, invalid_token,
\* invalid_recipient, rate_limited); the other three keep their names.
AllFailureKinds == {"refused", "timeout", "unreachable", "rejected"}

ASSUME KeysAssumption == KeyOf \in [Attempts -> Keys]
ASSUME NoAttemptAssumption == NoAttempt \notin Attempts
ASSUME KindsOfFailure == FailureKinds \subseteq AllFailureKinds

VARIABLES claim,    \* claim[k]: the row of the key, ClaimState of the code
          pc,       \* pc[a]: where attempt a is
          wire,     \* wire[a]: the request of a, as Meta knows it
          failure,  \* failure[a]: the kind of SendResult a received
          answer    \* answer[a]: what the caller of a was told

claimVars == <<claim, pc, wire, failure, answer>>

NoClaim == [status |-> "none", text |-> NoAttempt]
Pending == [status |-> "pending", text |-> NoAttempt]
Unknown == [status |-> "unknown", text |-> NoAttempt]
SentBy(a) == [status |-> "sent", text |-> a]

ClaimStates == [status : {"none", "pending", "sent", "unknown"},
                text : Attempts \cup {NoAttempt}]

Said(what) == [told |-> what, text |-> NoAttempt]
SaidSent(a) == [told |-> "sent", text |-> a]
Answers == [told : {"nothing", "blocked", "failed", "unknown", "died", "sent"},
            text : Attempts \cup {NoAttempt}]

Begun == {"asked", "holding", "calling", "accepted", "failed"}
Holding == {"holding", "calling", "accepted", "failed"}

\* The text of a has reached Meta, or may still reach it.
Out(a) == wire[a] \in {"flying", "accepted"}

\* The sender of a heard a failure that it takes for a refusal, and that need not
\* be one: it gives its text up for lost, whether or not it is.
Disowned(a) == failure[a] \in {"unreachable", "rejected"}

ClaimTypeOK ==
    /\ claim \in [Keys -> ClaimStates]
    /\ pc \in [Attempts -> Begun \cup {"idle", "done"}]
    /\ wire \in [Attempts -> {"idle", "flying", "accepted", "lost"}]
    /\ failure \in [Attempts -> FailureKinds \cup {"none"}]
    /\ answer \in [Attempts -> Answers]

ClaimInit ==
    /\ claim = [k \in Keys |-> NoClaim]
    /\ pc = [a \in Attempts |-> "idle"]
    /\ wire = [a \in Attempts |-> "idle"]
    /\ failure = [a \in Attempts |-> "none"]
    /\ answer = [a \in Attempts |-> Said("nothing")]

Finish(a, what) ==
    /\ pc' = [pc EXCEPT ![a] = "done"]
    /\ answer' = [answer EXCEPT ![a] = what]

(***************************************************************************)
(* claimState(key): a row stops the attempt, and a sent one answers it.    *)
(***************************************************************************)
FindSent(a) ==
    /\ pc[a] = "idle"
    /\ claim[KeyOf[a]].status = "sent"
    /\ Finish(a, SaidSent(claim[KeyOf[a]].text))
    /\ UNCHANGED <<claim, wire, failure>>

FindUnsettled(a) ==
    /\ pc[a] = "idle"
    /\ claim[KeyOf[a]].status \in {"pending", "unknown"}
    /\ Finish(a, Said("blocked"))
    /\ UNCHANGED <<claim, wire, failure>>

FindNothing(a) ==
    /\ pc[a] = "idle"
    /\ claim[KeyOf[a]].status = "none"
    /\ pc' = [pc EXCEPT ![a] = "asked"]
    /\ UNCHANGED <<claim, wire, failure, answer>>

\* The policy (login, flag, configuration, recipient, text, 24 hour window):
\* before the read in the automatic reply, after it in the attendant's.
PolicyBlocks(a) ==
    /\ pc[a] \in {"idle", "asked"}
    /\ Finish(a, Said("blocked"))
    /\ UNCHANGED <<claim, wire, failure>>

(***************************************************************************)
(* claim(key): an insert that the primary key turns away when the row is   *)
(* there.  The database may fail before or after the row is committed.     *)
(***************************************************************************)
\* Mutant: the insert does not mind a row that is there.
ReserveOverwrites(a) ==
    /\ pc[a] = "asked"
    /\ claim' = [claim EXCEPT ![KeyOf[a]] = Pending]
    /\ pc' = [pc EXCEPT ![a] = "holding"]
    /\ UNCHANGED <<wire, failure, answer>>

Reserve(a) ==
    /\ pc[a] = "asked"
    /\ claim[KeyOf[a]].status = "none"
    /\ claim' = [claim EXCEPT ![KeyOf[a]] = Pending]
    /\ pc' = [pc EXCEPT ![a] = "holding"]
    /\ UNCHANGED <<wire, failure, answer>>

LoseRace(a) ==
    /\ pc[a] = "asked"
    /\ claim[KeyOf[a]].status # "none"
    /\ Finish(a, Said("blocked"))
    /\ UNCHANGED <<claim, wire, failure>>

ReserveFails(a) ==
    /\ pc[a] \in {"idle", "asked"}
    /\ \/ UNCHANGED claim
       \/ /\ pc[a] = "asked"
          /\ claim[KeyOf[a]].status = "none"
          /\ claim' = [claim EXCEPT ![KeyOf[a]] = Pending]
    /\ Finish(a, Said("failed"))
    /\ UNCHANGED <<wire, failure>>

(***************************************************************************)
(* sendTextMessage, and Meta on the other side of it.                      *)
(***************************************************************************)
Send(a) ==
    /\ pc[a] = "holding"
    /\ pc' = [pc EXCEPT ![a] = "calling"]
    /\ wire' = [wire EXCEPT ![a] = "flying"]
    /\ UNCHANGED <<claim, failure, answer>>

MetaAccepts(a) ==
    /\ wire[a] = "flying"
    /\ wire' = [wire EXCEPT ![a] = "accepted"]
    /\ UNCHANGED <<claim, pc, failure, answer>>

MetaTurnsAway(a) ==
    /\ wire[a] = "flying"
    /\ wire' = [wire EXCEPT ![a] = "lost"]
    /\ UNCHANGED <<claim, pc, failure, answer>>

\* 2xx with the id of the message.
HearAccepted(a) ==
    /\ pc[a] = "calling"
    /\ wire[a] = "accepted"
    /\ pc' = [pc EXCEPT ![a] = "accepted"]
    /\ UNCHANGED <<claim, wire, failure, answer>>

\* Mutant: the call to Meta has no timer.
HearFailureWithoutTimer(a, kind) ==
    /\ pc[a] = "calling"
    /\ wire[a] = "lost"
    /\ pc' = [pc EXCEPT ![a] = "failed"]
    /\ failure' = [failure EXCEPT ![a] = kind]
    /\ UNCHANGED <<claim, wire, answer>>

\* Every other outcome: AbortError is a timeout, any other error of fetch is
\* unreachable, and a 2xx whose body has no id, or cannot be read, is rejected
\* like an answer with no code known.  Only a code of Meta says what Meta did.
HearFailure(a, kind) ==
    /\ pc[a] = "calling"
    /\ wire[a] = "lost" \/ kind # "refused"
    /\ pc' = [pc EXCEPT ![a] = "failed"]
    /\ failure' = [failure EXCEPT ![a] = kind]
    /\ UNCHANGED <<claim, wire, answer>>

(***************************************************************************)
(* The reservation after the call: kept as unknown on a timeout, deleted   *)
(* on every other failure, sent when Meta accepted.  An error of the       *)
(* database is swallowed and leaves the row as it was.                     *)
(***************************************************************************)
\* Mutants: a timeout releases like any failure; a timeout is told as a failure.
SettleFailureReleasesAll(a) ==
    /\ pc[a] = "failed"
    /\ claim' = [claim EXCEPT ![KeyOf[a]] = NoClaim]
    /\ Finish(a, Said(IF failure[a] = "timeout" THEN "unknown" ELSE "failed"))
    /\ UNCHANGED <<wire, failure>>

SettleFailureTellsFailed(a) ==
    /\ pc[a] = "failed"
    /\ claim' = [claim EXCEPT ![KeyOf[a]] =
                    IF failure[a] = "timeout" THEN Unknown ELSE NoClaim]
    /\ Finish(a, Said("failed"))
    /\ UNCHANGED <<wire, failure>>

\* What is left of the reservation when a failure is settled.
AfterFailure(a) == IF failure[a] = "timeout" THEN Unknown ELSE NoClaim

SettleFailure(a) ==
    /\ pc[a] = "failed"
    /\ \/ UNCHANGED claim
       \/ claim' = [claim EXCEPT ![KeyOf[a]] = AfterFailure(a)]
    /\ Finish(a, Said(IF failure[a] = "timeout" THEN "unknown" ELSE "failed"))
    /\ UNCHANGED <<wire, failure>>

SettleAccepted(a) ==
    /\ pc[a] = "accepted"
    /\ \/ UNCHANGED claim
       \/ claim' = [claim EXCEPT ![KeyOf[a]] = SentBy(a)]
    /\ Finish(a, SaidSent(a))
    /\ UNCHANGED <<wire, failure>>

\* The process dies in the middle, before or after the last write of its step; the
\* request it sent does not.
Die(a) ==
    /\ pc[a] \in Begun
    /\ \/ UNCHANGED claim
       \/ pc[a] = "failed" /\ claim' = [claim EXCEPT ![KeyOf[a]] = AfterFailure(a)]
       \/ pc[a] = "accepted" /\ claim' = [claim EXCEPT ![KeyOf[a]] = SentBy(a)]
    /\ Finish(a, Said("died"))
    /\ UNCHANGED <<wire, failure>>

AttemptStep(a) ==
    \/ FindSent(a) \/ FindUnsettled(a) \/ FindNothing(a) \/ PolicyBlocks(a)
    \/ Reserve(a) \/ LoseRace(a) \/ ReserveFails(a)
    \/ Send(a) \/ HearAccepted(a) \/ (\E kind \in FailureKinds : HearFailure(a, kind))
    \/ SettleFailure(a) \/ SettleAccepted(a)

MetaStep(a) == MetaAccepts(a) \/ MetaTurnsAway(a)

ClaimNext == \E a \in Attempts : AttemptStep(a) \/ MetaStep(a) \/ Die(a)

ClaimSpec == ClaimInit /\ [][ClaimNext]_claimVars

(***************************************************************************)
(* Fairness: a process that runs goes on running (or dies), because every  *)
(* await of it ends: SEND_TIMEOUT_MS aborts the call to Meta.  Nothing is  *)
(* assumed of Meta.                                                        *)
(***************************************************************************)
FairClaimSpec ==
    ClaimSpec /\ \A a \in Attempts : WF_claimVars(pc[a] # "idle" /\ AttemptStep(a))

-----------------------------------------------------------------------------
(* The properties. *)

\* What the reservation does achieve: of the texts of one key that Meta accepted or
\* may still accept, at most one is not disowned.  Neither concurrency nor a crash
\* nor an error of the database nor a timeout ever lets a second copy out; only an
\* attempt that took an unreadable answer or a broken connection for a refusal does.
AtMostOnce ==
    \A a, b \in Attempts :
        Out(a) /\ Out(b) /\ KeyOf[a] = KeyOf[b] /\ a # b => Disowned(a) \/ Disowned(b)

\* What the senders are meant to achieve: one message per click or per wamid ("cada
\* reentrega nao pode virar outra mensagem").  Not so in this code: "nos demais casos a
\* Meta recusou, e soltar e seguro" does not hold of a disowned text, and TLC finds
\* the second copy.
OneCopyReaches ==
    \A a, b \in Attempts :
        wire[a] = "accepted" /\ wire[b] = "accepted" /\ KeyOf[a] = KeyOf[b] => a = b

\* An answer "sent" names a text of that key that Meta did accept: the original
\* send and every repetition of it (duplicate: true, or the redelivery that
\* records what went out).
ToldTheTruth ==
    \A a \in Attempts : answer[a].told = "sent" =>
        /\ wire[answer[a].text] = "accepted"
        /\ KeyOf[answer[a].text] = KeyOf[a]

\* An attempt answered failed, or blocked, has no text at Meta and none on its way,
\* unless it is disowned: neither a timeout nor an error of the database is ever told
\* as a failure while the text may be out.
FailedMeansNotSent ==
    \A a \in Attempts :
        answer[a].told \in {"failed", "blocked"} /\ Out(a) => Disowned(a)

\* What a caller hears is true of the texts, both ways: "sent" always, and "it did not
\* go" of every text but a disowned one.
AnswersAreSound == ToldTheTruth /\ FailedMeansNotSent

\* A reservation that says sent or unknown is never reopened nor rewritten: no
\* later click or redelivery finds it changed.
KeepsSettled ==
    \A k \in Keys : \/ claim[k].status \in {"none", "pending"}
                    \/ claim'[k] = claim[k]
SettledStays == [][KeepsSettled]_claimVars

\* A key is free again only if nothing of it is out but disowned texts: releasing
\* the reservation invites another attempt to send.
FreeMeansNothingOut ==
    \A a \in Attempts : claim[KeyOf[a]].status = "none" /\ Out(a) => Disowned(a)

\* The reservation can be trusted as far as what the sender heard can: it is free only
\* over what was disowned, and once settled it stays.
ReservationHolds == []FreeMeansNothingOut /\ SettledStays

\* An attempt that began answers its caller or dies; the timer of the call is
\* what makes it so when Meta never answers.
AttemptsEnd == \A a \in Attempts : pc[a] \in Begun ~> pc[a] = "done"

(***************************************************************************)
(* The refinement mapping to OutboundText.                                 *)
(***************************************************************************)
TextsOf == [k \in Keys |-> {a \in Attempts : KeyOf[a] = k /\ wire[a] = "accepted"}]
ToldOf == [a \in Attempts |-> answer[a].text]
GivenUp == {a \in Attempts : Disowned(a)}

Abstract == INSTANCE OutboundText WITH texts <- TextsOf, told <- ToldOf, disowned <- GivenUp

\* Every behaviour of the senders is one of OutboundText.
RefinesOutboundText == Abstract!OTSpec
=============================================================================
