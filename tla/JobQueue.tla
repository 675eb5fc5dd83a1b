------------------------------ MODULE JobQueue ------------------------------
(***************************************************************************)
(* The queue runtime: jobs of BullMQ under an id derived from the          *)
(* idempotency key, the worker with its retries, the dead-letter record    *)
(* written by the worker's "failed" listener, and the three operations of  *)
(* the API (enqueue, retry, cancel), one step per round trip to Redis.     *)
(*                                                                         *)
(* A job j of Jobs is a queue with an idempotency key, since stableJobId   *)
(* maps equal keys, and only those, to one id.                             *)
(***************************************************************************)
EXTENDS Naturals, FiniteSets

CONSTANTS Jobs,        \* queue and idempotency key of a job
          Requests,    \* calls of the API
          Attempts,    \* the maxAttempts a job is enqueued with
          Failures,    \* payload.simulateFailures of a job
          MaxFaults    \* bound on crashes and failing writes

ASSUME QueueAssumption ==
    /\ Jobs # {}
    /\ Attempts \in [Jobs -> 1 .. 10]
    /\ Failures \in [Jobs -> Nat]
    /\ MaxFaults \in Nat

VARIABLES job,       \* the job of BullMQ
          dead,      \* is there a dead-letter record of the job?
          handler,   \* where "failed" listeners of the job are
          request,   \* the call and where it is
          done,      \* how often the processor went through with the job
          redone,    \* auxiliary: how often a worker that died took that end with it
          lost,      \* auxiliary: the record of the last failure is known to be missing
          raced,     \* auxiliary: a cancel and a worker met over the job
          faults

queueVars == <<job, dead, handler, request, done, redone, lost, raced, faults>>

Operations == {"enqueue", "retry", "retryDead", "cancel"}
JobStates == {"none", "waiting", "delayed", "active", "completed", "failed"}
Answers == {"created", "duplicate", "retried", "cancelled", "refused"}
RequestSteps == {"free", "find", "add", "retry", "drop", "mark", "remove", "died"} \union Answers

\* An active job has ended when its processor has, but BullMQ was not told yet.
NoJob == [state |-> "none", attempts |-> 0, ended |-> FALSE, cancelled |-> FALSE, stalled |-> FALSE]
NewJob == [NoJob EXCEPT !.state = "waiting"]

QueueTypeOK ==
    /\ job \in [Jobs -> [state : JobStates, attempts : 0 .. 10, ended : BOOLEAN,
                         cancelled : BOOLEAN, stalled : BOOLEAN]]
    /\ dead \in [Jobs -> BOOLEAN]
    /\ handler \in [Jobs -> SUBSET {"look", "write"}]
    /\ request \in [Requests -> [op : Operations, job : Jobs, step : RequestSteps]]
    /\ done \in [Jobs -> Nat]
    /\ redone \in [Jobs -> Nat]
    /\ lost \in [Jobs -> BOOLEAN]
    /\ raced \in [Jobs -> BOOLEAN]
    /\ faults \in 0 .. MaxFaults

QueueInit ==
    /\ job = [j \in Jobs |-> NoJob]
    /\ dead = [j \in Jobs |-> FALSE]
    /\ handler = [j \in Jobs |-> {}]
    /\ request \in [Requests -> [op : {"enqueue"}, job : {CHOOSE j \in Jobs : TRUE},
                                 step : {"free"}]]
    /\ done = [j \in Jobs |-> 0]
    /\ redone = [j \in Jobs |-> 0]
    /\ lost = [j \in Jobs |-> FALSE]
    /\ raced = [j \in Jobs |-> FALSE]
    /\ faults = 0

Exists(j) == job[j].state # "none"
At(r, op, step) == request[r].op = op /\ request[r].step = step
Goes(r, step) == request' = [request EXCEPT ![r].step = step]
Fault == faults < MaxFaults /\ faults' = faults + 1

-----------------------------------------------------------------------------
(* The API. *)

Ask(r, op, j) ==
    /\ request[r].step = "free"
    /\ request' = [request EXCEPT ![r] = [op |-> op, job |-> j, step |-> "find"]]
    /\ UNCHANGED <<job, dead, handler, done, redone, lost, raced, faults>>

FindExisting(r) ==
    LET j == request[r].job IN
    /\ At(r, "enqueue", "find")
    /\ Goes(r, IF Exists(j) THEN "duplicate" ELSE "add")
    /\ UNCHANGED <<job, dead, handler, done, redone, lost, raced, faults>>

\* BullMQ leaves a job that took the id in between as it is.
Add(r) ==
    LET j == request[r].job IN
    /\ At(r, "enqueue", "add")
    /\ job' = IF Exists(j) THEN job ELSE [job EXCEPT ![j] = NewJob]
    /\ Goes(r, "created")
    /\ UNCHANGED <<dead, handler, done, redone, lost, raced, faults>>

\* The dead-letter record and the original job are looked up one after the
\* other; nothing is written in between.
FindFailed(r) ==
    LET j == request[r].job IN
    /\ request[r].op \in {"retry", "retryDead"}
    /\ request[r].step = "find"
    /\ Goes(r, IF Exists(j) /\ (request[r].op = "retryDead" => dead[j])
               THEN "retry" ELSE "refused")
    /\ UNCHANGED <<job, dead, handler, done, redone, lost, raced, faults>>

\* BullMQ throws for a job that is not among the failed ones.
Retry(r) ==
    LET j == request[r].job IN
    /\ request[r].step = "retry"
    /\ IF job[j].state = "failed"
       THEN /\ job' = [job EXCEPT ![j].state = "waiting", ![j].attempts = 0]
            /\ Goes(r, IF request[r].op = "retryDead" THEN "drop" ELSE "retried")
       ELSE job' = job /\ Goes(r, "refused")
    /\ UNCHANGED <<dead, handler, done, redone, lost, raced, faults>>

\* The record goes after the job is back, and by then may stand for the job's
\* next failure.
Drop(r) ==
    LET j == request[r].job IN
    /\ At(r, "retryDead", "drop")
    /\ dead' = [dead EXCEPT ![j] = FALSE]
    /\ lost' = [lost EXCEPT ![j] = @ \/ (job[j].state = "failed" /\ handler[j] = {})]
    /\ Goes(r, "retried")
    /\ UNCHANGED <<job, handler, done, redone, raced, faults>>

FindWaiting(r) ==
    LET j == request[r].job IN
    /\ At(r, "cancel", "find")
    /\ Goes(r, IF job[j].state \in {"waiting", "delayed"} THEN "mark" ELSE "refused")
    /\ UNCHANGED <<job, dead, handler, done, redone, lost, raced, faults>>

\* Auxiliary: a cancel that looked while the job was waiting comes too late.
Overtakes(j) ==
    raced' = [raced EXCEPT ![j] = @ \/ job[j].state \notin {"none", "waiting", "delayed"}]

Mark(r) ==
    LET j == request[r].job IN
    /\ At(r, "cancel", "mark")
    /\ IF Exists(j)
       THEN job' = [job EXCEPT ![j].cancelled = TRUE] /\ Goes(r, "remove")
       ELSE job' = job /\ Goes(r, "refused")
    /\ Overtakes(j)
    /\ UNCHANGED <<dead, handler, done, redone, lost, faults>>

\* Mutant: the job stays, in a state BullMQ does not know.
RemoveKeeps(r) ==
    LET j == request[r].job IN
    /\ At(r, "cancel", "remove")
    /\ Goes(r, "cancelled") /\ job' = [job EXCEPT ![j].state = "cancelled"]
    /\ Overtakes(j)
    /\ UNCHANGED <<dead, handler, done, redone, lost, faults>>

\* BullMQ refuses to remove a job a worker holds, and removes any other.
Remove(r) ==
    LET j == request[r].job IN
    /\ At(r, "cancel", "remove")
    /\ IF job[j].state = "active"
       THEN Goes(r, "refused") /\ job' = job
       ELSE Goes(r, "cancelled") /\ job' = [job EXCEPT ![j] = NoJob]
    /\ Overtakes(j)
    /\ UNCHANGED <<dead, handler, done, redone, lost, faults>>

RequestDies(r) ==
    /\ request[r].step \notin {"free", "died"} \union Answers
    /\ Fault
    /\ Goes(r, "died")
    /\ UNCHANGED <<job, dead, handler, done, redone, lost, raced>>

Serve(r) == \/ FindExisting(r) \/ Add(r) \/ FindFailed(r) \/ Retry(r) \/ Drop(r)
            \/ FindWaiting(r) \/ Mark(r) \/ Remove(r)

-----------------------------------------------------------------------------
(* The workers. *)

Take(j) ==
    /\ job[j].state = "waiting"
    /\ job' = [job EXCEPT ![j].state = "active"]
    /\ raced' = [raced EXCEPT ![j] = @ \/ job[j].cancelled]
    /\ UNCHANGED <<dead, handler, request, done, redone, lost, faults>>

BackoffEnds(j) ==
    /\ job[j].state = "delayed"
    /\ job' = [job EXCEPT ![j].state = "waiting"]
    /\ UNCHANGED <<dead, handler, request, done, redone, lost, raced, faults>>

\* The processor throws as long as the payload asks for more failures than
\* the job has had. It does not look at the cancelled flag.
ProcessorThrows(j) == Failures[j] > job[j].attempts

ProcessorEnds(j) ==
    /\ job[j].state = "active" /\ ~job[j].ended /\ ~ProcessorThrows(j)
    /\ job' = [job EXCEPT ![j].ended = TRUE]
    /\ done' = [done EXCEPT ![j] = @ + 1]
    /\ UNCHANGED <<dead, handler, request, redone, lost, raced, faults>>

MoveToCompleted(j) ==
    /\ job[j].state = "active" /\ job[j].ended
    /\ job' = [job EXCEPT ![j].state = "completed", ![j].attempts = @ + 1, ![j].ended = FALSE]
    /\ UNCHANGED <<dead, handler, request, done, redone, lost, raced, faults>>

\* Mutants: the listener takes the last attempt for one before it; a failed attempt is
\* not counted.
FailUnheard(j) ==
    LET last == job[j].attempts + 1 >= Attempts[j] IN
    /\ job[j].state = "active" /\ ~job[j].ended /\ ProcessorThrows(j)
    /\ job' = [job EXCEPT ![j].state = IF last THEN "failed" ELSE "delayed",
                          ![j].attempts = @ + 1]
    /\ UNCHANGED <<dead, handler, request, done, redone, lost, raced, faults>>

FailUncounted(j) ==
    /\ job[j].state = "active" /\ ~job[j].ended /\ ProcessorThrows(j)
    /\ job' = [job EXCEPT ![j].state = "delayed"]
    /\ UNCHANGED <<dead, handler, request, done, redone, lost, raced, faults>>

\* The listener returns at once while attempts are left.
Hears(j, attempts) ==
    LET last == attempts >= Attempts[j] IN
    /\ handler' = IF last THEN [handler EXCEPT ![j] = @ \union {"look"}] ELSE handler
    /\ lost' = IF last THEN [lost EXCEPT ![j] = FALSE] ELSE lost

Fail(j) ==
    LET attempts == job[j].attempts + 1 IN
    /\ job[j].state = "active" /\ ~job[j].ended /\ ProcessorThrows(j)
    /\ job' = [job EXCEPT ![j].state = IF attempts >= Attempts[j] THEN "failed" ELSE "delayed",
                          ![j].attempts = attempts]
    /\ Hears(j, attempts)
    /\ UNCHANGED <<dead, request, done, redone, raced, faults>>

ListenerLooks(j) ==
    /\ "look" \in handler[j]
    /\ handler' = [handler EXCEPT ![j] = (@ \ {"look"}) \union (IF dead[j] THEN {} ELSE {"write"})]
    /\ UNCHANGED <<job, dead, request, done, redone, lost, raced, faults>>

ListenerWrites(j) ==
    /\ "write" \in handler[j]
    /\ handler' = [handler EXCEPT ![j] = @ \ {"write"}]
    /\ dead' = [dead EXCEPT ![j] = TRUE]
    /\ UNCHANGED <<job, request, done, redone, lost, raced, faults>>

\* The write fails, which is only logged, or the worker dies with it.
ListenerFails(j) ==
    /\ handler[j] # {}
    /\ Fault
    /\ handler' = [handler EXCEPT ![j] = {}]
    /\ lost' = [lost EXCEPT ![j] = TRUE]
    /\ UNCHANGED <<job, dead, request, done, redone, raced>>

\* A worker died with the job, and the end of its processor, if it came to one,
\* is gone with it.
WorkerDied(j) ==
    /\ job[j].state = "active"
    /\ Fault
    /\ redone' = [redone EXCEPT ![j] = IF job[j].ended THEN @ + 1 ELSE @]
    /\ UNCHANGED <<dead, request, done, raced>>

\* BullMQ gives out once more a job whose worker is gone.
Stall(j) ==
    /\ WorkerDied(j) /\ ~job[j].stalled
    /\ job' = [job EXCEPT ![j].state = "waiting", ![j].ended = FALSE, ![j].stalled = TRUE]
    /\ UNCHANGED <<handler, lost>>

\* The second time it fails the job, whatever attempts are left, and counts one
\* more or not. The listener leaves a job with attempts left alone.
StallFails(j) ==
    \E attempts \in {job[j].attempts, job[j].attempts + 1} :
        /\ WorkerDied(j) /\ job[j].stalled
        /\ job' = [job EXCEPT ![j].state = "failed", ![j].attempts = attempts, ![j].ended = FALSE]
        /\ Hears(j, attempts)

Work(j) == \/ Take(j) \/ BackoffEnds(j) \/ ProcessorEnds(j) \/ MoveToCompleted(j) \/ Fail(j)
           \/ ListenerLooks(j) \/ ListenerWrites(j)

QueueStep ==
    \/ \E r \in Requests : Serve(r) \/ RequestDies(r)
    \/ \E j \in Jobs : Work(j) \/ ListenerFails(j) \/ Stall(j) \/ StallFails(j)

-----------------------------------------------------------------------------
(* What the API shows of a job: the flag goes before the state. *)
ShownStatus(j) ==
    IF job[j].cancelled THEN "cancelled"
    ELSE CASE job[j].state = "active" -> "processing"
           [] job[j].state \in {"completed", "failed"} -> job[j].state
           [] OTHER -> "waiting"

(* A job that used up its attempts is on the dead-letter list, where an
   operator finds it, once its listener is through: unless the write failed or
   an operator's retry of an earlier failure took the record away. *)
UsedUp(j) == job[j].state = "failed" /\ job[j].attempts >= Attempts[j] /\ handler[j] = {}
DeadLettersAreKept == \A j \in Jobs : UsedUp(j) => dead[j] \/ lost[j]

(* Whatever is enqueued again, retried or stalled, the processor goes through
   with the work of one idempotency key once, and once more for each worker that
   died between that end and telling BullMQ; and the API shows as cancelled only
   what it did not go through with, but for such an end. The one exception is a
   cancel that a worker came in between of: see CancelledIsUndone. *)
RunsOnce ==
    \A j \in Jobs : ~raced[j] =>
        /\ done[j] <= 1 + redone[j]
        /\ ShownStatus(j) = "cancelled" => done[j] = redone[j]

(* A job is neither lost nor done twice. *)
JobsAreKept == DeadLettersAreKept /\ RunsOnce

(* A failed job that used up its attempts is on the dead-letter list. Not so in
   this code: the retry of a dead letter removes the record after the job is back
   in its queue, and takes away that of the next failure. *)
FailedIsOnTheList == \A j \in Jobs : UsedUp(j) => dead[j]

(* Only a job that waits can be cancelled: what the API shows as cancelled was not
   done. Not so in this code: the state is looked up first, and the flag is put on
   a job that a worker took in between and goes through with. *)
CancelledIsUndone == \A j \in Jobs : ShownStatus(j) = "cancelled" => done[j] = redone[j]

(* An accepted job comes to an end: it is finished, on the list of the failed,
   or removed by a cancel. *)
AcceptedEnds ==
    \A j \in Jobs : job[j].state = "waiting" ~> job[j].state \in {"completed", "failed", "none"}
=============================================================================
