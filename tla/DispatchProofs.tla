---------------------------- MODULE DispatchProofs ----------------------------
(***************************************************************************)
(* The queue and the contacts that go through it, for any jobs, calls,     *)
(* runs and customers: no job is lost or done twice, the queue holds no    *)
(* contact the ledger does not know of, and a notice run that went well    *)
(* left all it decided on in the queue.                                    *)
(***************************************************************************)
EXTENDS Campaigns, FiniteSetTheorems, TLAPS

-----------------------------------------------------------------------------
(* What is inductive. *)

\* A job that may still run has attempts left.
AttemptsLeft ==
    \A j \in Jobs : job[j].state \in {"waiting", "delayed", "active"} => job[j].attempts < Attempts[j]

\* The work of a job is done when its processor has ended or the job is completed,
\* and for each end a dead worker took with it, unless a cancel and a worker met;
\* no worker holds a job marked as cancelled, and only a worker's job has ended.
Through(j) == job[j].state = "completed" \/ job[j].ended
WorkIsDoneOnce ==
    \A j \in Jobs :
        /\ job[j].ended => job[j].state = "active"
        /\ ~raced[j] => /\ done[j] = redone[j] + (IF Through(j) THEN 1 ELSE 0)
                        /\ job[j].state \in {"active", "completed"} => ~job[j].cancelled

QueueInv == QueueTypeOK /\ AttemptsLeft /\ DeadLettersAreKept /\ WorkIsDoneOnce

\* The versions of the rule are numbered one after the other.
VersionsInOrder == \E n \in 0 .. MaxVersions : Saved = 1 .. n

\* Nobody but the runs calls the queue, which they only ask to take what the
\* ledger knows, and an answer means the job is there.
CallsAreRecorded ==
    kind # "operators" => \A q \in Requests :
        /\ request[q].op = "enqueue"
        /\ request[q].step \in {"free", "find", "add", "created", "duplicate", "died"}
        /\ request[q].step # "free" => request[q].job \in ledger
        /\ request[q].step \in {"created", "duplicate"} => Exists(request[q].job)

\* What a run is going to queue is in the ledger.
RunsRecordFirst ==
    \A r \in Runs :
        /\ run[r].inserted \subseteq ledger
        /\ run[r].step = "record" => run[r].batch \ run[r].todo \subseteq ledger
        /\ run[r].step \in {"queue", "wait"} => run[r].todo \subseteq ledger

\* What a notice run no longer has to do is in the queue, but for the call it
\* waits for.
NoticesGoIn ==
    kind = "notice" => \A r \in Runs : run[r].clean =>
        /\ run[r].step = "queue" => \A j \in run[r].batch \ run[r].todo : Exists(j)
        /\ run[r].step = "wait" =>
              /\ \A j \in run[r].batch \ (run[r].todo \union run[r].asked) : Exists(j)
              /\ \A j \in run[r].asked : request[<<r, j>>].job = j
        /\ run[r].step = "done" => \A j \in run[r].batch : Exists(j)

DispatchInv ==
    /\ QueueInv /\ CampaignTypeOK /\ VersionsInOrder
    /\ CallsAreRecorded /\ QueuedIsRecorded /\ RunsRecordFirst /\ NoticesGoIn

-----------------------------------------------------------------------------
(* The queue. *)

JobRecords == [state : JobStates, attempts : 0 .. 10, ended : BOOLEAN, cancelled : BOOLEAN, stalled : BOOLEAN]
CallRecords == [op : Operations, job : Jobs, step : RequestSteps]

LEMMA JobUpdates ==
    ASSUME QueueTypeOK, NEW j \in Jobs
    PROVE  /\ \A s \in JobStates : [job[j] EXCEPT !.state = s] \in JobRecords
           /\ \A s \in JobStates : [job[j] EXCEPT !.state = s, !.attempts = 0] \in JobRecords
           /\ \A s \in JobStates :
                 [job[j] EXCEPT !.state = s, !.ended = FALSE, !.stalled = TRUE] \in JobRecords
           /\ [job[j] EXCEPT !.cancelled = TRUE] \in JobRecords
           /\ [job[j] EXCEPT !.ended = TRUE] \in JobRecords
<1>1. job[j] \in JobRecords /\ 0 \in 0 .. 10
  BY DEF QueueTypeOK, JobRecords
<1>2. \A s \in JobStates : [job[j] EXCEPT !.state = s] \in JobRecords
  BY <1>1, Zenon DEF JobRecords
<1>3. \A s \in JobStates : [job[j] EXCEPT !.state = s, !.attempts = 0] \in JobRecords
  BY <1>1, Zenon DEF JobRecords
<1>4. \A s \in JobStates : [job[j] EXCEPT !.state = s, !.ended = FALSE, !.stalled = TRUE] \in JobRecords
  BY <1>1, Zenon DEF JobRecords
<1>5. [job[j] EXCEPT !.cancelled = TRUE] \in JobRecords /\ [job[j] EXCEPT !.ended = TRUE] \in JobRecords
  BY <1>1, Zenon DEF JobRecords
<1> QED BY <1>2, <1>3, <1>4, <1>5, Zenon

LEMMA NewJobs ==
    /\ NoJob \in JobRecords /\ NoJob.state = "none" /\ ~NoJob.ended
    /\ NewJob \in JobRecords /\ NewJob.state = "waiting" /\ NewJob.attempts = 0 /\ ~NewJob.ended
<1>1. 0 \in 0 .. 10 /\ "none" \in JobStates /\ "waiting" \in JobStates
  BY DEF JobStates
<1>2. NoJob \in JobRecords /\ NoJob.state = "none" /\ NoJob.attempts = 0 /\ ~NoJob.ended
  BY <1>1 DEF NoJob, JobRecords
<1>3. NewJob \in JobRecords
  BY <1>1, <1>2, Zenon DEF NewJob, JobRecords
<1>4. NewJob.state = "waiting" /\ NewJob.attempts = 0 /\ ~NewJob.ended
  BY <1>2 DEF NewJob, NoJob
<1> QED BY <1>2, <1>3, <1>4

\* A worker's job has an attempt left to count.
LEMMA AttemptUpdates ==
    ASSUME QueueTypeOK, AttemptsLeft, NEW j \in Jobs, job[j].state = "active",
           NEW s \in JobStates, NEW n \in {job[j].attempts, job[j].attempts + 1}
    PROVE  /\ n \in 0 .. Attempts[j]
           /\ [job[j] EXCEPT !.state = s, !.attempts = n] \in JobRecords
           /\ [job[j] EXCEPT !.state = s, !.attempts = n, !.ended = FALSE] \in JobRecords
<1>1. job[j] \in JobRecords
  BY DEF QueueTypeOK, JobRecords
<1>2. n \in 0 .. 10 /\ n \in 0 .. Attempts[j]
  <2>1. Attempts[j] \in 1 .. 10 /\ job[j].attempts \in 0 .. 10 /\ job[j].attempts < Attempts[j]
    BY <1>1, QueueAssumption DEF JobRecords, AttemptsLeft
  <2> QED BY <2>1
<1>3. [job[j] EXCEPT !.state = s, !.attempts = n] \in JobRecords
  BY <1>1, <1>2, Zenon DEF JobRecords
<1>4. [job[j] EXCEPT !.state = s, !.attempts = n, !.ended = FALSE] \in JobRecords
  BY <1>1, <1>2, Zenon DEF JobRecords
<1> QED BY <1>2, <1>3, <1>4

\* What happens to a job on the workers' side.
Works(j) == Work(j) \/ ListenerFails(j) \/ Stall(j) \/ StallFails(j)

\* What a step may do to the jobs, one at a time.
JobMoves(j) ==
    \/ job' = [job EXCEPT ![j] = NewJob] /\ ~Exists(j)
    \/ job' = [job EXCEPT ![j] = NoJob] /\ job[j].state # "active"
    \/ job' = [job EXCEPT ![j].state = "waiting", ![j].attempts = 0] /\ job[j].state = "failed"
    \/ job' = [job EXCEPT ![j].cancelled = TRUE] /\ Exists(j)
    \/ job' = [job EXCEPT ![j].state = "active"] /\ job[j].state = "waiting"
    \/ job' = [job EXCEPT ![j].state = "waiting"] /\ job[j].state = "delayed"
    \/ job' = [job EXCEPT ![j].ended = TRUE] /\ job[j].state = "active"
    \/ /\ job' = [job EXCEPT ![j].state = "waiting", ![j].ended = FALSE, ![j].stalled = TRUE]
       /\ job[j].state = "active"
    \/ /\ job[j].state = "active"
       /\ \E s \in {"completed", "failed"}, n \in {job[j].attempts, job[j].attempts + 1} :
             job' = [job EXCEPT ![j].state = s, ![j].attempts = n, ![j].ended = FALSE]
    \/ /\ job' = [job EXCEPT ![j].state = IF job[j].attempts + 1 >= Attempts[j] THEN "failed" ELSE "delayed",
                             ![j].attempts = job[j].attempts + 1]
       /\ job[j].state = "active"

LEMMA StepsMoveJobs ==
    ASSUME QueueTypeOK, QueueStep
    PROVE  job' = job \/ \E j \in Jobs : JobMoves(j)
<1>1. \A q \in Requests : request[q].job \in Jobs
  BY DEF QueueTypeOK
<1>2. ASSUME NEW q \in Requests, Serve(q) \/ RequestDies(q)
      PROVE  job' = job \/ JobMoves(request[q].job)
  <2>1. CASE Add(q)
    BY <2>1, Zenon DEF Add, JobMoves
  <2>2. CASE Retry(q)
    BY <2>2, Zenon DEF Retry, JobMoves
  <2>3. CASE Mark(q)
    BY <2>3, Zenon DEF Mark, JobMoves
  <2>4. CASE Remove(q)
    BY <2>4, Zenon DEF Remove, JobMoves
  <2> QED BY <1>2, <2>1, <2>2, <2>3, <2>4 DEF Serve, RequestDies, FindExisting, FindFailed, Drop, FindWaiting
<1>3. ASSUME NEW j \in Jobs, Works(j)
      PROVE  job' = job \/ JobMoves(j)
  <2>1. CASE MoveToCompleted(j)
    <3>1. job' = [job EXCEPT ![j].state = "completed", ![j].attempts = job[j].attempts + 1, ![j].ended = FALSE]
      BY <2>1 DEF MoveToCompleted, QueueTypeOK
    <3> QED BY <2>1, <3>1 DEF MoveToCompleted, JobMoves
  <2>2. CASE StallFails(j)
    BY <2>2 DEF StallFails, WorkerDied, JobMoves
  <2>3. CASE Fail(j)
    BY <2>3 DEF Fail, JobMoves
  <2> QED BY <1>3, <2>1, <2>2, <2>3
          DEF Works, Work, Take, BackoffEnds, ProcessorEnds, ListenerLooks, ListenerWrites, ListenerFails,
              Stall, WorkerDied, JobMoves
<1> QED BY <1>1, <1>2, <1>3 DEF QueueStep, Works

LEMMA JobsStay ==
    ASSUME QueueTypeOK, AttemptsLeft, NEW j \in Jobs, JobMoves(j)
    PROVE  job' \in [Jobs -> JobRecords] /\ AttemptsLeft'
<1>1. job \in [Jobs -> JobRecords] /\ Attempts[j] \in 1 .. 10
  BY QueueAssumption DEF QueueTypeOK, JobRecords
<1>0. 0 < Attempts[j] /\ Attempts[j] \in Nat
  BY QueueAssumption
<1>11. "waiting" \in JobStates /\ "active" \in JobStates
  BY DEF JobStates
<1>2. ASSUME NEW new \in JobRecords, job' = [job EXCEPT ![j] = new],
             new.state \in {"waiting", "delayed", "active"} => new.attempts < Attempts[j]
      PROVE  job' \in [Jobs -> JobRecords] /\ AttemptsLeft'
  BY <1>1, <1>2 DEF AttemptsLeft
<1>3. job[j].state \in {"waiting", "delayed", "active"} => job[j].attempts < Attempts[j]
  BY DEF AttemptsLeft
<1>4. CASE job' = [job EXCEPT ![j] = NewJob]
  BY <1>0, <1>2, <1>4, NewJobs
<1>5. CASE job' = [job EXCEPT ![j] = NoJob]
  BY <1>2, <1>5, NewJobs
<1>6. CASE job' = [job EXCEPT ![j].state = "waiting", ![j].attempts = 0]
  <2> DEFINE new == [job[j] EXCEPT !.state = "waiting", !.attempts = 0]
  <2>1. new \in JobRecords
    BY <1>11, JobUpdates, Zenon
  <2>3. new.attempts = 0
    BY <1>1 DEF JobRecords
  <2>2. job' = [job EXCEPT ![j] = new]
    BY <1>1, <1>6
  <2>4. new.attempts < Attempts[j]
    BY <1>0, <2>3
  <2> HIDE DEF new
  <2> QED BY <1>2, <2>1, <2>2, <2>4
<1>7. CASE job' = [job EXCEPT ![j].cancelled = TRUE]
  <2> DEFINE new == [job[j] EXCEPT !.cancelled = TRUE]
  <2>0. new \in JobRecords
    BY JobUpdates, Zenon
  <2>1. new \in JobRecords /\ new.attempts = job[j].attempts /\ new.state = job[j].state
    BY <1>1, <2>0 DEF JobRecords
  <2>2. job' = [job EXCEPT ![j] = new]
    BY <1>1, <1>7
  <2> HIDE DEF new
  <2> QED BY <1>2, <1>3, <2>1, <2>2
<1>8. ASSUME NEW s \in JobStates, job' = [job EXCEPT ![j].state = s], job[j].state \in {"waiting", "delayed"}
      PROVE  job' \in [Jobs -> JobRecords] /\ AttemptsLeft'
  <2> DEFINE new == [job[j] EXCEPT !.state = s]
  <2>0. new \in JobRecords
    BY JobUpdates, Zenon
  <2>1. new \in JobRecords /\ new.attempts = job[j].attempts
    BY <1>1, <2>0 DEF JobRecords
  <2>2. job' = [job EXCEPT ![j] = new]
    BY <1>1, <1>8
  <2> HIDE DEF new
  <2> QED BY <1>2, <1>3, <1>8, <2>1, <2>2
<1>9. CASE /\ job' = [job EXCEPT ![j].state = "waiting", ![j].ended = FALSE, ![j].stalled = TRUE]
           /\ job[j].state = "active"
  <2> DEFINE new == [job[j] EXCEPT !.state = "waiting", !.ended = FALSE, !.stalled = TRUE]
  <2>1. new \in JobRecords
    BY <1>11, JobUpdates, Zenon
  <2>3. new.attempts = job[j].attempts
    BY <1>1 DEF JobRecords
  <2>2. job' = [job EXCEPT ![j] = new]
    BY <1>1, <1>9
  <2> HIDE DEF new
  <2> QED BY <1>2, <1>3, <1>9, <2>1, <2>2, <2>3
<1>10. ASSUME NEW s \in {"completed", "failed", "delayed"}, NEW n \in {job[j].attempts, job[j].attempts + 1},
              s = "delayed" => ~(n >= Attempts[j]), job[j].state = "active",
              \/ job' = [job EXCEPT ![j].state = s, ![j].attempts = n]
              \/ job' = [job EXCEPT ![j].state = s, ![j].attempts = n, ![j].ended = FALSE]
       PROVE  job' \in [Jobs -> JobRecords] /\ AttemptsLeft'
  <2>0. s \in JobStates
    BY DEF JobStates
  <2>1. /\ [job[j] EXCEPT !.state = s, !.attempts = n] \in JobRecords
        /\ [job[j] EXCEPT !.state = s, !.attempts = n, !.ended = FALSE] \in JobRecords
        /\ n \in 0 .. Attempts[j]
    BY <1>10, <2>0, AttemptUpdates
  <2>2. PICK new \in JobRecords : new.state = s /\ new.attempts = n /\ job' = [job EXCEPT ![j] = new]
    <3>1. CASE job' = [job EXCEPT ![j].state = s, ![j].attempts = n]
      BY <1>1, <2>1, <3>1 DEF JobRecords
    <3>2. CASE job' = [job EXCEPT ![j].state = s, ![j].attempts = n, ![j].ended = FALSE]
      BY <1>1, <2>1, <3>2 DEF JobRecords
    <3> QED BY <1>10, <3>1, <3>2
  <2>3. s = "delayed" => n < Attempts[j]
    BY <1>0, <1>10, <2>1
  <2>4. s \notin {"waiting", "active"}
    OBVIOUS
  <2> QED BY <1>2, <2>2, <2>3, <2>4
<1>12. CASE job' = [job EXCEPT ![j].ended = TRUE]
  <2> DEFINE new == [job[j] EXCEPT !.ended = TRUE]
  <2>0. new \in JobRecords
    BY JobUpdates, Zenon
  <2>1. new \in JobRecords /\ new.attempts = job[j].attempts /\ new.state = job[j].state
    BY <1>1, <2>0 DEF JobRecords
  <2>2. job' = [job EXCEPT ![j] = new]
    BY <1>1, <1>12
  <2> HIDE DEF new
  <2> QED BY <1>2, <1>3, <2>1, <2>2
<1>13. CASE /\ job[j].state = "active"
            /\ job' = [job EXCEPT ![j].state = IF job[j].attempts + 1 >= Attempts[j] THEN "failed" ELSE "delayed",
                                  ![j].attempts = job[j].attempts + 1]
  <2> DEFINE s == IF job[j].attempts + 1 >= Attempts[j] THEN "failed" ELSE "delayed"
  <2>1. s \in {"completed", "failed", "delayed"} /\ (s = "delayed" => ~(job[j].attempts + 1 >= Attempts[j]))
    OBVIOUS
  <2>2. job' = [job EXCEPT ![j].state = s, ![j].attempts = job[j].attempts + 1]
    BY <1>13
  <2> HIDE DEF s
  <2> QED BY <1>10, <1>13, <2>1, <2>2
<1> QED BY <1>4, <1>5, <1>6, <1>7, <1>8, <1>9, <1>10, <1>11, <1>12, <1>13 DEF JobMoves

LEMMA CallsStay ==
    ASSUME QueueTypeOK, NEW q \in Requests, NEW step \in RequestSteps, Goes(q, step)
    PROVE  /\ request' \in [Requests -> CallRecords]
           /\ request'[q].step = step /\ request'[q].op = request[q].op /\ request'[q].job = request[q].job
           /\ \A p \in Requests : p # q => request'[p] = request[p]
<1>1. request \in [Requests -> CallRecords]
  BY DEF QueueTypeOK, CallRecords
<1>2. [request[q] EXCEPT !.step = step] \in CallRecords
  BY <1>1 DEF CallRecords
<1>3. request' = [request EXCEPT ![q] = [request[q] EXCEPT !.step = step]]
  BY <1>1 DEF Goes
<1>4. request' \in [Requests -> CallRecords]
  BY <1>1, <1>2, <1>3
<1> QED BY <1>1, <1>3, <1>4 DEF CallRecords

\* What a call does: it moves on, and nothing it does not own moves.
LEMMA ServeMoves ==
    ASSUME QueueTypeOK, NEW q \in Requests, Serve(q) \/ RequestDies(q)
    PROVE  /\ request[q].step \notin {"free", "died"} \union Answers
           /\ \E step \in RequestSteps \ {"free"} : Goes(q, step)
           /\ dead' = dead \/ dead' = [dead EXCEPT ![request[q].job] = FALSE]
           /\ UNCHANGED <<handler, done, redone>>
           /\ lost' \in [Jobs -> BOOLEAN] /\ raced' \in [Jobs -> BOOLEAN] /\ faults' \in 0 .. MaxFaults
<1>0. request[q].job \in Jobs /\ lost \in [Jobs -> BOOLEAN] /\ raced \in [Jobs -> BOOLEAN]
      /\ faults \in 0 .. MaxFaults /\ MaxFaults \in Nat
  BY QueueAssumption DEF QueueTypeOK
<1>1. CASE FindExisting(q)
  BY <1>0, <1>1 DEF FindExisting, At, RequestSteps, Answers
<1>2. CASE Add(q)
  BY <1>0, <1>2 DEF Add, At, RequestSteps, Answers
<1>3. CASE FindFailed(q)
  BY <1>0, <1>3 DEF FindFailed, At, RequestSteps, Answers
<1>4. CASE Retry(q)
  BY <1>0, <1>4 DEF Retry, At, RequestSteps, Answers
<1>5. CASE Drop(q)
  <2>1. lost' \in [Jobs -> BOOLEAN]
    BY <1>0, <1>5, Zenon DEF Drop
  <2> QED BY <1>0, <1>5, <2>1 DEF Drop, At, RequestSteps, Answers
<1>6. CASE FindWaiting(q)
  BY <1>0, <1>6 DEF FindWaiting, At, RequestSteps, Answers
<1>7. CASE Mark(q)
  <2>1. raced' \in [Jobs -> BOOLEAN]
    BY <1>0, <1>7, Zenon DEF Mark, Overtakes
  <2> QED BY <1>0, <1>7, <2>1 DEF Mark, At, RequestSteps, Answers
<1>8. CASE Remove(q)
  <2>1. raced' \in [Jobs -> BOOLEAN]
    BY <1>0, <1>8, Zenon DEF Remove, Overtakes
  <2> QED BY <1>0, <1>8, <2>1 DEF Remove, At, RequestSteps, Answers
<1>9. CASE RequestDies(q)
  BY <1>0, <1>9 DEF RequestDies, Fault, RequestSteps, Answers
<1> QED BY <1>1, <1>2, <1>3, <1>4, <1>5, <1>6, <1>7, <1>8, <1>9 DEF Serve

LEMMA QueueTypeStays ==
    ASSUME QueueTypeOK, AttemptsLeft, QueueStep
    PROVE  QueueTypeOK' /\ AttemptsLeft'
<1>0. /\ dead \in [Jobs -> BOOLEAN] /\ handler \in [Jobs -> SUBSET {"look", "write"}]
      /\ done \in [Jobs -> Nat] /\ redone \in [Jobs -> Nat] /\ lost \in [Jobs -> BOOLEAN] /\ raced \in [Jobs -> BOOLEAN]
      /\ faults \in 0 .. MaxFaults /\ MaxFaults \in Nat /\ job \in [Jobs -> JobRecords]
      /\ request \in [Requests -> CallRecords]
  BY QueueAssumption DEF QueueTypeOK, JobRecords, CallRecords
<1>1. job' \in [Jobs -> JobRecords] /\ AttemptsLeft'
  BY <1>0, JobsStay, StepsMoveJobs DEF AttemptsLeft
<1>2. ASSUME NEW q \in Requests, Serve(q) \/ RequestDies(q)
      PROVE  QueueTypeOK'
  <2>1. request' \in [Requests -> CallRecords]
    BY <1>2, ServeMoves, CallsStay
  <2>2. dead' \in [Jobs -> BOOLEAN]
    BY <1>0, <1>2, ServeMoves
  <2> QED BY <1>0, <1>1, <1>2, <2>1, <2>2, ServeMoves DEF QueueTypeOK, JobRecords, CallRecords
<1>3. ASSUME NEW j \in Jobs, Works(j)
      PROVE  QueueTypeOK'
  <2>1. request' = request
    BY <1>3 DEF Works, Work, Take, BackoffEnds, ProcessorEnds, MoveToCompleted, Fail, Hears, ListenerLooks, ListenerWrites,
                ListenerFails, Stall, StallFails, WorkerDied
  <2>2. dead' \in [Jobs -> BOOLEAN]
    BY <1>0, <1>3 DEF Works, Work, Take, BackoffEnds, ProcessorEnds, MoveToCompleted, Fail, Hears, ListenerLooks, ListenerWrites,
                ListenerFails, Stall, StallFails, WorkerDied
  <2>3. handler' \in [Jobs -> SUBSET {"look", "write"}]
    BY <1>0, <1>3 DEF Works, Work, Take, BackoffEnds, ProcessorEnds, MoveToCompleted, Fail, Hears, ListenerLooks, ListenerWrites,
                ListenerFails, Stall, StallFails, WorkerDied
  <2>4. done' \in [Jobs -> Nat]
    BY <1>0, <1>3 DEF Works, Work, Take, BackoffEnds, ProcessorEnds, MoveToCompleted, Fail, Hears, ListenerLooks, ListenerWrites,
                ListenerFails, Stall, StallFails, WorkerDied
  <2>8. redone' \in [Jobs -> Nat]
    BY <1>0, <1>3 DEF Works, Work, Take, BackoffEnds, ProcessorEnds, MoveToCompleted, Fail, Hears, ListenerLooks, ListenerWrites,
                ListenerFails, Stall, StallFails, WorkerDied
  <2>5. lost' \in [Jobs -> BOOLEAN]
    BY <1>0, <1>3 DEF Works, Work, Take, BackoffEnds, ProcessorEnds, MoveToCompleted, Fail, Hears, ListenerLooks, ListenerWrites,
                ListenerFails, Stall, StallFails, WorkerDied
  <2>6. raced' \in [Jobs -> BOOLEAN]
    <3>1. CASE Take(j)
      BY <1>0, <3>1, Zenon DEF Take
    <3> QED BY <1>0, <1>3, <3>1
            DEF Works, Work, BackoffEnds, ProcessorEnds, MoveToCompleted, Fail, ListenerLooks, ListenerWrites,
                ListenerFails, Stall, StallFails, WorkerDied
  <2>7. faults' \in 0 .. MaxFaults
    BY <1>0, <1>3 DEF Works, Work, Take, BackoffEnds, ProcessorEnds, MoveToCompleted, Fail, Hears, ListenerLooks, ListenerWrites,
                ListenerFails, Stall, StallFails, WorkerDied, Fault
  <2> QED BY <1>0, <1>1, <2>1, <2>2, <2>3, <2>4, <2>5, <2>6, <2>7, <2>8 DEF QueueTypeOK, JobRecords, CallRecords
<1> QED BY <1>1, <1>2, <1>3 DEF QueueStep, Works

\* The dead letters: what takes a record away says so.
LEMMA DeadLettersStay ==
    ASSUME QueueTypeOK, DeadLettersAreKept, QueueStep
    PROVE  DeadLettersAreKept'
<1>0. /\ dead \in [Jobs -> BOOLEAN] /\ handler \in [Jobs -> SUBSET {"look", "write"}]
      /\ lost \in [Jobs -> BOOLEAN] /\ job \in [Jobs -> JobRecords]
      /\ \A q \in Requests : request[q].job \in Jobs
  BY DEF QueueTypeOK, JobRecords
<1> SUFFICES ASSUME NEW j \in Jobs, UsedUp(j)'
             PROVE  dead'[j] \/ lost'[j]
  BY DEF DeadLettersAreKept
<1> USE DEF UsedUp
<1>1. CASE UNCHANGED <<dead, lost>> /\ handler'[j] = handler[j] /\ job[j].state = "failed"
           /\ job[j].attempts = job'[j].attempts
  BY <1>1 DEF DeadLettersAreKept
<1>2. ASSUME NEW q \in Requests, Drop(q)
      PROVE  dead'[j] \/ lost'[j]
  <2>1. UNCHANGED <<job, handler>>
    BY <1>2 DEF Drop
  <2>2. CASE request[q].job = j
    <3>1. lost'[j] = (lost[j] \/ (job[j].state = "failed" /\ handler[j] = {}))
      BY <1>0, <1>2, <2>2, Zenon DEF Drop
    <3> QED BY <2>1, <3>1
  <2>3. CASE request[q].job # j
    BY <1>0, <1>2, <2>1, <2>3 DEF Drop, DeadLettersAreKept
  <2> QED BY <2>2, <2>3
<1>3. ASSUME NEW q \in Requests, Serve(q) \/ RequestDies(q), ~Drop(q)
      PROVE  dead'[j] \/ lost'[j]
  <2>1. UNCHANGED <<dead, lost, handler>>
    BY <1>3 DEF Serve, RequestDies, FindExisting, Add, FindFailed, Retry, FindWaiting, Mark, Remove
  <2>2. job[j].state = "failed" /\ job[j].attempts = job'[j].attempts
    <3>1. /\ NewJob.state = "waiting" /\ NoJob.state = "none"
      BY DEF NewJob, NoJob
    <3> QED BY <1>0, <1>3, <3>1
            DEF Serve, RequestDies, FindExisting, Add, FindFailed, Retry, FindWaiting, Mark, Remove, JobRecords
  <2> QED BY <1>1, <2>1, <2>2
<1>4. ASSUME NEW i \in Jobs, Take(i) \/ BackoffEnds(i) \/ ProcessorEnds(i) \/ MoveToCompleted(i) \/ Stall(i)
      PROVE  dead'[j] \/ lost'[j]
  <2>1. UNCHANGED <<dead, lost, handler>>
    BY <1>4 DEF Take, BackoffEnds, ProcessorEnds, MoveToCompleted, Stall, WorkerDied
  <2>2. job[j].state = "failed" /\ job[j].attempts = job'[j].attempts
    <3>1. CASE Take(i) \/ BackoffEnds(i)
      BY <1>0, <3>1 DEF Take, BackoffEnds, JobRecords
    <3>2. CASE ProcessorEnds(i)
      BY <1>0, <3>2 DEF ProcessorEnds, JobRecords
    <3>3. CASE MoveToCompleted(i)
      BY <1>0, <3>3 DEF MoveToCompleted, JobRecords
    <3>4. CASE Stall(i)
      BY <1>0, <3>4 DEF Stall, JobRecords
    <3> QED BY <1>4, <3>1, <3>2, <3>3, <3>4
  <2> QED BY <1>1, <2>1, <2>2
<1>7. ASSUME NEW i \in Jobs, NEW n \in {job[i].attempts, job[i].attempts + 1}, Hears(i, n), UNCHANGED dead,
             job'[i].attempts = n, \A k \in Jobs : k # i => job'[k] = job[k]
      PROVE  dead'[j] \/ lost'[j]
  <2>1. CASE i = j
    <3>1. "look" \in handler'[i]
      BY <1>0, <1>7, <2>1 DEF Hears
    <3> QED BY <2>1, <3>1
  <2>2. CASE i # j
    <3>1. job'[j] = job[j] /\ dead'[j] = dead[j]
      BY <1>7, <2>2
    <3>2. handler'[j] = handler[j] /\ lost'[j] = lost[j]
      BY <1>0, <1>7, <2>2 DEF Hears
    <3> QED BY <3>1, <3>2 DEF DeadLettersAreKept
  <2> QED BY <2>1, <2>2
<1>5. ASSUME NEW i \in Jobs, Fail(i)
      PROVE  dead'[j] \/ lost'[j]
  BY <1>0, <1>5, <1>7 DEF Fail, JobRecords
<1>8. ASSUME NEW i \in Jobs, StallFails(i)
      PROVE  dead'[j] \/ lost'[j]
  <2>1. PICK n \in {job[i].attempts, job[i].attempts + 1} :
            /\ WorkerDied(i) /\ Hears(i, n)
            /\ job' = [job EXCEPT ![i].state = "failed", ![i].attempts = n, ![i].ended = FALSE]
    BY <1>8 DEF StallFails
  <2>2. job'[i].attempts = n /\ \A k \in Jobs : k # i => job'[k] = job[k]
    BY <1>0, <2>1 DEF JobRecords
  <2> QED BY <1>7, <2>1, <2>2 DEF WorkerDied
<1>6. ASSUME NEW i \in Jobs, ListenerLooks(i) \/ ListenerWrites(i) \/ ListenerFails(i)
      PROVE  dead'[j] \/ lost'[j]
  <2>1. CASE i # j
    BY <1>0, <1>6, <2>1 DEF ListenerLooks, ListenerWrites, ListenerFails, DeadLettersAreKept
  <2>2. CASE ListenerLooks(i) /\ i = j
    <3>1. UNCHANGED dead /\ handler'[j] = (handler[j] \ {"look"}) \union (IF dead[j] THEN {} ELSE {"write"})
      BY <1>0, <2>2 DEF ListenerLooks
    <3> QED BY <3>1
  <2>3. CASE ListenerWrites(i) /\ i = j
    BY <1>0, <2>3 DEF ListenerWrites
  <2>4. CASE ListenerFails(i) /\ i = j
    BY <1>0, <2>4 DEF ListenerFails
  <2> QED BY <1>6, <2>1, <2>2, <2>3, <2>4
<1> QED BY <1>2, <1>3, <1>4, <1>5, <1>6, <1>8 DEF QueueStep, Work

LEMMA WorkStays ==
    ASSUME QueueTypeOK, WorkIsDoneOnce, QueueStep
    PROVE  WorkIsDoneOnce'
<1>0. /\ done \in [Jobs -> Nat] /\ redone \in [Jobs -> Nat] /\ raced \in [Jobs -> BOOLEAN]
      /\ job \in [Jobs -> JobRecords] /\ \A q \in Requests : request[q].job \in Jobs
  BY DEF QueueTypeOK, JobRecords
<1> DEFINE once(j) == /\ job[j].ended => job[j].state = "active"
                      /\ ~raced[j] => /\ done[j] = redone[j] + (IF Through(j) THEN 1 ELSE 0)
                                      /\ job[j].state \in {"active", "completed"} => ~job[j].cancelled
<1>1. ASSUME NEW j \in Jobs, job'[j] = job[j], done'[j] = done[j], redone'[j] = redone[j], raced[j] => raced'[j]
      PROVE  once(j)'
  BY <1>0, <1>1 DEF WorkIsDoneOnce, Through
<1>2. ASSUME NEW j \in Jobs, job'[j].state \notin {"completed", "active"}, ~job'[j].ended,
             job[j].state = "completed" => raced'[j],
             done'[j] - redone'[j] = done[j] - redone[j] - (IF job[j].ended THEN 1 ELSE 0),
             done'[j] \in Nat, redone'[j] \in Nat, raced[j] => raced'[j]
      PROVE  once(j)'
  BY <1>0, <1>2 DEF WorkIsDoneOnce, Through
<1>3. ASSUME NEW q \in Requests, Serve(q) \/ RequestDies(q), NEW j \in Jobs
      PROVE  once(j)'
  <2>1. done' = done /\ redone' = redone
    BY <1>3, ServeMoves
  <2>2. NewJob.state = "waiting" /\ NoJob.state = "none" /\ ~NewJob.ended /\ ~NoJob.ended
    BY DEF NewJob, NoJob
  <2>9. job[j].ended => job[j].state = "active"
    BY DEF WorkIsDoneOnce
  <2>3. CASE FindExisting(q) \/ FindFailed(q) \/ Drop(q) \/ FindWaiting(q) \/ RequestDies(q)
    BY <1>0, <1>1, <2>1, <2>3 DEF FindExisting, FindFailed, Drop, FindWaiting, RequestDies
  <2>10. ASSUME job'[j].state \notin {"completed", "active"}, ~job'[j].ended, job[j].state # "active",
                job[j].state = "completed" => raced'[j], raced[j] => raced'[j]
         PROVE  once(j)'
    BY <1>0, <1>2, <2>1, <2>9, <2>10
  <2>4. CASE Add(q)
    BY <1>0, <1>1, <2>10, <2>1, <2>2, <2>4 DEF Add, Exists
  <2>5. CASE Retry(q)
    <3>1. raced' = raced
      BY <2>5 DEF Retry
    <3>2. CASE job[request[q].job].state = "failed" /\ j = request[q].job
      <4>1. job'[j].state = "waiting" /\ job'[j].ended = job[j].ended
        BY <1>0, <2>5, <3>2 DEF Retry, JobRecords
      <4>2. ~job[j].ended
        BY <2>9, <3>2
      <4> QED BY <2>10, <3>1, <3>2, <4>1, <4>2
    <3>3. CASE ~(job[request[q].job].state = "failed" /\ j = request[q].job)
      <4>1. job'[j] = job[j]
        BY <1>0, <2>5, <3>3 DEF Retry
      <4> QED BY <1>0, <1>1, <2>1, <3>1, <4>1
    <3> QED BY <3>2, <3>3
  <2>6. ASSUME Mark(q) \/ Remove(q)
        PROVE  /\ raced[j] => raced'[j]
               /\ j = request[q].job /\ job[j].state \notin {"none", "waiting", "delayed"} => raced'[j]
    BY <1>0, <2>6 DEF Mark, Remove, Overtakes
  <2>7. CASE Mark(q)
    <3>1. job'[j].state = job[j].state /\ job'[j].ended = job[j].ended /\ (j # request[q].job => job'[j] = job[j])
      BY <1>0, <2>7 DEF Mark, JobRecords
    <3>2. CASE job[j].state \in {"none", "waiting", "delayed"}
      BY <2>6, <2>7, <2>9, <2>10, <3>1, <3>2
    <3>3. CASE job[j].state \notin {"none", "waiting", "delayed"} /\ j = request[q].job
      BY <2>6, <2>7, <2>9, <3>1, <3>3
    <3> QED BY <1>1, <2>1, <2>6, <2>7, <3>1, <3>2, <3>3
  <2>8. CASE Remove(q)
    <3>1. job'[j] = job[j] \/ (j = request[q].job /\ job'[j].state = "none" /\ ~job'[j].ended
                               /\ job[j].state # "active")
      BY <1>0, <2>2, <2>8 DEF Remove, JobRecords
    <3> QED BY <1>1, <2>1, <2>6, <2>8, <2>10, <3>1
  <2> QED BY <1>3, <2>3, <2>4, <2>5, <2>7, <2>8 DEF Serve
<1>4. ASSUME NEW i \in Jobs, Works(i), NEW j \in Jobs
      PROVE  once(j)'
  <2>1. CASE Take(i)
    <3>1. /\ raced'[i] = (raced[i] \/ job[i].cancelled) /\ (i # j => raced'[j] = raced[j])
      BY <1>0, <2>1, Zenon DEF Take
    <3>2. /\ job'[i].cancelled = job[i].cancelled /\ job'[i].state = "active" /\ (i # j => job'[j] = job[j])
          /\ job'[i].ended = job[i].ended /\ job[i].state = "waiting" /\ done' = done /\ redone' = redone
      BY <1>0, <2>1 DEF Take, JobRecords
    <3> QED BY <1>1, <3>1, <3>2 DEF WorkIsDoneOnce, Through
  <2>2. CASE BackoffEnds(i) \/ Fail(i)
    <3>1. /\ job'[i].state \in {"waiting", "failed", "delayed"} /\ (i # j => job'[j] = job[j])
          /\ job'[i].ended = job[i].ended /\ job[i].state \in {"active", "delayed"} /\ done' = done
          /\ redone' = redone /\ raced' = raced
      BY <1>0, <2>2 DEF BackoffEnds, Fail, JobRecords
    <3>2. ~job[i].ended
      BY <2>2 DEF BackoffEnds, Fail, WorkIsDoneOnce
    <3> QED BY <1>0, <1>1, <1>2, <3>1, <3>2
  <2>3. CASE ProcessorEnds(i) \/ MoveToCompleted(i)
    <3>1. /\ i # j => job'[j] = job[j] /\ done'[j] = done[j]
          /\ job[i].state = "active" /\ job'[i].cancelled = job[i].cancelled
          /\ redone' = redone /\ raced' = raced
      BY <1>0, <2>3 DEF ProcessorEnds, MoveToCompleted, JobRecords
    <3>2. \/ ~job[i].ended /\ job'[i].ended /\ job'[i].state = "active" /\ done'[i] = done[i] + 1
          \/ job[i].ended /\ ~job'[i].ended /\ job'[i].state = "completed" /\ done'[i] = done[i]
      BY <1>0, <2>3 DEF ProcessorEnds, MoveToCompleted, JobRecords
    <3> QED BY <1>0, <1>1, <3>1, <3>2 DEF WorkIsDoneOnce, Through
  <2>4. CASE ListenerLooks(i) \/ ListenerWrites(i) \/ ListenerFails(i)
    BY <1>1, <2>4 DEF ListenerLooks, ListenerWrites, ListenerFails
  <2>5. CASE Stall(i) \/ StallFails(i)
    <3>1. /\ job'[i].state \in {"waiting", "failed"} /\ ~job'[i].ended /\ (i # j => job'[j] = job[j])
      BY <1>0, <2>5 DEF Stall, StallFails, JobRecords
    <3>2. /\ job[i].state = "active" /\ done' = done /\ raced' = raced
          /\ redone'[i] = (IF job[i].ended THEN redone[i] + 1 ELSE redone[i])
          /\ i # j => redone'[j] = redone[j]
      BY <1>0, <2>5 DEF Stall, StallFails, WorkerDied
    <3> QED BY <1>0, <1>1, <1>2, <3>1, <3>2
  <2> QED BY <1>4, <2>1, <2>2, <2>3, <2>4, <2>5 DEF Works, Work
<1>5. \A j \in Jobs : once(j)'
  BY <1>3, <1>4 DEF QueueStep, Works
<1> QED BY <1>5 DEF WorkIsDoneOnce

-----------------------------------------------------------------------------
(* The contacts. *)

\* What a step is to the queue: one of its own, a call put to it, or nothing but a
\* fault elsewhere.
LEMMA QueueSide ==
    ASSUME CampaignTypeOK, CampaignNext
    PROVE  \/ QueueStep
           \/ \E q \in Requests, op \in Operations, j \in Jobs : Ask(q, op, j)
           \/ UNCHANGED <<job, dead, handler, request, done, redone, lost, raced>> /\ (UNCHANGED faults \/ Fault)
<1>1. CASE Operators
  BY <1>1, CampaignAssumption DEF Operators
<1>2. CASE Collections \/ Notices
  BY <1>2 DEF Collections, Notices, queueVars
<1>4. CASE \E r \in Runs : EnqueueFails(r) \/ RunDies(r)
  <2>1. UNCHANGED <<job, dead, handler, request, done, redone, lost, raced>> /\ (UNCHANGED faults \/ Fault)
    BY <1>4, Zenon DEF EnqueueFails, RunDies
  <2> QED BY <2>1
<1>3. ASSUME NEW r \in Runs, RunStep(r)
      PROVE  \/ \E q \in Requests, op \in Operations, j \in Jobs : Ask(q, op, j)
             \/ UNCHANGED queueVars
  <2>1. ASSUME NEW j \in Jobs, Enqueue(r, j)
        PROVE  <<r, j>> \in Requests /\ "enqueue" \in Operations /\ Ask(<<r, j>>, "enqueue", j)
    BY <2>1, ContactsAssumption DEF Enqueue, Operations
  <2> QED BY <1>3, <2>1 DEF RunStep, Answered, Ends
<1> QED BY <1>1, <1>2, <1>3, <1>4 DEF CampaignNext, queueVars

LEMMA AskMoves ==
    ASSUME QueueTypeOK, NEW q \in Requests, NEW op \in Operations, NEW j \in Jobs, Ask(q, op, j)
    PROVE  /\ request' \in [Requests -> CallRecords]
           /\ request[q].step = "free" /\ request'[q] = [op |-> op, job |-> j, step |-> "find"]
           /\ \A p \in Requests : p # q => request'[p] = request[p]
           /\ UNCHANGED <<job, dead, handler, done, redone, lost, raced, faults>>
<1>1. [op |-> op, job |-> j, step |-> "find"] \in CallRecords
  BY DEF CallRecords, RequestSteps
<1> QED BY <1>1 DEF Ask, QueueTypeOK, CallRecords

LEMMA QueueStays ==
    ASSUME QueueInv, CampaignTypeOK, CampaignNext
    PROVE  QueueInv'
<1>1. CASE QueueStep
  BY <1>1, QueueTypeStays, DeadLettersStay, WorkStays DEF QueueInv
<1>2. ASSUME NEW q \in Requests, NEW op \in Operations, NEW j \in Jobs, Ask(q, op, j)
      PROVE  QueueInv'
  <2>1. request' \in [Requests -> CallRecords] /\ UNCHANGED <<job, dead, handler, done, redone, lost, raced, faults>>
    BY <1>2, AskMoves DEF QueueInv
  <2>2. QueueTypeOK'
    BY <2>1 DEF QueueInv, QueueTypeOK, CallRecords
  <2> QED BY <2>1, <2>2 DEF QueueInv, AttemptsLeft, DeadLettersAreKept, UsedUp, WorkIsDoneOnce, Through
<1>3. CASE UNCHANGED <<job, dead, handler, request, done, redone, lost, raced>> /\ (UNCHANGED faults \/ Fault)
  <2>1. faults' \in 0 .. MaxFaults
    BY <1>3, QueueAssumption DEF QueueInv, QueueTypeOK, Fault
  <2>2. QueueTypeOK'
    BY <1>3, <2>1 DEF QueueInv, QueueTypeOK
  <2> QED BY <1>3, <2>2 DEF QueueInv, AttemptsLeft, DeadLettersAreKept, UsedUp, WorkIsDoneOnce, Through
<1> QED BY <1>1, <1>2, <1>3, QueueSide

\* The versions are numbered without gaps, so the latest is one of them.
LEMMA LatestIsSaved ==
    ASSUME VersionsInOrder, Saved # {}
    PROVE  Latest \in Saved /\ Latest \in Versions
<1>1. PICK n \in 0 .. MaxVersions : Saved = 1 .. n
  BY DEF VersionsInOrder
<1>2. n \in Saved /\ \A w \in Saved : w <= n
  BY <1>1, CampaignAssumption
<1>3. \E v \in Saved : \A w \in Saved : w <= v
  BY <1>2
<1>4. Latest \in Saved
  BY <1>3 DEF Latest
<1> QED BY <1>4 DEF Saved

LEMMA VersionsStay ==
    ASSUME CampaignTypeOK, VersionsInOrder, NEW v \in Versions, SaveVersion(v) \/ SaveSteps(v)
    PROVE  /\ VersionsInOrder'
           /\ rule' \in [Versions -> (SUBSET Positions) \union {{"unsaved"}}]
<1>0. rule \in [Versions -> (SUBSET Positions) \union {{"unsaved"}}] /\ MaxVersions \in Nat
  BY CampaignAssumption DEF CampaignTypeOK, Versions
<1>1. PICK n \in 0 .. MaxVersions : Saved = 1 .. n
  BY DEF VersionsInOrder
<1>2. PICK steps \in SUBSET Positions : rule' = [rule EXCEPT ![v] = steps]
  BY DEF SaveVersion, SaveSteps
<1>3. steps # {"unsaved"}
  BY ContactsAssumption
<1>4. Saved' = Saved \union {v}
  BY <1>0, <1>2, <1>3 DEF Saved
<1>5. rule' \in [Versions -> (SUBSET Positions) \union {{"unsaved"}}]
  BY <1>0, <1>2
<1>6. CASE SaveVersion(v)
  <2>1. v = n + 1
    <3>1. Cardinality(1 .. n) = n
      BY <1>0, FS_Interval
    <3> QED BY <1>1, <1>6, <3>1 DEF SaveVersion
  <2>2. Saved' = 1 .. n + 1 /\ n + 1 \in 0 .. MaxVersions
    BY <1>0, <1>1, <1>4, <2>1 DEF Versions
  <2> QED BY <1>5, <2>2 DEF VersionsInOrder
<1>7. CASE SaveSteps(v)
  <2>1. v \in Saved
    BY <1>7 DEF SaveSteps, Saved
  <2>2. Saved' = 1 .. n
    BY <1>1, <1>4, <2>1
  <2> QED BY <1>5, <2>2 DEF VersionsInOrder
<1> QED BY <1>6, <1>7

\* What a run decides to contact is among the jobs.
LEMMA CandidatesAreJobs ==
    /\ \A answered \in SUBSET Invoices : VersionsInOrder /\ Saved # {} => TodayCandidates(answered) \subseteq Jobs
    /\ \A matched \in SUBSET Customers, k \in {"opened", "closed"} :
          {NoticeJob(c, k) : c \in FirstNotices(matched)} \subseteq Jobs
<1>1. ASSUME NEW answered \in SUBSET Invoices, VersionsInOrder, Saved # {}
      PROVE  TodayCandidates(answered) \subseteq Jobs
  <2>1. Latest \in Versions
    BY <1>1, LatestIsSaved
  <2>2. TodayCandidates(answered) \subseteq CollectionJobs
    BY <2>1 DEF TodayCandidates, CollectionJobs
  <2> QED BY <2>2, ContactsAssumption
<1>2. ASSUME NEW matched \in SUBSET Customers, NEW k \in {"opened", "closed"}
      PROVE  {NoticeJob(c, k) : c \in FirstNotices(matched)} \subseteq Jobs
  <2>1. FirstNotices(matched) \subseteq matched
    BY Zenon DEF FirstNotices
  <2> QED BY <1>2, <2>1, ContactsAssumption DEF NoticeJobs
<1> QED BY <1>1, <1>2

RunRecords == [step : RunSteps, todo : SUBSET Jobs, batch : SUBSET Jobs,
               inserted : SUBSET Jobs, asked : SUBSET Jobs, clean : BOOLEAN]

\* What each step of a run does to it.
Starts(r) == \E batch \in SUBSET Jobs :
    /\ run' = [run EXCEPT ![r] = [NewRun EXCEPT !.step = "record", !.todo = batch, !.batch = batch]]
    /\ run[r].step = "idle"
    /\ UNCHANGED <<queueVars, ledger>>

LEMMA RunsMove ==
    ASSUME CampaignTypeOK, VersionsInOrder, CampaignNext
    PROVE  \/ UNCHANGED <<run, ledger>>
           \/ \E r \in Runs :
                 \/ Starts(r)
                 \/ UNCHANGED queueVars /\ (RecordedAll(r) \/ \E j \in Jobs : Record(r, j))
                 \/ \E j \in Jobs : Enqueue(r, j)
                 \/ Answered(r) \/ Ends(r) \/ EnqueueFails(r) \/ RunDies(r)
<1>1. CASE Operators \/ (QueueStep /\ UNCHANGED campaignVars)
  BY <1>1 DEF Operators, campaignVars
<1>2. CASE Collections
  <2>1. ASSUME NEW r \in Runs, StartDispatch(r)
        PROVE  Starts(r)
    BY <1>2, <2>1, CandidatesAreJobs DEF Collections, StartDispatch, Starts
  <2> QED BY <1>2, <2>1 DEF Collections, SaveVersion, SaveSteps, Pay
<1>3. CASE Notices
  <2>1. ASSUME NEW r \in Runs, StartNotice(r)
        PROVE  Starts(r)
    BY <1>3, <2>1, CandidatesAreJobs DEF Notices, StartNotice, Starts
  <2> QED BY <1>3, <2>1 DEF Notices, CreateIncident, CloseIncident
<1>4. ASSUME NEW r \in Runs, RunStep(r) \/ EnqueueFails(r) \/ RunDies(r)
      PROVE  \/ UNCHANGED queueVars /\ (RecordedAll(r) \/ \E j \in Jobs : Record(r, j))
             \/ \E j \in Jobs : Enqueue(r, j)
             \/ Answered(r) \/ Ends(r) \/ EnqueueFails(r) \/ RunDies(r)
  BY <1>4 DEF RunStep
<1>5. \/ Operators \/ Collections \/ Notices
      \/ QueueStep /\ UNCHANGED campaignVars
      \/ \E r \in Runs : RunStep(r) \/ EnqueueFails(r) \/ RunDies(r)
  BY DEF CampaignNext
<1> QED BY <1>1, <1>2, <1>3, <1>4, <1>5

LEMMA CampaignTypeStays ==
    ASSUME CampaignTypeOK, VersionsInOrder, CampaignNext
    PROVE  CampaignTypeOK' /\ VersionsInOrder'
<1>0. run \in [Runs -> RunRecords] /\ ledger \subseteq Jobs
      /\ rule \in [Versions -> (SUBSET Positions) \union {{"unsaved"}}]
  BY DEF CampaignTypeOK, RunRecords, Versions
<1>1. kind' = kind
  BY DEF CampaignNext, Operators, campaignVars, Collections, SaveVersion, SaveSteps, Pay, StartDispatch, Notices,
         CreateIncident, CloseIncident, StartNotice, RunStep, RecordedAll, Record, Enqueue, Answered, Ends,
         EnqueueFails, RunDies
<1>2. VersionsInOrder' /\ rule' \in [Versions -> (SUBSET Positions) \union {{"unsaved"}}]
  <2>1. ASSUME rule' = rule
        PROVE  VersionsInOrder' /\ rule' \in [Versions -> (SUBSET Positions) \union {{"unsaved"}}]
    BY <1>0, <2>1 DEF VersionsInOrder, Saved
  <2>2. rule' = rule \/ \E v \in Versions : SaveVersion(v) \/ SaveSteps(v)
    BY DEF CampaignNext, Operators, campaignVars, Collections, Pay, StartDispatch, Notices,
           CreateIncident, CloseIncident, StartNotice, RunStep, RecordedAll, Record, Enqueue, Answered, Ends,
           EnqueueFails, RunDies
  <2> QED BY <2>1, <2>2, VersionsStay
<1>3. open' \subseteq Invoices /\ incident' \in {"none", "investigating", "resolved"}
  BY DEF CampaignTypeOK, CampaignNext, Operators, campaignVars, Collections, SaveVersion, SaveSteps, Pay,
         StartDispatch, Notices, CreateIncident, CloseIncident, StartNotice, RunStep, RecordedAll, Record,
         Enqueue, Answered, Ends, EnqueueFails, RunDies
<1>4. ledger' \subseteq Jobs
  BY <1>0, RunsMove DEF Starts, RecordedAll, Record, Enqueue, Answered, Ends, EnqueueFails, RunDies
<1>5. run' \in [Runs -> RunRecords]
  <2>1. ASSUME NEW r \in Runs, NEW new \in RunRecords, run' = [run EXCEPT ![r] = new]
        PROVE  run' \in [Runs -> RunRecords]
    BY <1>0, <2>1
  <2>2. ASSUME NEW r \in Runs, Starts(r)
        PROVE  run' \in [Runs -> RunRecords]
    <3>1. PICK batch \in SUBSET Jobs :
              run' = [run EXCEPT ![r] = [NewRun EXCEPT !.step = "record", !.todo = batch, !.batch = batch]]
      BY <2>2 DEF Starts
    <3>2. [NewRun EXCEPT !.step = "record", !.todo = batch, !.batch = batch] \in RunRecords
      BY DEF NewRun, RunRecords, RunSteps
    <3> QED BY <2>1, <3>1, <3>2
  <2>3. ASSUME NEW r \in Runs, NEW step \in RunSteps
        PROVE  /\ [run[r] EXCEPT !.step = step] \in RunRecords
               /\ [run[r] EXCEPT !.step = step, !.asked = {}] \in RunRecords
               /\ [run[r] EXCEPT !.step = step, !.asked = {}, !.clean = FALSE] \in RunRecords
               /\ \A todo \in SUBSET Jobs : [run[r] EXCEPT !.step = step, !.todo = todo] \in RunRecords
               /\ \A todo \in SUBSET Jobs, asked \in SUBSET Jobs :
                     [run[r] EXCEPT !.step = step, !.todo = todo, !.asked = asked] \in RunRecords
    <3>1. run[r] \in RunRecords
      BY <1>0
    <3> QED BY <3>1, Zenon DEF RunRecords
  <2>4. ASSUME NEW r \in Runs, NEW j \in Jobs, Record(r, j)
        PROVE  run' \in [Runs -> RunRecords]
    <3> DEFINE new == [run[r] EXCEPT !.todo = @ \ {j},
                                     !.inserted = IF j \in ledger THEN @ ELSE @ \union {j}]
    <3>1. new \in RunRecords
      BY <1>0 DEF RunRecords
    <3>2. run' = [run EXCEPT ![r] = new]
      BY <1>0, <2>4 DEF Record
    <3> QED BY <2>1, <3>1, <3>2
  <2>5. ASSUME NEW r \in Runs, RecordedAll(r)
        PROVE  run' \in [Runs -> RunRecords]
    <3>1. ToQueue(r) \subseteq Jobs /\ "queue" \in RunSteps
      BY <1>0 DEF ToQueue, RunRecords, RunSteps
    <3>2. run' = [run EXCEPT ![r] = [run[r] EXCEPT !.step = "queue", !.todo = ToQueue(r)]]
      BY <1>0, <2>5 DEF RecordedAll
    <3> QED BY <2>1, <2>3, <3>1, <3>2
  <2>6. ASSUME NEW r \in Runs, NEW j \in Jobs, Enqueue(r, j)
        PROVE  run' \in [Runs -> RunRecords]
    <3>1. run[r].todo \ {j} \subseteq Jobs /\ {j} \subseteq Jobs /\ "wait" \in RunSteps
      BY <1>0 DEF RunRecords, RunSteps
    <3>2. run' = [run EXCEPT ![r] = [run[r] EXCEPT !.step = "wait", !.todo = run[r].todo \ {j}, !.asked = {j}]]
      BY <1>0, <2>6 DEF Enqueue
    <3> QED BY <2>1, <2>3, <3>1, <3>2
  <2>7. ASSUME NEW r \in Runs, Answered(r) \/ Ends(r) \/ EnqueueFails(r) \/ RunDies(r)
        PROVE  run' \in [Runs -> RunRecords]
    <3>1. \/ run' = [run EXCEPT ![r] = [run[r] EXCEPT !.step = "queue", !.asked = {}]]
          \/ run' = [run EXCEPT ![r] = [run[r] EXCEPT !.step = "queue", !.asked = {}, !.clean = FALSE]]
          \/ run' = [run EXCEPT ![r] = [run[r] EXCEPT !.step = "done"]]
          \/ run' = [run EXCEPT ![r] = [run[r] EXCEPT !.step = "died"]]
      BY <1>0, <2>7 DEF Answered, Ends, EnqueueFails, RunDies
    <3>2. {"queue", "done", "died"} \subseteq RunSteps
      BY DEF RunSteps
    <3> QED BY <2>1, <2>3, <3>1, <3>2
  <2> QED BY <1>0, <2>2, <2>4, <2>5, <2>6, <2>7, RunsMove
<1> QED BY <1>1, <1>2, <1>3, <1>4, <1>5 DEF CampaignTypeOK, RunRecords, Versions

\* The ledger only grows, and the calls it speaks of are the runs'.
LEMMA LedgerGrows ==
    ASSUME CampaignTypeOK, VersionsInOrder, CampaignNext
    PROVE  ledger \subseteq ledger' /\ kind' = kind
<1>1. ledger \subseteq ledger'
  BY RunsMove DEF Starts, RecordedAll, Record, Enqueue, Answered, Ends, EnqueueFails, RunDies
<1>2. kind' = kind
  BY DEF CampaignNext, Operators, campaignVars, Collections, SaveVersion, SaveSteps, Pay, StartDispatch, Notices,
         CreateIncident, CloseIncident, StartNotice, RunStep, RecordedAll, Record, Enqueue, Answered, Ends,
         EnqueueFails, RunDies
<1> QED BY <1>1, <1>2

LEMMA RecordingStays ==
    ASSUME CampaignTypeOK, VersionsInOrder, RunsRecordFirst, CampaignNext
    PROVE  RunsRecordFirst'
<1>0. run \in [Runs -> RunRecords]
  BY DEF CampaignTypeOK, RunRecords
<1> SUFFICES ASSUME NEW s \in Runs
             PROVE  /\ run'[s].inserted \subseteq ledger'
                    /\ run'[s].step = "record" => run'[s].batch \ run'[s].todo \subseteq ledger'
                    /\ run'[s].step \in {"queue", "wait"} => run'[s].todo \subseteq ledger'
  BY DEF RunsRecordFirst
<1>1. CASE run'[s] = run[s]
  BY <1>1, LedgerGrows DEF RunsRecordFirst
<1>2. CASE Starts(s)
  <2>1. PICK batch \in SUBSET Jobs :
            run'[s] = [NewRun EXCEPT !.step = "record", !.todo = batch, !.batch = batch]
    BY <1>0, <1>2 DEF Starts
  <2>2. /\ run'[s].step = "record" /\ run'[s].todo = batch /\ run'[s].batch = batch /\ run'[s].inserted = {}
    BY <2>1 DEF NewRun
  <2> QED BY <2>2
<1>3. ASSUME NEW j \in Jobs, Record(s, j)
      PROVE  /\ run'[s].inserted \subseteq ledger'
             /\ run'[s].step = "record" => run'[s].batch \ run'[s].todo \subseteq ledger'
             /\ run'[s].step \in {"queue", "wait"} => run'[s].todo \subseteq ledger'
  <2>1. /\ run'[s].step = "record" /\ run'[s].batch = run[s].batch /\ run'[s].todo = run[s].todo \ {j}
        /\ run'[s].inserted \subseteq run[s].inserted \union {j} /\ ledger' = ledger \union {j}
        /\ run[s].step = "record"
    BY <1>0, <1>3 DEF Record, RunRecords
  <2> QED BY <2>1 DEF RunsRecordFirst
<1>4. CASE RecordedAll(s)
  <2>1. /\ run'[s].step = "queue" /\ run'[s].batch = run[s].batch /\ run'[s].todo = ToQueue(s)
        /\ run'[s].inserted = run[s].inserted /\ run[s].step = "record" /\ run[s].todo = {} /\ ledger' = ledger
    BY <1>0, <1>4 DEF RecordedAll, RunRecords
  <2> QED BY <2>1 DEF RunsRecordFirst, ToQueue
<1>5. ASSUME NEW j \in Jobs, Enqueue(s, j)
      PROVE  /\ run'[s].inserted \subseteq ledger'
             /\ run'[s].step = "record" => run'[s].batch \ run'[s].todo \subseteq ledger'
             /\ run'[s].step \in {"queue", "wait"} => run'[s].todo \subseteq ledger'
  <2>1. /\ run'[s].step = "wait" /\ run'[s].todo = run[s].todo \ {j}
        /\ run'[s].inserted = run[s].inserted /\ run[s].step = "queue" /\ ledger' = ledger
    BY <1>0, <1>5 DEF Enqueue, RunRecords
  <2> QED BY <2>1 DEF RunsRecordFirst
<1>6. CASE Answered(s) \/ Ends(s) \/ EnqueueFails(s) \/ RunDies(s)
  <2>1. /\ run'[s].step \in {"queue", "done", "died"} /\ run'[s].todo = run[s].todo
        /\ run'[s].inserted = run[s].inserted /\ ledger' = ledger
        /\ run'[s].step = "queue" => run[s].step = "wait"
    BY <1>0, <1>6 DEF Answered, Ends, EnqueueFails, RunDies, RunRecords
  <2> QED BY <2>1 DEF RunsRecordFirst
<1>7. ASSUME NEW r \in Runs, r # s,
             \/ Starts(r) \/ RecordedAll(r) \/ \E j \in Jobs : Record(r, j) \/ Enqueue(r, j)
             \/ Answered(r) \/ Ends(r) \/ EnqueueFails(r) \/ RunDies(r)
      PROVE  run'[s] = run[s]
  BY <1>0, <1>7 DEF Starts, RecordedAll, Record, Enqueue, Answered, Ends, EnqueueFails, RunDies
<1> QED BY <1>1, <1>2, <1>3, <1>4, <1>5, <1>6, <1>7, RunsMove

\* While only runs call the queue, a job comes by an enqueueing and never goes.
LEMMA RunsOnlyAdd ==
    ASSUME QueueTypeOK, CampaignTypeOK, CallsAreRecorded, QueuedIsRecorded, kind # "operators", QueueStep
    PROVE  /\ \A j \in Jobs : Exists(j) => Exists(j)'
           /\ \A j \in Jobs : Exists(j)' => j \in ledger
           /\ \A q \in Requests :
                 /\ request'[q].op = request[q].op /\ request'[q].job = request[q].job
                 /\ request'[q].step # request[q].step => request[q].step # "free"
                 /\ request'[q].step \in {"free", "find", "add", "created", "duplicate", "died"}
                 /\ request'[q].step \in {"created", "duplicate"} => Exists(request[q].job)'
<1>0. /\ job \in [Jobs -> JobRecords] /\ request \in [Requests -> CallRecords]
      /\ \A q \in Requests : request[q].job \in Jobs
      /\ NewJob.state = "waiting"
  BY DEF QueueTypeOK, JobRecords, CallRecords, NewJob, NoJob
<1>1. \A q \in Requests :
          /\ request[q].op = "enqueue"
          /\ request[q].step \in {"free", "find", "add", "created", "duplicate", "died"}
          /\ request[q].step # "free" => request[q].job \in ledger
          /\ request[q].step \in {"created", "duplicate"} => Exists(request[q].job)
  BY DEF CallsAreRecorded
<1>2. ASSUME NEW i \in Jobs, Works(i)
      PROVE  request' = request /\ \A j \in Jobs : Exists(j)' = Exists(j)
  <2>1. request' = request
    BY <1>2 DEF Works, Work, Take, BackoffEnds, ProcessorEnds, MoveToCompleted, Fail, Hears, ListenerLooks, ListenerWrites,
                ListenerFails, Stall, StallFails, WorkerDied
  <2>2. CASE job' = job
    BY <2>1, <2>2 DEF Exists
  <2>3. /\ \A j \in Jobs : j # i => job'[j] = job[j]
        /\ job'[i] = job[i] \/ (Exists(i) /\ job'[i].state # "none")
    BY <1>0, <1>2 DEF Works, Work, Take, BackoffEnds, ProcessorEnds, MoveToCompleted, Fail, Hears, ListenerLooks, ListenerWrites,
                ListenerFails, Stall, StallFails, WorkerDied,
                      Exists, JobRecords
  <2> QED BY <2>1, <2>3 DEF Exists
<1>3. ASSUME NEW q \in Requests, FindExisting(q) \/ RequestDies(q)
      PROVE  /\ UNCHANGED job
             /\ \A p \in Requests :
                   /\ request'[p].op = request[p].op /\ request'[p].job = request[p].job
                   /\ request'[p].step # request[p].step => request[p].step # "free"
                   /\ request'[p].step \in {"free", "find", "add", "created", "duplicate", "died"}
                   /\ request'[p].step \in {"created", "duplicate"} => Exists(request[p].job)
  <2>1. PICK step \in {"add", "duplicate", "died"} :
            Goes(q, step) /\ (step = "duplicate" => Exists(request[q].job)) /\ UNCHANGED job
    BY <1>3 DEF FindExisting, RequestDies
  <2>2. request[q].step # "free"
    BY <1>3 DEF FindExisting, RequestDies, At
  <2>3. /\ request'[q].step = step /\ request'[q].op = request[q].op /\ request'[q].job = request[q].job
        /\ \A p \in Requests : p # q => request'[p] = request[p]
    BY <2>1, CallsStay DEF RequestSteps, Answers
  <2> QED BY <1>1, <2>1, <2>2, <2>3
<1>4. ASSUME NEW q \in Requests, Add(q)
      PROVE  /\ \A p \in Requests :
                   /\ request'[p].op = request[p].op /\ request'[p].job = request[p].job
                   /\ request'[p].step # request[p].step => request[p].step # "free"
                   /\ request'[p].step \in {"free", "find", "add", "created", "duplicate", "died"}
                   /\ request'[p].step \in {"created", "duplicate"} => p = q \/ Exists(request[p].job)
             /\ \A j \in Jobs : Exists(j)' <=> Exists(j) \/ j = request[q].job
             /\ request[q].job \in ledger
  <2>1. Goes(q, "created") /\ request[q].step = "add"
    BY <1>4 DEF Add, At
  <2>2. /\ request'[q].step = "created" /\ request'[q].op = request[q].op /\ request'[q].job = request[q].job
        /\ \A p \in Requests : p # q => request'[p] = request[p]
    BY <2>1, CallsStay DEF RequestSteps, Answers
  <2>3. \A j \in Jobs : Exists(j)' <=> Exists(j) \/ j = request[q].job
    BY <1>0, <1>4 DEF Add, Exists
  <2> QED BY <1>1, <2>1, <2>2, <2>3
<1>5. \A q \in Requests : Serve(q) => FindExisting(q) \/ Add(q)
  BY <1>1 DEF Serve, FindExisting, Add, FindFailed, Retry, Drop, FindWaiting, Mark, Remove, At
<1>6. \A j \in Jobs : Exists(j) => j \in ledger
  BY DEF QueuedIsRecorded, Exists
<1>7. CASE \E i \in Jobs : Works(i)
  BY <1>0, <1>1, <1>2, <1>6, <1>7
<1>8. CASE \E q \in Requests : FindExisting(q) \/ RequestDies(q)
  <2>1. UNCHANGED job
    BY <1>3, <1>8
  <2>2. \A j \in Jobs : Exists(j)' = Exists(j)
    BY <2>1 DEF Exists
  <2> QED BY <1>0, <1>3, <1>6, <1>8, <2>2
<1>9. CASE \E q \in Requests : Add(q)
  BY <1>0, <1>4, <1>6, <1>9
<1> QED BY <1>5, <1>7, <1>8, <1>9 DEF QueueStep, Works

\* What each step is to the calls.
LEMMA CallsSide ==
    ASSUME CampaignTypeOK, kind # "operators", CampaignNext
    PROVE  \/ QueueStep /\ UNCHANGED campaignVars
           \/ \E r \in Runs, j \in Jobs : Enqueue(r, j)
           \/ UNCHANGED <<job, request>>
<1>1. ~Operators
  BY DEF Operators
<1>2. CASE Collections \/ Notices
  BY <1>2 DEF Collections, Notices, queueVars
<1>3. ASSUME NEW r \in Runs, RunStep(r) \/ EnqueueFails(r) \/ RunDies(r)
      PROVE  \/ \E j \in Jobs : Enqueue(r, j)
             \/ UNCHANGED <<job, request>>
  BY <1>3 DEF RunStep, Answered, Ends, EnqueueFails, RunDies, queueVars
<1> QED BY <1>1, <1>2, <1>3 DEF CampaignNext

\* What putting a call to the queue does.
LEMMA EnqueueMoves ==
    ASSUME QueueTypeOK, CampaignTypeOK, NEW r \in Runs, NEW j \in Jobs, Enqueue(r, j)
    PROVE  /\ request[<<r, j>>].step = "free" /\ j \in run[r].todo /\ run[r].step = "queue"
           /\ request'[<<r, j>>] = [op |-> "enqueue", job |-> j, step |-> "find"]
           /\ \A p \in Requests : p # <<r, j>> => request'[p] = request[p]
           /\ UNCHANGED <<job, kind, ledger>>
<1>1. <<r, j>> \in Requests /\ "enqueue" \in Operations /\ Ask(<<r, j>>, "enqueue", j)
  BY ContactsAssumption DEF Enqueue, Operations
<1>2. /\ request[<<r, j>>].step = "free" /\ request'[<<r, j>>] = [op |-> "enqueue", job |-> j, step |-> "find"]
      /\ \A p \in Requests : p # <<r, j>> => request'[p] = request[p]
      /\ UNCHANGED job
  BY <1>1, AskMoves
<1> QED BY <1>2 DEF Enqueue

LEMMA CallsKeepRecorded ==
    ASSUME QueueTypeOK, CampaignTypeOK, VersionsInOrder, CallsAreRecorded, QueuedIsRecorded,
           RunsRecordFirst, CampaignNext
    PROVE  CallsAreRecorded' /\ QueuedIsRecorded'
<1>0. kind' = kind /\ ledger \subseteq ledger'
  BY LedgerGrows
<1>1. CASE kind = "operators"
  BY <1>0, <1>1 DEF CallsAreRecorded, QueuedIsRecorded
<1>2. CASE kind # "operators"
  <2>1. CASE QueueStep /\ UNCHANGED campaignVars
    <3>1. ledger' = ledger
      BY <2>1 DEF campaignVars
    <3>2. QueuedIsRecorded'
      <4>1. \A j \in Jobs : job'[j].state # "none" => j \in ledger
        BY <1>2, <2>1, RunsOnlyAdd DEF Exists
      <4> QED BY <3>1, <4>1 DEF QueuedIsRecorded
    <3>4. \A q \in Requests :
              /\ request'[q].op = "enqueue"
              /\ request'[q].step # "free" => request'[q].job \in ledger'
      BY <1>2, <2>1, <3>1, RunsOnlyAdd DEF CallsAreRecorded
    <3>5. CallsAreRecorded'
      <4>1. \A q \in Requests :
                /\ request'[q].step \in {"free", "find", "add", "created", "duplicate", "died"}
                /\ request'[q].step \in {"created", "duplicate"} => job'[request'[q].job].state # "none"
        BY <1>2, <2>1, RunsOnlyAdd DEF Exists
      <4> QED BY <3>4, <4>1 DEF CallsAreRecorded, Exists
    <3> QED BY <3>2, <3>5
  <2>2. ASSUME NEW r \in Runs, NEW j \in Jobs, Enqueue(r, j)
        PROVE  CallsAreRecorded' /\ QueuedIsRecorded'
    <3>1. j \in ledger /\ ledger' = ledger /\ job' = job
      BY <2>2, EnqueueMoves DEF RunsRecordFirst
    <3>2. ASSUME NEW q \in Requests
          PROVE  /\ request'[q].op = "enqueue"
                 /\ request'[q].step \in {"free", "find", "add", "created", "duplicate", "died"}
                 /\ request'[q].step # "free" => request'[q].job \in ledger'
                 /\ request'[q].step \in {"created", "duplicate"} => job'[request'[q].job].state # "none"
      <4>1. CASE q = <<r, j>>
        <5>1. request'[q] = [op |-> "enqueue", job |-> j, step |-> "find"]
          BY <2>2, <4>1, EnqueueMoves
        <5> QED BY <3>1, <5>1
      <4>2. CASE q # <<r, j>>
        <5>1. request'[q] = request[q]
          BY <2>2, <4>2, EnqueueMoves
        <5> QED BY <1>2, <3>1, <5>1 DEF CallsAreRecorded, Exists
      <4> QED BY <4>1, <4>2
    <3>3. CallsAreRecorded'
      BY <3>2 DEF CallsAreRecorded, Exists
    <3>4. QueuedIsRecorded'
      BY <1>0, <1>2, <3>1 DEF QueuedIsRecorded
    <3> QED BY <3>3, <3>4
  <2>3. CASE UNCHANGED <<job, request>>
    BY <1>0, <1>2, <2>3 DEF CallsAreRecorded, QueuedIsRecorded, Exists
  <2> QED BY <1>2, <2>1, <2>2, <2>3, CallsSide
<1> QED BY <1>1, <1>2

LEMMA JobsAndCallsLast ==
    ASSUME QueueTypeOK, CampaignTypeOK, CallsAreRecorded, QueuedIsRecorded, kind # "operators", CampaignNext
    PROVE  /\ \A j \in Jobs : Exists(j) => Exists(j)'
           /\ \A q \in Requests : request'[q].job = request[q].job \/ \E r \in Runs, j \in Jobs : q = <<r, j>> /\ Enqueue(r, j)
<1>1. CASE QueueStep
  BY <1>1, RunsOnlyAdd
<1>2. ASSUME NEW r \in Runs, NEW j \in Jobs, Enqueue(r, j)
      PROVE  /\ UNCHANGED job
             /\ \A q \in Requests : request'[q].job = request[q].job \/ q = <<r, j>>
  BY <1>2, EnqueueMoves
<1>3. UNCHANGED job => \A j \in Jobs : Exists(j) => Exists(j)'
  BY DEF Exists
<1> QED BY <1>1, <1>2, <1>3, CallsSide

LEMMA NoticesStay ==
    ASSUME QueueTypeOK, CampaignTypeOK, VersionsInOrder, CallsAreRecorded, QueuedIsRecorded, NoticesGoIn, CampaignNext
    PROVE  NoticesGoIn'
<1>0. run \in [Runs -> RunRecords] /\ kind' = kind
  BY LedgerGrows DEF CampaignTypeOK, RunRecords
<1> SUFFICES ASSUME kind = "notice", NEW s \in Runs, run'[s].clean
             PROVE  /\ run'[s].step = "queue" => \A j \in run'[s].batch \ run'[s].todo : Exists(j)'
                    /\ run'[s].step = "wait" =>
                          /\ \A j \in run'[s].batch \ (run'[s].todo \union run'[s].asked) : Exists(j)'
                          /\ \A j \in run'[s].asked : request'[<<s, j>>].job = j
                    /\ run'[s].step = "done" => \A j \in run'[s].batch : Exists(j)'
  BY <1>0 DEF NoticesGoIn, Exists
<1> DEFINE goesIn == /\ run'[s].step = "queue" => \A j \in run'[s].batch \ run'[s].todo : Exists(j)'
                     /\ run'[s].step = "wait" =>
                           /\ \A j \in run'[s].batch \ (run'[s].todo \union run'[s].asked) : Exists(j)'
                           /\ \A j \in run'[s].asked : request'[<<s, j>>].job = j
                     /\ run'[s].step = "done" => \A j \in run'[s].batch : Exists(j)'
<1>1. \A j \in Jobs : Exists(j) => Exists(j)'
  BY JobsAndCallsLast
<1>2. /\ run[s].batch \subseteq Jobs /\ run[s].todo \subseteq Jobs /\ run[s].asked \subseteq Jobs
      /\ \A j \in Jobs : <<s, j>> \in Requests
  BY <1>0, ContactsAssumption DEF RunRecords
<1>3. run[s].clean =>
          /\ run[s].step = "queue" => \A j \in run[s].batch \ run[s].todo : Exists(j)
          /\ run[s].step = "wait" =>
                /\ \A j \in run[s].batch \ (run[s].todo \union run[s].asked) : Exists(j)
                /\ \A j \in run[s].asked : request[<<s, j>>].job = j
          /\ run[s].step = "done" => \A j \in run[s].batch : Exists(j)
  BY DEF NoticesGoIn
<1>4. ASSUME run'[s] = run[s] PROVE goesIn
  <2>1. run[s].step = "wait" => \A j \in Jobs : ~Enqueue(s, j)
    BY DEF Enqueue
  <2>2. ASSUME run[s].step = "wait", NEW j \in run[s].asked
        PROVE  request'[<<s, j>>].job = j
    <3>1. ~\E r \in Runs, i \in Jobs : <<s, j>> = <<r, i>> /\ Enqueue(r, i)
      BY <2>1, <2>2
    <3>2. request'[<<s, j>>].job = request[<<s, j>>].job
      BY <1>2, <3>1, JobsAndCallsLast
    <3> QED BY <1>3, <1>4, <2>2, <3>2
  <2> QED BY <1>1, <1>2, <1>3, <1>4, <2>2
<1>5. CASE Starts(s)
  <2>1. run'[s].step = "record"
    BY <1>0, <1>5 DEF Starts, NewRun
  <2> QED BY <2>1
<1>6. ASSUME NEW j \in Jobs, Record(s, j) PROVE goesIn
  <2>1. run'[s].step = "record"
    BY <1>0, <1>6 DEF Record, RunRecords
  <2> QED BY <2>1
<1>7. CASE RecordedAll(s)
  <2>1. run'[s].step = "queue" /\ run'[s].todo = run[s].batch /\ run'[s].batch = run[s].batch
    BY <1>0, <1>7 DEF RecordedAll, ToQueue, RunRecords
  <2> QED BY <2>1
<1>8. ASSUME NEW j \in Jobs, Enqueue(s, j) PROVE goesIn
  <2>1. /\ run'[s].step = "wait" /\ run'[s].todo = run[s].todo \ {j} /\ run'[s].asked = {j}
        /\ run'[s].batch = run[s].batch /\ run'[s].clean = run[s].clean
        /\ run[s].step = "queue" /\ j \in run[s].todo
    BY <1>0, <1>8 DEF Enqueue, RunRecords
  <2>2. request'[<<s, j>>].job = j
    <3>1. request'[<<s, j>>] = [op |-> "enqueue", job |-> j, step |-> "find"]
      BY <1>8, EnqueueMoves
    <3> QED BY <3>1
  <2> QED BY <1>1, <1>2, <1>3, <2>1, <2>2
<1>9. CASE Answered(s)
  <2>1. /\ run'[s].step = "queue" /\ run'[s].todo = run[s].todo /\ run'[s].batch = run[s].batch
        /\ run'[s].clean = run[s].clean /\ run[s].step = "wait"
    BY <1>0, <1>9 DEF Answered, RunRecords
  <2>2. ASSUME NEW j \in run[s].asked
        PROVE  Exists(j)
    <3>1. request[<<s, j>>].step \in Answers /\ request[<<s, j>>].job = j
      BY <1>3, <1>9, <2>1, <2>2 DEF Answered, AskedIs
    <3>2. request[<<s, j>>].step \in {"created", "duplicate"}
      BY <1>2, <3>1 DEF CallsAreRecorded, Answers
    <3> QED BY <1>2, <3>1, <3>2 DEF CallsAreRecorded
  <2>3. \A j \in run[s].batch \ run[s].todo : Exists(j)
    BY <1>3, <2>1, <2>2
  <2> QED BY <1>1, <1>2, <2>1, <2>3
<1>10. CASE Ends(s)
  <2>1. /\ run'[s].step = "done" /\ run[s].todo = {} /\ run'[s].batch = run[s].batch
        /\ run'[s].clean = run[s].clean /\ run[s].step = "queue"
    BY <1>0, <1>10 DEF Ends, RunRecords
  <2> QED BY <1>1, <1>2, <1>3, <2>1
<1>11. CASE EnqueueFails(s) \/ RunDies(s)
  <2>1. ~run'[s].clean \/ run'[s].step = "died"
    BY <1>0, <1>11 DEF EnqueueFails, RunDies, RunRecords
  <2> QED BY <2>1
<1>12. ASSUME NEW r \in Runs, r # s,
              \/ Starts(r) \/ RecordedAll(r) \/ \E j \in Jobs : Record(r, j) \/ Enqueue(r, j)
              \/ Answered(r) \/ Ends(r) \/ EnqueueFails(r) \/ RunDies(r)
       PROVE  run'[s] = run[s]
  BY <1>0, <1>12 DEF Starts, RecordedAll, Record, Enqueue, Answered, Ends, EnqueueFails, RunDies
<1> QED BY <1>4, <1>5, <1>6, <1>7, <1>8, <1>9, <1>10, <1>11, <1>12, RunsMove

-----------------------------------------------------------------------------
(* The theorems. *)

LEMMA DispatchStart == CampaignInit => DispatchInv
<1> SUFFICES ASSUME CampaignInit PROVE DispatchInv
  OBVIOUS
<1>0. NoJob \in JobRecords /\ NoJob.state = "none" /\ ~NoJob.cancelled
  <2>1. 0 \in 0 .. 10 /\ "none" \in JobStates
    BY DEF JobStates
  <2> QED BY <2>1 DEF NoJob, JobRecords
<1>1. \A q \in Requests :
          /\ request[q] \in CallRecords /\ request[q].op = "enqueue" /\ request[q].step = "free"
  <2>1. (CHOOSE j \in Jobs : TRUE) \in Jobs
    BY QueueAssumption
  <2>2. request \in [Requests -> [op : {"enqueue"}, job : {CHOOSE j \in Jobs : TRUE}, step : {"free"}]]
    BY DEF CampaignInit, QueueInit
  <2> QED BY <2>1, <2>2 DEF CallRecords, Operations, RequestSteps
<1>2. request \in [Requests -> CallRecords]
  BY <1>1 DEF CampaignInit, QueueInit
<1>3. QueueTypeOK
  <2>1. faults \in 0 .. MaxFaults
    BY QueueAssumption DEF CampaignInit, QueueInit
  <2> QED BY <1>0, <1>2, <2>1 DEF CampaignInit, QueueInit, QueueTypeOK, JobRecords, CallRecords
<1>4. AttemptsLeft /\ DeadLettersAreKept /\ WorkIsDoneOnce
  BY <1>0, NewJobs DEF CampaignInit, QueueInit, AttemptsLeft, DeadLettersAreKept, UsedUp, WorkIsDoneOnce, Through
<1>5. NewRun \in RunRecords /\ NewRun.step = "idle" /\ NewRun.inserted = {}
  BY DEF NewRun, RunRecords, RunSteps
<1>6. CampaignTypeOK
  BY <1>5 DEF CampaignInit, CampaignTypeOK, RunRecords, Versions
<1>7. VersionsInOrder
  <2>1. Saved = {}
    BY DEF CampaignInit, Saved
  <2>2. 0 \in 0 .. MaxVersions /\ 1 .. 0 = {}
    BY CampaignAssumption
  <2> QED BY <2>1, <2>2 DEF VersionsInOrder
<1>8. CallsAreRecorded /\ QueuedIsRecorded
  BY <1>0, <1>1 DEF CampaignInit, QueueInit, CallsAreRecorded, QueuedIsRecorded
<1>9. RunsRecordFirst /\ NoticesGoIn
  BY <1>5 DEF CampaignInit, RunsRecordFirst, NoticesGoIn
<1> QED BY <1>3, <1>4, <1>6, <1>7, <1>8, <1>9 DEF QueueInv, DispatchInv

LEMMA DispatchInvariance == CampaignSpec => []DispatchInv
<1>1. DispatchInv /\ [CampaignNext]_vars => DispatchInv'
  <2> SUFFICES ASSUME DispatchInv, [CampaignNext]_vars PROVE DispatchInv'
    OBVIOUS
  <2>1. CASE CampaignNext
    <3>1. QueueInv' /\ CampaignTypeOK' /\ VersionsInOrder' /\ RunsRecordFirst'
      BY <2>1, QueueStays, CampaignTypeStays, RecordingStays DEF DispatchInv
    <3>2. CallsAreRecorded' /\ QueuedIsRecorded' /\ NoticesGoIn'
      BY <2>1, CallsKeepRecorded, NoticesStay DEF DispatchInv, QueueInv
    <3> QED BY <3>1, <3>2 DEF DispatchInv
  <2>2. CASE UNCHANGED vars
    <3>1. QueueInv'
      BY <2>2 DEF vars, queueVars, DispatchInv, QueueInv, QueueTypeOK, AttemptsLeft, DeadLettersAreKept, UsedUp,
                  WorkIsDoneOnce, Through
    <3>2. CampaignTypeOK' /\ VersionsInOrder'
      BY <2>2 DEF vars, campaignVars, DispatchInv, CampaignTypeOK, VersionsInOrder, Saved
    <3>3. CallsAreRecorded' /\ QueuedIsRecorded' /\ RunsRecordFirst' /\ NoticesGoIn'
      BY <2>2 DEF vars, queueVars, campaignVars, DispatchInv, CallsAreRecorded, QueuedIsRecorded, RunsRecordFirst,
                  NoticesGoIn, Exists
    <3> QED BY <3>1, <3>2, <3>3 DEF DispatchInv
  <2> QED BY <2>1, <2>2
<1> QED BY <1>1, DispatchStart, PTL DEF CampaignSpec

\* The types of the queue and of the runs.
THEOREM DispatchTypes == CampaignSpec => []DispatchTypeOK
<1>1. DispatchInv => DispatchTypeOK
  BY DEF DispatchInv, QueueInv, DispatchTypeOK
<1> QED BY <1>1, DispatchInvariance, PTL

\* For any jobs, calls of the API, failures and workers that die, also between the end
\* of the processor and its record: a job that used up its attempts is on the
\* dead-letter list or the loss of the record is known, and but for a cancel that a
\* worker came in between of, a job is gone through once, and once more for each end
\* lost with its worker, and never shown as cancelled after another.
THEOREM NoJobIsLostOrDoneTwice == CampaignSpec => []JobsAreKept
<1>1. ASSUME QueueTypeOK, WorkIsDoneOnce, NEW j \in Jobs, ~raced[j]
      PROVE  done[j] <= 1 + redone[j] /\ (ShownStatus(j) = "cancelled" => done[j] = redone[j])
  <2>1. /\ done[j] = redone[j] + (IF Through(j) THEN 1 ELSE 0)
        /\ job[j].state \in {"active", "completed"} => ~job[j].cancelled
        /\ job[j].ended => job[j].state = "active"
    BY <1>1 DEF WorkIsDoneOnce
  <2>2. done[j] \in Nat /\ redone[j] \in Nat
    BY <1>1 DEF QueueTypeOK
  <2>3. ShownStatus(j) = "cancelled" => job[j].cancelled
    BY DEF ShownStatus
  <2>4. ShownStatus(j) = "cancelled" => ~Through(j)
    BY <2>1, <2>3 DEF Through
  <2> QED BY <2>1, <2>2, <2>4
<1>2. DispatchInv => JobsAreKept
  BY <1>1 DEF DispatchInv, QueueInv, JobsAreKept, RunsOnce
<1> QED BY <1>2, DispatchInvariance, PTL

\* For any runs and customers, whichever of the two writes a run died between: the
\* queue holds no contact the ledger does not know of, and a notice run that ended
\* without a failing call left all it decided on in the queue.
THEOREM LedgerAndQueueAgree == CampaignSpec => []ContactsAreTold
<1>1. NoticesGoIn => NoticesReachQueue
  BY DEF NoticesGoIn, NoticesReachQueue, Exists
<1>2. DispatchInv => ContactsAreTold
  BY <1>1 DEF DispatchInv, ContactsAreTold
<1> QED BY <1>2, DispatchInvariance, PTL
=============================================================================
