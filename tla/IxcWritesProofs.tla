---------------------------- MODULE IxcWritesProofs ----------------------------
(***************************************************************************)
(* What TLAPS proves of IxcWrites for any requests, keys and subjects, any *)
(* number of faults, overlapping or not: what the ledger says of the IXC.  *)
(***************************************************************************)
EXTENDS IxcWrites, TLAPS

\* Every call before the current one was carried out, and nothing is called
\* before the first or after the last.
CallsInOrder ==
    \A r \in Requests :
        /\ pc[r] \in {"idle", "gathered", "asked"} => step[r] = 0
        /\ pc[r] \in {"calling", "returned", "linked", "thrown"} => step[r] > 0
        /\ step[r] = 0 => effects[r] = 0 /\ call[r] = "none" /\ ~known[r]
        /\ step[r] > 0 => \/ call[r] \in {"flying", "refused"} /\ effects[r] = step[r] - 1
                          \/ call[r] = "made" /\ effects[r] = step[r]
        /\ pc[r] \in {"returned", "linked"} => step[r] = Steps /\ LooksGood(r)

\* The request a row is of does not call any more: what the row says of it stays
\* true, but for a call that may still be carried out.
RowsAreFinal ==
    \A k \in Keys :
        /\ ledger[k].status # "none" => ledger[k].by \in Requests /\ pc[ledger[k].by] \in {"thrown", "done"}
        /\ ledger[k].status = "success" => step[ledger[k].by] = Steps /\ LooksGood(ledger[k].by)
        /\ ledger[k].status = "failed" => step[ledger[k].by] > 0 /\ ledger[k].step = step[ledger[k].by]

AnswersStand ==
    /\ AnsweredIsOnLedger
    /\ \A r \in Requests : pc[r] # "done" => answer[r] = "nothing"

WritesInv == TypeOK /\ CallsInOrder /\ RowsAreFinal /\ AnswersStand

-----------------------------------------------------------------------------
LEMMA StepsIsPositive == Steps \in Nat /\ Steps > 0
BY DEF Steps

\* The operation of a behaviour is the same from its first state to its last.
LEMMA ModeStays ==
    ASSUME UNCHANGED mode PROVE Operation' = Operation /\ Steps' = Steps
BY DEF Operation, Steps

\* A fault is one more, within the bound.
LEMMA FaultsAreBounded ==
    ASSUME faults \in 0..MaxFaults, Fault PROVE faults' \in 0..MaxFaults
BY WritesBoundsAssumption DEF Fault

\* A row is inserted where there was none, and touches no other.
LEMMA InsertTouchesOne ==
    ASSUME TypeOK, NEW x \in Requests, Free(x),
           NEW status \in {"success", "blocked", "failed"}, NEW named \in BOOLEAN, Insert(x, status, named)
    PROVE  /\ ledger' \in [Keys -> [status : {"none", "success", "blocked", "failed"},
                                    by : Requests \cup {Nobody}, named : BOOLEAN, step : 0..Steps]]
           /\ \A k \in Keys : IF k = KeyOf[x]
                 THEN /\ ledger[k].status = "none" /\ ledger'[k].status = status
                      /\ ledger'[k].by = x /\ ledger'[k].step = step[x] /\ ledger'[k].named = named
                 ELSE ledger'[k] = ledger[k]
<1> DEFINE row == [status |-> status, by |-> x, named |-> named, step |-> step[x]]
<1>1. row \in [status : {"none", "success", "blocked", "failed"}, by : Requests \cup {Nobody},
               named : BOOLEAN, step : 0..Steps]
  BY DEF TypeOK
<1>2. ledger' = [ledger EXCEPT ![KeyOf[x]] = row] /\ KeyOf[x] \in Keys
  BY RequestsAssumption DEF Insert
<1>3. row.status = status /\ row.by = x /\ row.named = named /\ row.step = step[x]
  OBVIOUS
<1> HIDE DEF row
<1> QED BY <1>1, <1>2, <1>3 DEF TypeOK, Free

\* The end of a request: it inserts its row or not, and is told of it or not.
LEMMA RecordingKeeps ==
    ASSUME WritesInv, NEW x \in Requests, pc[x] \notin {"idle", "done"},
           NEW status \in {"success", "blocked", "failed"}, NEW named \in BOOLEAN,
           NEW where \in {"thrown", "done"}, NEW told \in {"nothing", status, "error"},
           \/ ledger' = ledger /\ told # status
           \/ Free(x) /\ Insert(x, status, named),
           where = "thrown" => told = "nothing",
           status = "success" => step[x] = Steps /\ LooksGood(x),
           status = "failed" => step[x] > 0,
           pc' = [pc EXCEPT ![x] = where], answer' = [answer EXCEPT ![x] = told],
           UNCHANGED <<mode, step, call>>
    PROVE  /\ ledger' \in [Keys -> [status : {"none", "success", "blocked", "failed"},
                                    by : Requests \cup {Nobody}, named : BOOLEAN, step : 0..Steps]]
           /\ RowsAreFinal' /\ AnswersStand'
<1>mode. Operation' = Operation /\ Steps' = Steps
  BY ModeStays
<1> USE <1>mode
<1>type. TypeOK
  BY DEF WritesInv
<1>pc. /\ pc'[x] = where /\ \A r \in Requests \ {x} : pc'[r] = pc[r]
       /\ answer'[x] = told /\ \A r \in Requests \ {x} : answer'[r] = answer[r]
  BY <1>type DEF TypeOK
<1>1. CASE ledger' = ledger /\ told # status
  <2>1. RowsAreFinal'
    BY <1>1, <1>pc DEF WritesInv, RowsAreFinal, LooksGood
  <2>2. AnswersStand'
    BY <1>1, <1>pc DEF WritesInv, AnswersStand, AnsweredIsOnLedger
  <2> QED BY <1>1, <1>type, <2>1, <2>2 DEF TypeOK
<1>2. CASE Free(x) /\ Insert(x, status, named)
  <2>1. /\ ledger' \in [Keys -> [status : {"none", "success", "blocked", "failed"},
                                 by : Requests \cup {Nobody}, named : BOOLEAN, step : 0..Steps]]
        /\ \A k \in Keys : IF k = KeyOf[x]
              THEN /\ ledger[k].status = "none" /\ ledger'[k].status = status
                   /\ ledger'[k].by = x /\ ledger'[k].step = step[x] /\ ledger'[k].named = named
              ELSE ledger'[k] = ledger[k]
    BY <1>2, <1>type, InsertTouchesOne
  <2>2. RowsAreFinal'
    BY <2>1, <1>pc DEF WritesInv, RowsAreFinal, LooksGood
  <2>3. KeyOf \in [Requests -> Keys]
    BY RequestsAssumption
  <2>4. AnswersStand'
    BY <2>1, <2>3, <1>pc DEF WritesInv, AnswersStand, AnsweredIsOnLedger
  <2> QED BY <2>1, <2>2, <2>4
<1> QED BY <1>1, <1>2

LEMMA ShownAreSubjects ==
    ASSUME paid \subseteq Subjects, NEW shown \in MayShow PROVE shown \subseteq Subjects
BY DEF MayShow

(* One lemma per action: the four parts of the invariant after it. *)

\* A truth value written into a function of truth values.
LEMMA WrittenIsBoolean ==
    ASSUME NEW S, NEW f \in [S -> BOOLEAN], NEW x \in S, NEW b \in BOOLEAN
    PROVE  [f EXCEPT ![x] = b] \in [S -> BOOLEAN]
OBVIOUS

LEMMA GatherKeeps ==
    ASSUME WritesInv, NEW x \in Requests, Gather(x), UNCHANGED mode
    PROVE  WritesInv'
<1>mode. mode' = mode /\ Operation' = Operation /\ Steps' = Steps
  BY ModeStays
<1> USE <1>mode
<1>cache. cache' \in [valid : BOOLEAN, partial : BOOLEAN, taken : SUBSET Subjects]
  <2>1. CASE cache' = cache
    BY <2>1 DEF WritesInv, TypeOK
  <2>2. CASE \E shown \in MayShow : cache' = Snapshot(shown, FALSE)
    BY <2>2, ShownAreSubjects DEF WritesInv, TypeOK, Snapshot
  <2>3. CASE cache' = Snapshot(IF Operation = "service_order.open" THEN {} ELSE Subjects, TRUE)
    BY <2>3 DEF Snapshot
  <2> QED BY <2>1, <2>2, <2>3 DEF Gather
<1>seen. seen' \in [Requests -> BOOLEAN]
  <2>1. (SubjectOf[x] \in cache'.taken) \in BOOLEAN
    OBVIOUS
  <2>2. seen \in [Requests -> BOOLEAN]
    BY DEF WritesInv, TypeOK
  <2>3. seen' = seen \/ seen' = [seen EXCEPT ![x] = SubjectOf[x] \in cache'.taken]
    BY Zenon DEF Gather, LookAt
  <2> QED BY <2>1, <2>2, <2>3, WrittenIsBoolean, Zenon
<1>world. /\ UNCHANGED <<step, known, call, effects, ledger, linked, paid>>
          /\ faults' \in 0..MaxFaults
  BY FaultsAreBounded DEF Gather, WritesInv, TypeOK
<1>look. /\ pc[x] = "idle"
         /\ \/ pc' = [pc EXCEPT ![x] = "gathered"] /\ answer' = answer
            \/ pc' = [pc EXCEPT ![x] = "done"] /\ answer' = [answer EXCEPT ![x] = "error"]
  BY DEF Gather, LookAt, MayBegin, Tell, Go
<1>1. TypeOK'
  BY <1>cache, <1>seen, <1>world, <1>look DEF WritesInv, TypeOK, Active
<1>2. CallsInOrder'
  BY <1>world, <1>look DEF WritesInv, TypeOK, CallsInOrder, LooksGood
<1>3. RowsAreFinal'
  BY <1>world, <1>look DEF WritesInv, TypeOK, RowsAreFinal, LooksGood
<1>4. AnswersStand'
  BY <1>world, <1>look DEF WritesInv, TypeOK, AnswersStand, AnsweredIsOnLedger
<1> QED BY <1>1, <1>2, <1>3, <1>4 DEF WritesInv

LEMMA LookUpCustomerKeeps ==
    ASSUME WritesInv, NEW x \in Requests, LookUpCustomer(x), UNCHANGED mode
    PROVE  WritesInv'
<1>mode. mode' = mode /\ Operation' = Operation /\ Steps' = Steps
  BY ModeStays
<1> USE <1>mode
<1>seen. seen' \in [Requests -> BOOLEAN]
  <2>1. seen \in [Requests -> BOOLEAN]
    BY DEF WritesInv, TypeOK
  <2>2. CASE \E shown \in MayShow : seen' = [seen EXCEPT ![x] = SubjectOf[x] \in shown \cup linked]
    <3>1. PICK shown \in MayShow : seen' = [seen EXCEPT ![x] = SubjectOf[x] \in shown \cup linked]
      BY <2>2
    <3>2. (SubjectOf[x] \in shown \cup linked) \in BOOLEAN
      OBVIOUS
    <3> QED BY <2>1, <3>1, <3>2, WrittenIsBoolean, Zenon
  <2>3. CASE seen' = [seen EXCEPT ![x] = SubjectOf[x] \in linked]
    <3>1. (SubjectOf[x] \in linked) \in BOOLEAN
      OBVIOUS
    <3> QED BY <2>1, <2>3, <3>1, WrittenIsBoolean, Zenon
  <2> QED BY <2>2, <2>3, Zenon DEF LookUpCustomer
<1>world. /\ UNCHANGED <<step, known, call, effects, answer, ledger, cache, linked, paid>>
          /\ faults' \in 0..MaxFaults
          /\ pc[x] = "idle" /\ pc' = [pc EXCEPT ![x] = "gathered"]
  BY FaultsAreBounded DEF LookUpCustomer, WritesInv, TypeOK, MayBegin, Go
<1>1. TypeOK'
  BY <1>seen, <1>world DEF WritesInv, TypeOK, Active
<1>2. CallsInOrder'
  BY <1>world DEF WritesInv, TypeOK, CallsInOrder, LooksGood
<1>3. RowsAreFinal'
  BY <1>world DEF WritesInv, TypeOK, RowsAreFinal, LooksGood
<1>4. AnswersStand'
  BY <1>world DEF WritesInv, TypeOK, AnswersStand, AnsweredIsOnLedger
<1> QED BY <1>1, <1>2, <1>3, <1>4 DEF WritesInv

LEMMA ReplayKeeps ==
    ASSUME WritesInv, NEW x \in Requests, Replay(x), UNCHANGED mode
    PROVE  WritesInv'
<1>mode. mode' = mode /\ Operation' = Operation /\ Steps' = Steps
  BY ModeStays
<1> USE <1>mode
<1> USE RequestsAssumption, StepsIsPositive
    DEF WritesInv, Replay, Go, Tell, Free, Insert, Place, NoRow, local, shared, Active
<1>1. TypeOK'
  BY FaultsAreBounded DEF TypeOK, CallsInOrder, LooksGood
<1>2. CallsInOrder'
  BY DEF TypeOK, CallsInOrder, LooksGood
<1>3. RowsAreFinal'
  BY DEF TypeOK, CallsInOrder, LooksGood, RowsAreFinal
<1>4. AnswersStand'
  BY DEF TypeOK, CallsInOrder, LooksGood, AnswersStand, AnsweredIsOnLedger
<1> QED BY <1>1, <1>2, <1>3, <1>4

LEMMA FindNothingKeeps ==
    ASSUME WritesInv, NEW x \in Requests, FindNothing(x), UNCHANGED mode
    PROVE  WritesInv'
<1>mode. mode' = mode /\ Operation' = Operation /\ Steps' = Steps
  BY ModeStays
<1> USE <1>mode
<1> USE RequestsAssumption, StepsIsPositive
    DEF WritesInv, FindNothing, Go, Tell, Free, Insert, Place, NoRow, local, shared, Active
<1>1. TypeOK'
  BY FaultsAreBounded DEF TypeOK, CallsInOrder, LooksGood
<1>2. CallsInOrder'
  BY DEF TypeOK, CallsInOrder, LooksGood
<1>3. RowsAreFinal'
  BY DEF TypeOK, CallsInOrder, LooksGood, RowsAreFinal
<1>4. AnswersStand'
  BY DEF TypeOK, CallsInOrder, LooksGood, AnswersStand, AnsweredIsOnLedger
<1> QED BY <1>1, <1>2, <1>3, <1>4

LEMMA BlockKeeps ==
    ASSUME WritesInv, NEW x \in Requests, Block(x), UNCHANGED mode
    PROVE  WritesInv'
<1>mode. mode' = mode /\ Operation' = Operation /\ Steps' = Steps
  BY ModeStays
<1> USE <1>mode
<1>world. /\ UNCHANGED <<seen, step, known, call, effects, cache, linked, paid>>
          /\ faults' \in 0..MaxFaults
  BY FaultsAreBounded DEF Block, WritesInv, TypeOK
<1>before. pc[x] = "asked"
  BY DEF Block
<1>ends. PICK where \in {"done"}, told \in {"nothing", "blocked", "error"} :
             /\ pc' = [pc EXCEPT ![x] = where] /\ answer' = [answer EXCEPT ![x] = told]
             /\ (where = "thrown" => told = "nothing")
             /\ \/ ledger' = ledger /\ told # "blocked"
                \/ Free(x) /\ Insert(x, "blocked", FALSE)
  <2>1. CASE Tell(x, "blocked") /\ Free(x) /\ Insert(x, "blocked", FALSE)
    BY <2>1 DEF Tell, Go
  <2>2. CASE Tell(x, "error") /\ (ledger' = ledger \/ (Free(x) /\ Insert(x, "blocked", FALSE)))
    BY <2>2 DEF Tell, Go
  <2> QED BY <2>1, <2>2, Zenon DEF Block
<1>ledger. /\ ledger' \in [Keys -> [status : {"none", "success", "blocked", "failed"},
                                    by : Requests \cup {Nobody}, named : BOOLEAN, step : 0..Steps]]
           /\ RowsAreFinal' /\ AnswersStand'
  BY <1>world, <1>before, <1>ends, RecordingKeeps
<1>1. TypeOK'
  BY <1>world, <1>ends, <1>ledger DEF WritesInv, TypeOK, Active
<1>2. CallsInOrder'
  BY <1>world, <1>before, <1>ends DEF WritesInv, TypeOK, CallsInOrder, LooksGood
<1> QED BY <1>1, <1>2, <1>ledger DEF WritesInv

LEMMA CallKeeps ==
    ASSUME WritesInv, NEW x \in Requests, Call(x), UNCHANGED mode
    PROVE  WritesInv'
<1>mode. mode' = mode /\ Operation' = Operation /\ Steps' = Steps
  BY ModeStays
<1> USE <1>mode
<1> USE RequestsAssumption, StepsIsPositive
    DEF WritesInv, Call, Go, Tell, Free, Insert, Place, NoRow, local, shared, Active
<1>1. TypeOK'
  BY FaultsAreBounded DEF TypeOK, CallsInOrder, LooksGood
<1>2. CallsInOrder'
  BY DEF TypeOK, CallsInOrder, LooksGood
<1>3. RowsAreFinal'
  BY DEF TypeOK, CallsInOrder, LooksGood, RowsAreFinal
<1>4. AnswersStand'
  BY DEF TypeOK, CallsInOrder, LooksGood, AnswersStand, AnsweredIsOnLedger
<1> QED BY <1>1, <1>2, <1>3, <1>4

LEMMA CarryOutKeeps ==
    ASSUME WritesInv, NEW x \in Requests, CarryOut(x), UNCHANGED mode
    PROVE  WritesInv'
<1>mode. mode' = mode /\ Operation' = Operation /\ Steps' = Steps
  BY ModeStays
<1> USE <1>mode
<1> USE RequestsAssumption, StepsIsPositive
    DEF WritesInv, CarryOut, Go, Tell, Free, Insert, Place, NoRow, local, shared, Active
<1>1. TypeOK'
  BY FaultsAreBounded DEF TypeOK, CallsInOrder, LooksGood
<1>2. CallsInOrder'
  BY DEF TypeOK, CallsInOrder, LooksGood
<1>3. RowsAreFinal'
  BY DEF TypeOK, CallsInOrder, LooksGood, RowsAreFinal
<1>4. AnswersStand'
  BY DEF TypeOK, CallsInOrder, LooksGood, AnswersStand, AnsweredIsOnLedger
<1> QED BY <1>1, <1>2, <1>3, <1>4

LEMMA RefuseKeeps ==
    ASSUME WritesInv, NEW x \in Requests, Refuse(x), UNCHANGED mode
    PROVE  WritesInv'
<1>mode. mode' = mode /\ Operation' = Operation /\ Steps' = Steps
  BY ModeStays
<1> USE <1>mode
<1> USE RequestsAssumption, StepsIsPositive
    DEF WritesInv, Refuse, Go, Tell, Free, Insert, Place, NoRow, local, shared, Active
<1>1. TypeOK'
  BY FaultsAreBounded DEF TypeOK, CallsInOrder, LooksGood
<1>2. CallsInOrder'
  BY DEF TypeOK, CallsInOrder, LooksGood
<1>3. RowsAreFinal'
  BY DEF TypeOK, CallsInOrder, LooksGood, RowsAreFinal
<1>4. AnswersStand'
  BY DEF TypeOK, CallsInOrder, LooksGood, AnswersStand, AnsweredIsOnLedger
<1> QED BY <1>1, <1>2, <1>3, <1>4

LEMMA HearKeeps ==
    ASSUME WritesInv, NEW x \in Requests, Hear(x), UNCHANGED mode
    PROVE  WritesInv'
<1>mode. mode' = mode /\ Operation' = Operation /\ Steps' = Steps
  BY ModeStays
<1> USE <1>mode
<1>known. known' \in [Requests -> BOOLEAN]
  BY WrittenIsBoolean DEF Hear, WritesInv, TypeOK
<1>world. /\ pc[x] = "calling" /\ LooksGood(x)
          /\ known' = [known EXCEPT ![x] = TRUE]
          /\ UNCHANGED <<seen, effects, answer, ledger, cache, linked, paid, faults>>
          /\ \/ /\ step[x] < Steps /\ UNCHANGED pc
                /\ step' = [step EXCEPT ![x] = step[x] + 1] /\ call' = [call EXCEPT ![x] = "flying"]
             \/ /\ ~(step[x] < Steps) /\ UNCHANGED <<step, call>>
                /\ pc' = [pc EXCEPT ![x] = "returned"]
  BY DEF Hear, Place, Go, shared
<1>before. /\ step[x] \in 1..Steps
           /\ \/ call[x] = "made" /\ effects[x] = step[x]
              \/ call[x] = "refused" /\ step[x] = Steps /\ effects[x] = step[x] - 1
  BY <1>world, StepsIsPositive DEF WritesInv, TypeOK, CallsInOrder, LooksGood, Steps
<1>1. TypeOK'
  BY <1>known, <1>world, <1>before, StepsIsPositive DEF WritesInv, TypeOK, Active
<1>2. CallsInOrder'
  BY <1>world, <1>before, StepsIsPositive DEF WritesInv, TypeOK, CallsInOrder, LooksGood
<1>3. RowsAreFinal'
  BY <1>world DEF WritesInv, TypeOK, RowsAreFinal, LooksGood
<1>4. AnswersStand'
  BY <1>world DEF WritesInv, TypeOK, AnswersStand, AnsweredIsOnLedger
<1> QED BY <1>1, <1>2, <1>3, <1>4 DEF WritesInv

LEMMA HearErrorKeeps ==
    ASSUME WritesInv, NEW x \in Requests, HearError(x), UNCHANGED mode
    PROVE  WritesInv'
<1>mode. mode' = mode /\ Operation' = Operation /\ Steps' = Steps
  BY ModeStays
<1> USE <1>mode
<1> USE RequestsAssumption, StepsIsPositive
    DEF WritesInv, HearError, Go, Tell, Free, Insert, Place, NoRow, local, shared, Active
<1>1. TypeOK'
  BY FaultsAreBounded DEF TypeOK, CallsInOrder, LooksGood
<1>2. CallsInOrder'
  BY DEF TypeOK, CallsInOrder, LooksGood
<1>3. RowsAreFinal'
  BY DEF TypeOK, CallsInOrder, LooksGood, RowsAreFinal
<1>4. AnswersStand'
  BY DEF TypeOK, CallsInOrder, LooksGood, AnswersStand, AnsweredIsOnLedger
<1> QED BY <1>1, <1>2, <1>3, <1>4

LEMMA LinkKeeps ==
    ASSUME WritesInv, NEW x \in Requests, Link(x), UNCHANGED mode
    PROVE  WritesInv'
<1>mode. mode' = mode /\ Operation' = Operation /\ Steps' = Steps
  BY ModeStays
<1> USE <1>mode
<1> USE RequestsAssumption, StepsIsPositive
    DEF WritesInv, Link, Go, Tell, Free, Insert, Place, NoRow, local, shared, Active
<1>faults. faults' \in 0..MaxFaults
  BY FaultsAreBounded DEF TypeOK
<1>linked. linked' \subseteq Subjects
  <2>1. SubjectOf[x] \in Subjects /\ linked \subseteq Subjects
    BY DEF TypeOK
  <2>2. linked' = linked \cup {SubjectOf[x]} \/ linked' = linked
    OBVIOUS
  <2> QED BY ONLY <2>1, <2>2
<1>1. TypeOK'
  BY FaultsAreBounded, <1>faults, <1>linked DEF TypeOK, CallsInOrder, LooksGood
<1>2. CallsInOrder'
  BY DEF TypeOK, CallsInOrder, LooksGood
<1>3. RowsAreFinal'
  BY DEF TypeOK, CallsInOrder, LooksGood, RowsAreFinal
<1>4. AnswersStand'
  BY DEF TypeOK, CallsInOrder, LooksGood, AnswersStand, AnsweredIsOnLedger
<1> QED BY <1>1, <1>2, <1>3, <1>4

LEMMA RecordSuccessKeeps ==
    ASSUME WritesInv, NEW x \in Requests, RecordSuccess(x), UNCHANGED mode
    PROVE  WritesInv'
<1>mode. mode' = mode /\ Operation' = Operation /\ Steps' = Steps
  BY ModeStays
<1> USE <1>mode
<1>world. /\ UNCHANGED <<seen, step, known, call, effects, cache, linked, paid>>
          /\ faults' \in 0..MaxFaults
  BY FaultsAreBounded DEF RecordSuccess, WritesInv, TypeOK
<1>before. /\ pc[x] \in {"returned", "linked"} /\ step[x] = Steps /\ LooksGood(x) /\ step[x] > 0
           /\ answer = [answer EXCEPT ![x] = "nothing"]
  BY StepsIsPositive DEF RecordSuccess, WritesInv, TypeOK, CallsInOrder, LooksGood, AnswersStand
<1>ends. PICK where \in {"thrown", "done"}, told \in {"nothing", "success", "error"} :
             /\ pc' = [pc EXCEPT ![x] = where] /\ answer' = [answer EXCEPT ![x] = told]
             /\ (where = "thrown" => told = "nothing")
             /\ \/ ledger' = ledger /\ told # "success"
                \/ Free(x) /\ Insert(x, "success", TRUE)
  <2>1. CASE Tell(x, "success") /\ Free(x) /\ Insert(x, "success", TRUE)
    BY <2>1 DEF Tell, Go
  <2>2. CASE Go(x, "thrown") /\ answer' = answer /\ (ledger' = ledger \/ (Free(x) /\ Insert(x, "success", TRUE)))
    BY <2>2, <1>before DEF Go
  <2> QED BY <2>1, <2>2, Zenon DEF RecordSuccess
<1>ledger. /\ ledger' \in [Keys -> [status : {"none", "success", "blocked", "failed"},
                                    by : Requests \cup {Nobody}, named : BOOLEAN, step : 0..Steps]]
           /\ RowsAreFinal' /\ AnswersStand'
  BY <1>world, <1>before, <1>ends, RecordingKeeps
<1>1. TypeOK'
  BY <1>world, <1>ends, <1>ledger DEF WritesInv, TypeOK, Active
<1>2. CallsInOrder'
  BY <1>world, <1>before, <1>ends DEF WritesInv, TypeOK, CallsInOrder, LooksGood
<1> QED BY <1>1, <1>2, <1>ledger DEF WritesInv

LEMMA RecordFailedKeeps ==
    ASSUME WritesInv, NEW x \in Requests, RecordFailed(x), UNCHANGED mode
    PROVE  WritesInv'
<1>mode. mode' = mode /\ Operation' = Operation /\ Steps' = Steps
  BY ModeStays
<1> USE <1>mode
<1>world. /\ UNCHANGED <<seen, step, known, call, effects, cache, linked, paid>>
          /\ faults' \in 0..MaxFaults
  BY FaultsAreBounded DEF RecordFailed, WritesInv, TypeOK
<1>before. pc[x] = "thrown" /\ step[x] > 0 /\ Names(x) \in BOOLEAN
  <2>1. pc[x] = "thrown" /\ step[x] > 0
    BY DEF RecordFailed, WritesInv, TypeOK, CallsInOrder, LooksGood
  <2>2. known[x] \in BOOLEAN
    BY DEF WritesInv, TypeOK
  <2>3. Names(x) \in BOOLEAN
    BY <2>2 DEF Names
  <2> QED BY <2>1, <2>3
<1>ends. PICK where \in {"thrown", "done"}, told \in {"nothing", "failed", "error"} :
             /\ pc' = [pc EXCEPT ![x] = where] /\ answer' = [answer EXCEPT ![x] = told]
             /\ (where = "thrown" => told = "nothing")
             /\ \/ ledger' = ledger /\ told # "failed"
                \/ Free(x) /\ Insert(x, "failed", Names(x))
  <2>1. CASE Tell(x, "failed") /\ Free(x) /\ Insert(x, "failed", Names(x))
    BY <2>1 DEF Tell, Go
  <2>2. CASE Tell(x, "error") /\ (ledger' = ledger \/ (Free(x) /\ Insert(x, "failed", Names(x))))
    BY <2>2 DEF Tell, Go
  <2> QED BY <2>1, <2>2, Zenon DEF RecordFailed
<1>ledger. /\ ledger' \in [Keys -> [status : {"none", "success", "blocked", "failed"},
                                    by : Requests \cup {Nobody}, named : BOOLEAN, step : 0..Steps]]
           /\ RowsAreFinal' /\ AnswersStand'
  BY <1>world, <1>before, <1>ends, RecordingKeeps
<1>1. TypeOK'
  BY <1>world, <1>ends, <1>ledger DEF WritesInv, TypeOK, Active
<1>2. CallsInOrder'
  BY <1>world, <1>before, <1>ends DEF WritesInv, TypeOK, CallsInOrder, LooksGood
<1> QED BY <1>1, <1>2, <1>ledger DEF WritesInv

LEMMA BreakKeeps ==
    ASSUME WritesInv, NEW x \in Requests, Break(x), UNCHANGED mode
    PROVE  WritesInv'
<1>mode. mode' = mode /\ Operation' = Operation /\ Steps' = Steps
  BY ModeStays
<1> USE <1>mode
<1> USE RequestsAssumption, StepsIsPositive
    DEF WritesInv, Break, Go, Tell, Free, Insert, Place, NoRow, local, shared, Active
<1>1. TypeOK'
  BY FaultsAreBounded DEF TypeOK, CallsInOrder, LooksGood
<1>2. CallsInOrder'
  BY DEF TypeOK, CallsInOrder, LooksGood
<1>3. RowsAreFinal'
  BY DEF TypeOK, CallsInOrder, LooksGood, RowsAreFinal
<1>4. AnswersStand'
  BY DEF TypeOK, CallsInOrder, LooksGood, AnswersStand, AnsweredIsOnLedger
<1> QED BY <1>1, <1>2, <1>3, <1>4

-----------------------------------------------------------------------------
LEMMA InitEstablishes == Init => WritesInv
BY StepsIsPositive, WritesBoundsAssumption, RequestsAssumption
   DEF Init, WritesInv, TypeOK, CallsInOrder, LooksGood, RowsAreFinal, AnswersStand, AnsweredIsOnLedger, NoRow, NoSnapshot, Active

LEMMA WorldKeeps ==
    ASSUME WritesInv, Expire \/ \E s \in Subjects : Settle(s), UNCHANGED mode
    PROVE  WritesInv'
<1>mode. mode' = mode /\ Operation' = Operation /\ Steps' = Steps
  BY ModeStays
<1> USE <1>mode
<1>world. UNCHANGED <<pc, seen, step, known, call, effects, answer, ledger, linked, faults>>
  BY DEF Expire, Settle, local
<1>cache. cache' \in [valid : BOOLEAN, partial : BOOLEAN, taken : SUBSET Subjects]
  <2>1. NoSnapshot \in [valid : BOOLEAN, partial : BOOLEAN, taken : SUBSET Subjects]
    BY DEF NoSnapshot
  <2>2. cache' = NoSnapshot \/ cache' = cache
    BY DEF Expire, Settle
  <2> QED BY <2>1, <2>2 DEF WritesInv, TypeOK
<1>paid. paid' \subseteq Subjects
  <2>1. paid' = paid \/ \E s \in Subjects : paid' = paid \cup {s}
    BY DEF Expire, Settle
  <2> QED BY <2>1 DEF WritesInv, TypeOK
<1>1. TypeOK'
  BY <1>world, <1>cache, <1>paid DEF WritesInv, TypeOK
<1>2. CallsInOrder' /\ RowsAreFinal' /\ AnswersStand'
  BY <1>world DEF WritesInv, CallsInOrder, LooksGood, RowsAreFinal, AnswersStand, AnsweredIsOnLedger
<1> QED BY <1>1, <1>2 DEF WritesInv

LEMMA StutterKeeps ==
    ASSUME WritesInv, UNCHANGED vars PROVE WritesInv'
<1>1. mode' = mode /\ Operation' = Operation /\ Steps' = Steps
  BY ModeStays DEF vars
<1> QED
  BY <1>1 DEF WritesInv, vars, local, shared, TypeOK, CallsInOrder, LooksGood, RowsAreFinal, AnswersStand, AnsweredIsOnLedger

LEMMA NextKeeps ==
    ASSUME WritesInv, Next PROVE WritesInv'
<1>mode. UNCHANGED mode
  BY DEF Next
<1> USE <1>mode
<1>1. CASE Expire \/ \E s \in Subjects : Settle(s)
  BY <1>1, WorldKeeps
<1>2. ASSUME NEW r \in Requests,
             \/ Gather(r) \/ LookUpCustomer(r) \/ Replay(r) \/ FindNothing(r) \/ Block(r) \/ Call(r)
             \/ CarryOut(r) \/ Refuse(r) \/ Hear(r) \/ HearError(r)
             \/ Link(r) \/ RecordSuccess(r) \/ RecordFailed(r) \/ Break(r)
      PROVE  WritesInv'
  BY <1>2, GatherKeeps, LookUpCustomerKeeps, ReplayKeeps, FindNothingKeeps, BlockKeeps, CallKeeps,
     CarryOutKeeps, RefuseKeeps, HearKeeps, HearErrorKeeps, LinkKeeps, RecordSuccessKeeps,
     RecordFailedKeeps, BreakKeeps
<1> QED BY <1>1, <1>2 DEF Next, Step

LEMMA WritesInvariance == Spec => []WritesInv
<1>1. WritesInv /\ [Next]_vars => WritesInv'
  BY NextKeeps, StutterKeeps
<1> QED BY InitEstablishes, <1>1, PTL DEF Spec

\* The step of a failed row says how far the IXC went, whatever the operation.
THEOREM FailureTellsHowFar == Spec => []LedgerTellsHowFar
<1>1. WritesInv => LedgerTellsHowFar
  BY StepsIsPositive DEF WritesInv, TypeOK, CallsInOrder, LooksGood, RowsAreFinal, LedgerTellsHowFar
<1> QED BY WritesInvariance, <1>1, PTL

\* A row that says success is of an operation the IXC carried out in full, for
\* the three operations that look for a refusal in the answer.
THEOREM SuccessIsTrue == Spec => []SuccessIsWhole
<1>1. WritesInv => SuccessIsWhole
  BY StepsIsPositive DEF WritesInv, TypeOK, CallsInOrder, RowsAreFinal, SuccessIsWhole, SuccessIsReal, LooksGood
<1> QED BY WritesInvariance, <1>1, PTL

\* No caller is told a decision the ledger does not hold.
THEOREM AnswersAreOnLedger == Spec => []AnsweredIsOnLedger
<1>1. WritesInv => AnsweredIsOnLedger
  BY DEF WritesInv, AnswersStand
<1> QED BY WritesInvariance, <1>1, PTL

-----------------------------------------------------------------------------
(* The renegotiation, whose progress names what it created. *)

LEMMA NamingKeeps ==
    ASSUME WritesInv, KnownIsNamed, [Next]_vars
    PROVE  KnownIsNamed'
<1>mode. Operation' = Operation
  BY ModeStays DEF Next, vars
<1>other. CASE Operation # "negotiation.register"
  BY <1>mode, <1>other DEF KnownIsNamed
<1>only. SUFFICES ASSUME Operation = "negotiation.register" PROVE KnownIsNamed'
  BY <1>other
<1> USE <1>mode, <1>only, RequestsAssumption DEF WritesInv, KnownIsNamed
<1>1. ASSUME NEW x \in Requests,
             \/ Gather(x) \/ LookUpCustomer(x) \/ FindNothing(x) \/ Call(x) \/ CarryOut(x)
             \/ Refuse(x) \/ Hear(x) \/ HearError(x) \/ Link(x) \/ Break(x)
      PROVE  KnownIsNamed'
  <2>1. CASE Gather(x)
    <3>1. known' = known /\ ledger' = ledger
      BY <2>1 DEF Gather
    <3>2. answer' = answer \/ answer' = [answer EXCEPT ![x] = "error"]
      BY <2>1 DEF Gather, LookAt, Tell
    <3> QED BY <3>1, <3>2 DEF TypeOK
  <2>2. CASE LookUpCustomer(x)
    BY <2>2 DEF LookUpCustomer
  <2>3. CASE Hear(x)
    <3>1. /\ known' = [known EXCEPT ![x] = TRUE] /\ answer' = answer /\ ledger' = ledger
          /\ answer[x] = "nothing"
      BY <2>3 DEF Hear, shared, AnswersStand
    <3> QED BY <3>1 DEF TypeOK
  <2>4. CASE FindNothing(x) \/ Call(x) \/ CarryOut(x) \/ Refuse(x) \/ HearError(x) \/ Link(x)
    BY <2>4 DEF FindNothing, Call, CarryOut, Refuse, HearError, Link, shared
  <2>5. CASE Break(x)
    BY <2>5 DEF Break, Tell, TypeOK
  <2> QED BY <1>1, <2>1, <2>2, <2>3, <2>4, <2>5
<1>2. ASSUME NEW x \in Requests, Replay(x) \/ Block(x) PROVE KnownIsNamed'
  BY <1>2 DEF Replay, Block, Free, Insert, Go, Tell, shared, TypeOK, CallsInOrder, LooksGood, AnswersStand, AnsweredIsOnLedger
<1>3. ASSUME NEW x \in Requests, RecordSuccess(x) \/ RecordFailed(x) PROVE KnownIsNamed'
  BY <1>3 DEF RecordSuccess, RecordFailed, Free, Insert, Names, Go, Tell, TypeOK, AnswersStand, AnsweredIsOnLedger
<1>4. ASSUME Expire \/ \E s \in Subjects : Settle(s) PROVE KnownIsNamed'
  BY <1>4 DEF Expire, Settle, local
<1>5. ASSUME UNCHANGED vars PROVE KnownIsNamed'
  BY <1>5 DEF vars, local, shared
<1> QED BY <1>1, <1>2, <1>3, <1>4, <1>5 DEF Next, Step

\* Whoever was told how a renegotiation ended finds what it created by its id.
THEOREM HalfwayIsTraceable == Spec => []KnownIsNamed
<1>1. Init => KnownIsNamed
  BY DEF Init, KnownIsNamed
<1>2. WritesInv /\ KnownIsNamed /\ [Next]_vars => KnownIsNamed'
  BY NamingKeeps
<1> QED BY WritesInvariance, <1>1, <1>2, PTL DEF Spec

\* What a caller heard is in the ledger, and what it left behind is named there.
THEOREM AnswersAreKept == Spec => []AnswersAreOnRecord
<1>1. KnownIsNamed /\ AnsweredIsOnLedger => AnswersAreOnRecord
  BY DEF AnswersAreOnRecord
<1> QED BY <1>1, HalfwayIsTraceable, AnswersAreOnLedger, PTL

-----------------------------------------------------------------------------
(* Requests that come one after another. *)

\* What the one request at work has read still holds when it acts on it: the key
\* had no row, the invoice no success, the lead no customer.
OneAtWork == \A r, q \in Requests : pc[r] \in Active /\ pc[q] \in Active => r = q
KeyStaysFree == \A r \in Requests : pc[r] = "asked" => Free(r)
StaysUnissued ==
    Operation = "invoice.reissue" =>
        \A r \in Requests : pc[r] \in {"calling", "returned"} => ~Reissued(SubjectOf[r])
StaysUnlinked ==
    Operation = "customer.create" =>
        \A r \in Requests : pc[r] \in {"gathered", "asked"} /\ ~seen[r] => SubjectOf[r] \notin linked

\* A request that called and is over has its row, unless it ended in an error.
CallsLeaveRows ==
    \A r \in Requests : pc[r] = "done" /\ step[r] > 0 /\ answer[r] # "error" => ~Free(r)

InTurn ==
    ~Overlap => OneAtWork /\ KeyStaysFree /\ StaysUnissued /\ StaysUnlinked /\ CallsLeaveRows
TurnsInv == InTurn /\ RepeatedIsReplayed /\ OneSuccess

\* A request begins: nobody else is at work, and it has not called.
LEMMA BeginningsKeepTurns ==
    ASSUME WritesInv, TurnsInv, ~Overlap, NEW x \in Requests, Gather(x) \/ LookUpCustomer(x), UNCHANGED mode
    PROVE  TurnsInv'
<1>mode. Operation' = Operation /\ Overlap' = Overlap
  BY DEF Operation, Overlap
<1>types. /\ pc \in [Requests -> Active \cup {"idle", "done"}]
          /\ answer \in [Requests -> {"nothing", "success", "blocked", "failed", "error"}]
          /\ seen \in [Requests -> BOOLEAN] /\ step[x] = 0
  BY DEF WritesInv, TypeOK, CallsInOrder, Gather, LookUpCustomer, MayBegin
<1>begin. /\ pc[x] = "idle" /\ \A q \in Requests : pc[q] \notin Active
          /\ UNCHANGED <<step, ledger, linked>>
          /\ \/ pc' = [pc EXCEPT ![x] = "gathered"] /\ answer' = answer
             \/ pc' = [pc EXCEPT ![x] = "done"] /\ answer' = [answer EXCEPT ![x] = "error"]
  BY DEF Gather, LookUpCustomer, LookAt, MayBegin, Tell, Go
<1>1. OneAtWork' /\ KeyStaysFree'
  BY <1>types, <1>begin DEF OneAtWork, KeyStaysFree, Active
<1>2. StaysUnissued' /\ CallsLeaveRows'
  BY <1>mode, <1>types, <1>begin DEF TurnsInv, InTurn, StaysUnissued, CallsLeaveRows, Reissued, Free, Active
<1>3. StaysUnlinked'
  <2> SUFFICES ASSUME Operation = "customer.create" PROVE StaysUnlinked'
    BY <1>mode DEF StaysUnlinked
  <2>1. LookUpCustomer(x)
    BY DEF Gather
  <2>2. seen'[x] \/ SubjectOf[x] \notin linked
    <3>1. CASE \E shown \in MayShow : seen' = [seen EXCEPT ![x] = SubjectOf[x] \in shown \cup linked]
      <4>1. PICK shown \in MayShow : seen' = [seen EXCEPT ![x] = SubjectOf[x] \in shown \cup linked]
        BY <3>1
      <4> QED BY <4>1, <1>types, Zenon
    <3>2. CASE seen' = [seen EXCEPT ![x] = SubjectOf[x] \in linked]
      BY <3>2, <1>types, Zenon
    <3> QED BY <2>1, <3>1, <3>2, Zenon DEF LookUpCustomer
  <2>3. \A r \in Requests : pc'[r] \in {"gathered", "asked"} => r = x
    BY <1>types, <1>begin DEF Active
  <2> QED BY <2>2, <2>3, <1>begin DEF StaysUnlinked
<1>4. RepeatedIsReplayed'
  BY <1>mode, <1>types, <1>begin DEF TurnsInv, RepeatedIsReplayed
<1>5. OneSuccess'
  BY <1>mode, <1>begin DEF TurnsInv, OneSuccess
<1> QED BY <1>1, <1>2, <1>3, <1>4, <1>5 DEF TurnsInv, InTurn

\* The steps that insert no row, the call itself among them.
LEMMA ProgressKeepsTurns ==
    ASSUME WritesInv, TurnsInv, ~Overlap, NEW x \in Requests, UNCHANGED mode,
           \/ Replay(x) \/ FindNothing(x) \/ Call(x) \/ CarryOut(x) \/ Refuse(x) \/ Hear(x)
           \/ HearError(x) \/ Link(x) \/ Break(x)
    PROVE  TurnsInv'
<1>mode. Operation' = Operation /\ Overlap' = Overlap
  BY DEF Operation, Overlap
<1>types. /\ pc \in [Requests -> Active \cup {"idle", "done"}]
          /\ answer \in [Requests -> {"nothing", "success", "blocked", "failed", "error"}]
          /\ step \in [Requests -> Nat]
  BY StepsIsPositive DEF WritesInv, TypeOK
<1>still. seen' = seen /\ ledger' = ledger
  BY DEF Replay, FindNothing, Call, CarryOut, Refuse, Hear, HearError, Link, Break, shared, Tell, Go
<1>others. \A r \in Requests \ {x} : pc'[r] = pc[r] /\ answer'[r] = answer[r] /\ step'[r] = step[r]
  BY <1>types DEF Replay, FindNothing, Call, CarryOut, Refuse, Hear, HearError, Link, Break, shared, Tell, Go, Place
<1>self. \/ pc'[x] = pc[x]
         \/ pc[x] \in Active /\ pc'[x] \in Active \cup {"done"}
  BY <1>types DEF Replay, FindNothing, Call, CarryOut, Refuse, Hear, HearError, Link, Break, Tell, Go, Active
<1>1. OneAtWork'
  BY <1>types, <1>others, <1>self DEF TurnsInv, InTurn, OneAtWork
<1>2. KeyStaysFree'
  <2>1. pc'[x] = "asked" => pc[x] = "asked" \/ Free(x)
    BY <1>types DEF Replay, FindNothing, Call, CarryOut, Refuse, Hear, HearError, Link, Break, Tell, Go
  <2> QED BY <2>1, <1>others, <1>still DEF TurnsInv, InTurn, KeyStaysFree, Free
<1>3. StaysUnissued'
  <2>1. Operation = "invoice.reissue" /\ pc'[x] \in {"calling", "returned"} =>
            pc[x] \in {"calling", "returned"} \/ ~Reissued(SubjectOf[x])
    BY <1>types DEF Replay, FindNothing, Call, CarryOut, Refuse, Hear, HearError, Link, Break, Tell, Go, Allowed
  <2> QED BY <2>1, <1>mode, <1>others, <1>still DEF TurnsInv, InTurn, StaysUnissued, Reissued
<1>4. StaysUnlinked'
  <2>1. pc'[x] \in {"gathered", "asked"} => pc[x] \in {"gathered", "asked"} /\ linked' = linked
    BY <1>types DEF Replay, FindNothing, Call, CarryOut, Refuse, Hear, HearError, Link, Break, Tell, Go, shared
  <2>2. linked' = linked \/ pc[x] = "returned"
    BY DEF Replay, FindNothing, Call, CarryOut, Refuse, Hear, HearError, Link, Break, shared
  <2>3. pc[x] = "returned" => \A r \in Requests : pc'[r] \notin {"gathered", "asked"}
    BY <1>types, <1>others, <2>1 DEF TurnsInv, InTurn, OneAtWork, Active
  <2> QED BY <2>1, <2>2, <2>3, <1>mode, <1>others, <1>still DEF TurnsInv, InTurn, StaysUnlinked
<1>5. CallsLeaveRows'
  <2>1. pc'[x] = "done" /\ answer'[x] # "error" => step'[x] = 0 \/ (pc[x] = "done" /\ step'[x] = step[x] /\ answer'[x] = answer[x])
    BY <1>types DEF Replay, FindNothing, Call, CarryOut, Refuse, Hear, HearError, Link, Break, Tell, Go, Place, WritesInv, CallsInOrder
  <2> QED BY <2>1, <1>types, <1>others, <1>still DEF TurnsInv, InTurn, CallsLeaveRows, Free
<1>6. RepeatedIsReplayed'
  <2>1. CASE Call(x)
    <3>1. /\ pc[x] = "asked" /\ Free(x) /\ answer' = answer
      BY <2>1 DEF Call, TurnsInv, InTurn, KeyStaysFree, shared
    <3>2. ASSUME NEW r \in Requests, r # x, step[r] > 0, answer[r] # "error" PROVE KeyOf[r] # KeyOf[x]
      <4>1. pc[r] \notin Active
        BY <3>1, <3>2 DEF TurnsInv, InTurn, OneAtWork, Active
      <4>2. pc[r] # "idle"
        BY <3>2 DEF WritesInv, CallsInOrder
      <4>3. ~Free(r)
        BY <3>2, <4>1, <4>2, <1>types DEF TurnsInv, InTurn, CallsLeaveRows
      <4> QED BY <3>1, <4>3 DEF Free
    <3> QED BY <3>1, <3>2, <1>others, <1>types DEF RepeatedIsReplayed, TurnsInv
  <2>2. CASE ~Call(x)
    <3>1. step'[x] > 0 => step[x] > 0
      BY <2>2, <1>types DEF Replay, FindNothing, CarryOut, Refuse, Hear, HearError, Link, Break, Place, WritesInv, CallsInOrder
    <3>2. answer'[x] # "error" => answer[x] # "error"
      BY <1>types DEF Replay, FindNothing, Call, CarryOut, Refuse, Hear, HearError, Link, Break, Tell, Go, WritesInv, AnswersStand
    <3> QED BY <3>1, <3>2, <1>mode, <1>others DEF RepeatedIsReplayed, TurnsInv
  <2> QED BY <2>1, <2>2
<1>7. OneSuccess'
  BY <1>mode, <1>still DEF TurnsInv, OneSuccess
<1> QED BY <1>1, <1>2, <1>3, <1>4, <1>5, <1>6, <1>7 DEF TurnsInv, InTurn

\* The steps that insert a row, or fail to: nobody else is at work.
LEMMA RecordsKeepTurns ==
    ASSUME WritesInv, AnswersStand', TurnsInv, ~Overlap, NEW x \in Requests, UNCHANGED mode,
           Block(x) \/ RecordSuccess(x) \/ RecordFailed(x)
    PROVE  TurnsInv'
<1>mode. Operation' = Operation /\ Overlap' = Overlap
  BY DEF Operation, Overlap
<1>types. /\ pc \in [Requests -> Active \cup {"idle", "done"}]
          /\ answer \in [Requests -> {"nothing", "success", "blocked", "failed", "error"}]
          /\ step \in [Requests -> Nat]
  BY StepsIsPositive DEF WritesInv, TypeOK
<1>still. seen' = seen /\ linked' = linked /\ step' = step
  BY DEF Block, RecordSuccess, RecordFailed
<1>self. /\ pc[x] \in Active /\ answer[x] = "nothing"
         /\ \/ pc' = [pc EXCEPT ![x] = "thrown"] /\ answer' = answer
            \/ \E told \in {"success", "blocked", "failed", "error"} :
                  pc' = [pc EXCEPT ![x] = "done"] /\ answer' = [answer EXCEPT ![x] = told]
  BY DEF Block, RecordSuccess, RecordFailed, Tell, Go, Active, WritesInv, AnswersStand
<1>others. /\ \A r \in Requests \ {x} : pc'[r] = pc[r] /\ answer'[r] = answer[r] /\ pc[r] \notin Active
           /\ pc'[x] \in {"thrown", "done"}
  BY <1>types, <1>self DEF TurnsInv, InTurn, OneAtWork
<1>row. /\ \A k \in Keys \ {KeyOf[x]} : ledger'[k] = ledger[k]
        /\ \/ ledger' = ledger
           \/ /\ Free(x)
              /\ ledger'[KeyOf[x]].by = x
              /\ ledger'[KeyOf[x]].status \in {"success", "blocked", "failed"}
              /\ ledger'[KeyOf[x]].status = "success" => (Operation = "invoice.reissue" => pc[x] = "returned")
  <2>1. \/ ledger' = ledger
        \/ Free(x) /\ Insert(x, "blocked", FALSE)
        \/ Free(x) /\ Insert(x, "success", TRUE) /\ (Operation = "invoice.reissue" => pc[x] = "returned")
        \/ Free(x) /\ Insert(x, "failed", Names(x))
    BY DEF Block, RecordSuccess, RecordFailed
  <2>2. Names(x) \in BOOLEAN
    BY DEF Names, WritesInv, TypeOK
  <2>3. CASE ledger' = ledger
    BY <2>3
  <2>4. CASE Free(x) /\ Insert(x, "blocked", FALSE)
    BY <2>4, InsertTouchesOne, RequestsAssumption DEF WritesInv
  <2>5. CASE Free(x) /\ Insert(x, "success", TRUE) /\ (Operation = "invoice.reissue" => pc[x] = "returned")
    BY <2>5, InsertTouchesOne, RequestsAssumption DEF WritesInv
  <2>6. CASE Free(x) /\ Insert(x, "failed", Names(x))
    BY <2>2, <2>6, InsertTouchesOne, RequestsAssumption DEF WritesInv
  <2> QED BY <2>1, <2>3, <2>4, <2>5, <2>6
<1>keys. KeyOf \in [Requests -> Keys]
  BY RequestsAssumption
<1>1. OneAtWork' /\ KeyStaysFree' /\ StaysUnissued' /\ StaysUnlinked'
  BY <1>others DEF OneAtWork, KeyStaysFree, StaysUnissued, StaysUnlinked, Active
<1>2. CallsLeaveRows'
  <2>1. \A r \in Requests : ~Free(r) => ~Free(r)'
    BY <1>row, <1>keys DEF Free
  <2>2. pc'[x] = "done" /\ answer'[x] # "error" => ~Free(x)'
    <3> SUFFICES ASSUME pc'[x] = "done", answer'[x] # "error" PROVE ~Free(x)'
      OBVIOUS
    <3>1. answer'[x] \in {"success", "blocked", "failed"}
      BY <1>types, <1>self
    <3> QED BY <3>1 DEF AnswersStand, AnsweredIsOnLedger, Free
  <2> QED BY <2>1, <2>2, <1>others, <1>still DEF TurnsInv, InTurn, CallsLeaveRows
<1>3. RepeatedIsReplayed'
  BY <1>mode, <1>self, <1>others, <1>still DEF TurnsInv, RepeatedIsReplayed
<1>4. OneSuccess'
  <2> SUFFICES ASSUME Operation = "invoice.reissue", NEW j \in Keys, NEW k \in Keys,
                      ledger'[j].status = "success", ledger'[k].status = "success",
                      SubjectOf[ledger'[j].by] = SubjectOf[ledger'[k].by], j # k
               PROVE  FALSE
    BY <1>mode DEF OneSuccess
  <2>1. CASE ledger' = ledger
    BY <2>1 DEF TurnsInv, OneSuccess
  <2>2. CASE j # KeyOf[x] /\ k # KeyOf[x]
    BY <2>2, <1>row DEF TurnsInv, OneSuccess
  <2>3. ASSUME ledger' # ledger, NEW i \in {j, k}, NEW h \in {j, k}, i = KeyOf[x], h # i PROVE FALSE
    <3>1. pc[x] = "returned" /\ ledger'[i].by = x
      BY <2>3, <1>row
    <3>2. ledger[h].status = "success" /\ SubjectOf[ledger[h].by] = SubjectOf[x]
      BY <2>3, <3>1, <1>row
    <3> QED BY <3>1, <3>2 DEF TurnsInv, InTurn, StaysUnissued, Reissued
  <2> QED BY <2>1, <2>2, <2>3
<1> QED BY <1>1, <1>2, <1>3, <1>4 DEF TurnsInv, InTurn

LEMMA WorldKeepsTurns ==
    ASSUME WritesInv, TurnsInv, ~Overlap,
           ((Expire \/ \E s \in Subjects : Settle(s)) /\ UNCHANGED mode) \/ UNCHANGED vars
    PROVE  TurnsInv'
<1>1. UNCHANGED <<mode, pc, seen, step, answer, ledger, linked>>
  BY DEF Expire, Settle, local, shared, vars
<1>2. Operation' = Operation /\ Overlap' = Overlap
  BY <1>1 DEF Operation, Overlap
<1>3. InTurn'
  BY <1>1, <1>2 DEF TurnsInv, InTurn, OneAtWork, KeyStaysFree, StaysUnissued, StaysUnlinked,
        CallsLeaveRows, Reissued, Free
<1>4. RepeatedIsReplayed' /\ OneSuccess'
  BY <1>1, <1>2 DEF TurnsInv, RepeatedIsReplayed, OneSuccess
<1> QED BY <1>3, <1>4 DEF TurnsInv

LEMMA TurnsInvariance == Spec => []TurnsInv
<1>1. Init => TurnsInv
  BY DEF Init, TurnsInv, InTurn, OneAtWork, KeyStaysFree, StaysUnissued, StaysUnlinked, CallsLeaveRows,
         RepeatedIsReplayed, OneSuccess, NoRow, Active
<1>2. ASSUME WritesInv, WritesInv', TurnsInv, [Next]_vars PROVE TurnsInv'
  <2>1. CASE Overlap
    <3>1. Overlap'
      BY <1>2, <2>1 DEF Overlap, Next, vars
    <3> QED BY <3>1 DEF TurnsInv, InTurn, RepeatedIsReplayed, OneSuccess
  <2>2. ASSUME ~Overlap, NEW x \in Requests, UNCHANGED mode,
               \/ Gather(x) \/ LookUpCustomer(x) \/ Replay(x) \/ FindNothing(x) \/ Block(x) \/ Call(x)
               \/ CarryOut(x) \/ Refuse(x) \/ Hear(x) \/ HearError(x)
               \/ Link(x) \/ RecordSuccess(x) \/ RecordFailed(x) \/ Break(x)
        PROVE  TurnsInv'
    BY <1>2, <2>2, BeginningsKeepTurns, ProgressKeepsTurns, RecordsKeepTurns DEF WritesInv
  <2>3. CASE ~Overlap /\ (((Expire \/ \E s \in Subjects : Settle(s)) /\ UNCHANGED mode) \/ UNCHANGED vars)
    BY <1>2, <2>3, WorldKeepsTurns
  <2> QED BY <1>2, <2>1, <2>2, <2>3 DEF Next, Step
<1> QED BY WritesInvariance, <1>1, <1>2, PTL DEF Spec

\* Only the call takes a request from no step to its first.
LEMMA FirstStepIsCall ==
    ASSUME WritesInv, [Next]_vars, NEW r \in Requests, step[r] = 0, step'[r] = 1
    PROVE  Call(r)
<1>1. ASSUME NEW x \in Requests, Gather(x) \/ LookUpCustomer(x) \/ Replay(x) \/ FindNothing(x) \/ Block(x)
                                 \/ CarryOut(x) \/ Refuse(x) \/ HearError(x)
                                 \/ Link(x) \/ RecordSuccess(x) \/ RecordFailed(x) \/ Break(x)
      PROVE  FALSE
  <2>1. step' = step
    BY <1>1, Zenon DEF Gather, LookUpCustomer, Replay, FindNothing, Block, CarryOut, Refuse, HearError, Link,
       RecordSuccess, RecordFailed, Break
  <2> QED BY <2>1
<1>2. ASSUME NEW x \in Requests, Hear(x) PROVE FALSE
  <2>1. step[x] > 0
    BY <1>2 DEF Hear, WritesInv, CallsInOrder
  <2>2. step'[r] = step[r] \/ r = x
    BY <1>2 DEF Hear, Place, WritesInv, TypeOK
  <2> QED BY <2>1, <2>2
<1>3. ASSUME NEW x \in Requests, Call(x) PROVE x = r
  BY <1>3 DEF Call, Place, WritesInv, TypeOK
<1>4. ~(Expire \/ \E s \in Subjects : Settle(s)) /\ ~UNCHANGED vars
  BY DEF Expire, Settle, local, vars
<1> QED BY <1>1, <1>2, <1>3, <1>4 DEF Next, Step

\* Whatever repeats a request that came before does no harm: not the same key, not the
\* same invoice, not the lead that has its customer.
THEOREM RepeatsDoNoHarm == Spec => RepeatsAreHarmless
<1>1. TurnsInv => RepeatedIsReplayed /\ OneSuccess
  BY DEF TurnsInv
<1>2. ASSUME WritesInv, TurnsInv, [Next]_vars PROVE CallsUnlinked
  <2> SUFFICES ASSUME Operation = "customer.create", ~Overlap,
                      NEW r \in Requests, step[r] = 0, step'[r] = 1
               PROVE  SubjectOf[r] \notin linked
    BY DEF CallsUnlinked
  <2>1. pc[r] = "asked" /\ ~seen[r]
    BY <1>2, FirstStepIsCall DEF Call, Allowed
  <2> QED BY <1>2, <2>1 DEF TurnsInv, InTurn, StaysUnlinked
<1>3. Spec => [][CallsUnlinked]_vars
  <2>1. WritesInv /\ TurnsInv /\ [Next]_vars => [CallsUnlinked]_vars
    BY <1>2
  <2> QED BY WritesInvariance, TurnsInvariance, <2>1, PTL DEF Spec
<1> QED BY TurnsInvariance, <1>1, <1>3, PTL DEF RepeatsAreHarmless, LinkedIsFinal
=============================================================================
