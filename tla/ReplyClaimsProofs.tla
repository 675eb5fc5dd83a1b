-------------------------- MODULE ReplyClaimsProofs ---------------------------
(***************************************************************************)
(* What TLAPS proves of ReplyClaims for any number of attempts and keys,   *)
(* any failure but a refusal of Meta hiding an accepted text.              *)
(***************************************************************************)
EXTENDS ReplyClaims, TLAPS

\* At most one attempt holds the reservation of a key; while it does the row
\* is pending and nothing of the key is out but what the holder sent and what
\* was disowned.
Holders ==
    /\ \A a, b \in Attempts :
          pc[a] \in Holding /\ pc[b] \in Holding /\ KeyOf[a] = KeyOf[b] => a = b
    /\ \A a \in Attempts : pc[a] \in Holding => claim[KeyOf[a]].status = "pending"
    /\ \A a, b \in Attempts :
          pc[a] \in Holding /\ Out(b) /\ KeyOf[a] = KeyOf[b] => a = b \/ Disowned(b)

\* Where an attempt is says what became of its request and of its answer.
Places ==
    \A a \in Attempts :
        /\ pc[a] \in {"idle", "asked", "holding"} => wire[a] = "idle"
        /\ pc[a] = "accepted" => wire[a] = "accepted"
        /\ pc[a] \notin {"failed", "done"} => failure[a] = "none"
        /\ pc[a] = "failed" /\ failure[a] # "timeout" /\ Out(a) => Disowned(a)
        /\ pc[a] # "done" => answer[a].told = "nothing"
        /\ answer[a].told # "sent" => answer[a].text = NoAttempt

TextsOut == AtMostOnce /\ FreeMeansNothingOut

\* A row that says sent names a text of its key that Meta accepted.
SentIsReal ==
    \A k \in Keys : claim[k].status = "sent" =>
        /\ claim[k].text \in Attempts
        /\ wire[claim[k].text] = "accepted"
        /\ KeyOf[claim[k].text] = k

\* ToldTheTruth needs to know that the named text is an attempt at all.
Words ==
    /\ SentIsReal
    /\ ToldTheTruth
    /\ \A a \in Attempts : answer[a].told = "sent" => answer[a].text \in Attempts
    /\ FailedMeansNotSent

\* The inductive invariant.
ClaimInv == ClaimTypeOK /\ Holders /\ Places /\ TextsOut /\ Words

-----------------------------------------------------------------------------
(* Every action keeps the inductive invariant: one lemma per action, one    *)
(* step per group of conjuncts.                                             *)

LEMMA FindSentKeeps ==
    ASSUME ClaimInv, NEW x \in Attempts, FindSent(x)
    PROVE  ClaimInv'
<1> USE KeysAssumption, NoAttemptAssumption, KindsOfFailure
    DEF ClaimInv, FindSent, Finish, Said, SaidSent, NoClaim, Pending, Unknown, SentBy, Begun, Holding, Out, Disowned
<1>alone. claim[KeyOf[x]].text \in Attempts /\ wire[claim[KeyOf[x]].text] = "accepted"
        /\ KeyOf[claim[KeyOf[x]].text] = KeyOf[x]
  BY DEF ClaimTypeOK, Words, SentIsReal
<1>1. ClaimTypeOK'
  BY DEF ClaimTypeOK, ClaimStates, Answers
<1>2. Holders'
  BY DEF ClaimTypeOK, ClaimStates, Holders, Places, TextsOut, FreeMeansNothingOut
<1>3. Places'
  BY DEF ClaimTypeOK, ClaimStates, Places, Holders
<1>4. TextsOut'
  BY DEF ClaimTypeOK, ClaimStates, TextsOut, AtMostOnce, FreeMeansNothingOut, Places, Holders
<1>5. Words'
  BY <1>alone DEF ClaimTypeOK, ClaimStates, Words, SentIsReal, ToldTheTruth, FailedMeansNotSent, Places, Holders
<1> QED BY <1>1, <1>2, <1>3, <1>4, <1>5 DEF ClaimInv

LEMMA FindUnsettledKeeps ==
    ASSUME ClaimInv, NEW x \in Attempts, FindUnsettled(x)
    PROVE  ClaimInv'
<1> USE KeysAssumption, NoAttemptAssumption, KindsOfFailure
    DEF ClaimInv, FindUnsettled, Finish, Said, SaidSent, NoClaim, Pending, Unknown, SentBy, Begun, Holding, Out, Disowned
<1>1. ClaimTypeOK'
  BY DEF ClaimTypeOK, ClaimStates, Answers
<1>2. Holders'
  BY DEF ClaimTypeOK, ClaimStates, Holders, Places, TextsOut, FreeMeansNothingOut
<1>3. Places'
  BY DEF ClaimTypeOK, ClaimStates, Places, Holders
<1>4. TextsOut'
  BY DEF ClaimTypeOK, ClaimStates, TextsOut, AtMostOnce, FreeMeansNothingOut, Places, Holders
<1>5. Words'
  BY DEF ClaimTypeOK, ClaimStates, Words, SentIsReal, ToldTheTruth, FailedMeansNotSent, Places, Holders
<1> QED BY <1>1, <1>2, <1>3, <1>4, <1>5 DEF ClaimInv

LEMMA FindNothingKeeps ==
    ASSUME ClaimInv, NEW x \in Attempts, FindNothing(x)
    PROVE  ClaimInv'
<1> USE KeysAssumption, NoAttemptAssumption, KindsOfFailure
    DEF ClaimInv, FindNothing, Finish, Said, SaidSent, NoClaim, Pending, Unknown, SentBy, Begun, Holding, Out, Disowned
<1>1. ClaimTypeOK'
  BY DEF ClaimTypeOK, ClaimStates, Answers
<1>2. Holders'
  BY DEF ClaimTypeOK, ClaimStates, Holders, Places, TextsOut, FreeMeansNothingOut
<1>3. Places'
  BY DEF ClaimTypeOK, ClaimStates, Places, Holders
<1>4. TextsOut'
  BY DEF ClaimTypeOK, ClaimStates, TextsOut, AtMostOnce, FreeMeansNothingOut, Places, Holders
<1>5. Words'
  BY DEF ClaimTypeOK, ClaimStates, Words, SentIsReal, ToldTheTruth, FailedMeansNotSent, Places, Holders
<1> QED BY <1>1, <1>2, <1>3, <1>4, <1>5 DEF ClaimInv

LEMMA PolicyBlocksKeeps ==
    ASSUME ClaimInv, NEW x \in Attempts, PolicyBlocks(x)
    PROVE  ClaimInv'
<1> USE KeysAssumption, NoAttemptAssumption, KindsOfFailure
    DEF ClaimInv, PolicyBlocks, Finish, Said, SaidSent, NoClaim, Pending, Unknown, SentBy, Begun, Holding, Out, Disowned
<1>1. ClaimTypeOK'
  BY DEF ClaimTypeOK, ClaimStates, Answers
<1>2. Holders'
  BY DEF ClaimTypeOK, ClaimStates, Holders, Places, TextsOut, FreeMeansNothingOut
<1>3. Places'
  BY DEF ClaimTypeOK, ClaimStates, Places, Holders
<1>4. TextsOut'
  BY DEF ClaimTypeOK, ClaimStates, TextsOut, AtMostOnce, FreeMeansNothingOut, Places, Holders
<1>5. Words'
  BY DEF ClaimTypeOK, ClaimStates, Words, SentIsReal, ToldTheTruth, FailedMeansNotSent, Places, Holders
<1> QED BY <1>1, <1>2, <1>3, <1>4, <1>5 DEF ClaimInv

LEMMA ReserveKeeps ==
    ASSUME ClaimInv, NEW x \in Attempts, Reserve(x)
    PROVE  ClaimInv'
<1> USE KeysAssumption, NoAttemptAssumption, KindsOfFailure
    DEF ClaimInv, Reserve, Finish, Said, SaidSent, NoClaim, Pending, Unknown, SentBy, Begun, Holding, Out, Disowned
<1>alone. \A a \in Attempts : KeyOf[a] = KeyOf[x] => pc[a] \notin Holding /\ (Out(a) => Disowned(a))
  BY DEF Holders, TextsOut, FreeMeansNothingOut
<1>other. \A k \in Keys : k # KeyOf[x] => claim'[k] = claim[k]
  BY DEF ClaimTypeOK
<1>row. claim'[KeyOf[x]].status = "pending"
  BY DEF ClaimTypeOK
<1>1. ClaimTypeOK'
  BY DEF ClaimTypeOK, ClaimStates, Answers
<1>2. Holders'
  BY <1>alone, <1>other, <1>row DEF ClaimTypeOK, ClaimStates, Holders, Places, TextsOut, FreeMeansNothingOut
<1>3. Places'
  BY DEF ClaimTypeOK, ClaimStates, Places, Holders
<1>4. TextsOut'
  BY <1>alone, <1>other, <1>row DEF ClaimTypeOK, ClaimStates, TextsOut, AtMostOnce, FreeMeansNothingOut, Places, Holders
<1>5. Words'
  BY DEF ClaimTypeOK, ClaimStates, Words, SentIsReal, ToldTheTruth, FailedMeansNotSent, Places, Holders
<1> QED BY <1>1, <1>2, <1>3, <1>4, <1>5 DEF ClaimInv

LEMMA LoseRaceKeeps ==
    ASSUME ClaimInv, NEW x \in Attempts, LoseRace(x)
    PROVE  ClaimInv'
<1> USE KeysAssumption, NoAttemptAssumption, KindsOfFailure
    DEF ClaimInv, LoseRace, Finish, Said, SaidSent, NoClaim, Pending, Unknown, SentBy, Begun, Holding, Out, Disowned
<1>1. ClaimTypeOK'
  BY DEF ClaimTypeOK, ClaimStates, Answers
<1>2. Holders'
  BY DEF ClaimTypeOK, ClaimStates, Holders, Places, TextsOut, FreeMeansNothingOut
<1>3. Places'
  BY DEF ClaimTypeOK, ClaimStates, Places, Holders
<1>4. TextsOut'
  BY DEF ClaimTypeOK, ClaimStates, TextsOut, AtMostOnce, FreeMeansNothingOut, Places, Holders
<1>5. Words'
  BY DEF ClaimTypeOK, ClaimStates, Words, SentIsReal, ToldTheTruth, FailedMeansNotSent, Places, Holders
<1> QED BY <1>1, <1>2, <1>3, <1>4, <1>5 DEF ClaimInv

LEMMA ReserveFailsKeeps ==
    ASSUME ClaimInv, NEW x \in Attempts, ReserveFails(x)
    PROVE  ClaimInv'
<1> USE KeysAssumption, NoAttemptAssumption, KindsOfFailure
    DEF ClaimInv, ReserveFails, Finish, Said, SaidSent, NoClaim, Pending, Unknown, SentBy, Begun, Holding, Out, Disowned
<1>pc. pc'[x] = "done" /\ \A a \in Attempts : a # x => pc'[a] = pc[a]
  BY DEF ClaimTypeOK
<1>other. \A k \in Keys : k # KeyOf[x] => claim'[k] = claim[k]
  BY DEF ClaimTypeOK
<1>row. \/ claim'[KeyOf[x]] = claim[KeyOf[x]]
        \/ claim'[KeyOf[x]].status = "pending"
  BY DEF ClaimTypeOK
<1>more. claim' \in [Keys -> ClaimStates]
  BY DEF ClaimTypeOK, ClaimStates
<1>1. ClaimTypeOK'
  BY <1>more DEF ClaimTypeOK, ClaimStates, Answers
<1>2. Holders'
  <2>1. ASSUME NEW a \in Attempts, pc'[a] \in Holding
        PROVE  a # x /\ pc[a] \in Holding
    BY <1>pc, <2>1
  <2>2. ASSUME NEW a \in Attempts, pc'[a] \in Holding
        PROVE  claim'[KeyOf[a]].status = "pending"
    BY <1>other, <1>row, <2>1, <2>2 DEF Holders
  <2> QED BY <2>1, <2>2 DEF Holders
<1>3. Places'
  BY DEF ClaimTypeOK, ClaimStates, Places, Holders
<1>4. TextsOut'
  <2>1. AtMostOnce'
    BY DEF TextsOut, AtMostOnce
  <2>2. ASSUME NEW a \in Attempts, claim'[KeyOf[a]].status = "none"
        PROVE  Out(a) => Disowned(a)
    BY <1>other, <1>row, <2>2 DEF TextsOut, FreeMeansNothingOut
  <2> QED BY <2>1, <2>2 DEF TextsOut, FreeMeansNothingOut
<1>5. Words'
  <2>1. /\ wire' = wire /\ wire[x] = "idle" /\ answer'[x] = Said("failed")
        /\ \A a \in Attempts : a # x => answer'[a] = answer[a]
    BY DEF ClaimTypeOK, Places
  <2>2. SentIsReal'
    BY <1>other, <1>row, <2>1 DEF Words, SentIsReal
  <2>3. ToldTheTruth' /\ \A a \in Attempts : answer'[a].told = "sent" => answer'[a].text \in Attempts
    BY <2>1 DEF Words, ToldTheTruth
  <2>4. FailedMeansNotSent'
    BY <2>1 DEF Words, FailedMeansNotSent
  <2> QED BY <2>2, <2>3, <2>4 DEF Words
<1> QED BY <1>1, <1>2, <1>3, <1>4, <1>5 DEF ClaimInv

LEMMA SendKeeps ==
    ASSUME ClaimInv, NEW x \in Attempts, Send(x)
    PROVE  ClaimInv'
<1> USE KeysAssumption, NoAttemptAssumption, KindsOfFailure
    DEF ClaimInv, Send, Finish, Said, SaidSent, NoClaim, Pending, Unknown, SentBy, Begun, Holding, Out, Disowned
<1>1. ClaimTypeOK'
  BY DEF ClaimTypeOK, ClaimStates, Answers
<1>2. Holders'
  BY DEF ClaimTypeOK, ClaimStates, Holders, Places, TextsOut, FreeMeansNothingOut
<1>3. Places'
  BY DEF ClaimTypeOK, ClaimStates, Places, Holders
<1>4. TextsOut'
  BY DEF ClaimTypeOK, ClaimStates, TextsOut, AtMostOnce, FreeMeansNothingOut, Places, Holders
<1>5. Words'
  BY DEF ClaimTypeOK, ClaimStates, Words, SentIsReal, ToldTheTruth, FailedMeansNotSent, Places, Holders
<1> QED BY <1>1, <1>2, <1>3, <1>4, <1>5 DEF ClaimInv

LEMMA HearAcceptedKeeps ==
    ASSUME ClaimInv, NEW x \in Attempts, HearAccepted(x)
    PROVE  ClaimInv'
<1> USE KeysAssumption, NoAttemptAssumption, KindsOfFailure
    DEF ClaimInv, HearAccepted, Finish, Said, SaidSent, NoClaim, Pending, Unknown, SentBy, Begun, Holding, Out, Disowned
<1>1. ClaimTypeOK'
  BY DEF ClaimTypeOK, ClaimStates, Answers
<1>2. Holders'
  BY DEF ClaimTypeOK, ClaimStates, Holders, Places, TextsOut, FreeMeansNothingOut
<1>3. Places'
  BY DEF ClaimTypeOK, ClaimStates, Places, Holders
<1>4. TextsOut'
  BY DEF ClaimTypeOK, ClaimStates, TextsOut, AtMostOnce, FreeMeansNothingOut, Places, Holders
<1>5. Words'
  BY DEF ClaimTypeOK, ClaimStates, Words, SentIsReal, ToldTheTruth, FailedMeansNotSent, Places, Holders
<1> QED BY <1>1, <1>2, <1>3, <1>4, <1>5 DEF ClaimInv

LEMMA HearFailureKeeps ==
    ASSUME ClaimInv, NEW x \in Attempts, NEW kind \in FailureKinds, HearFailure(x, kind)
    PROVE  ClaimInv'
<1> USE KeysAssumption, NoAttemptAssumption, KindsOfFailure
    DEF ClaimInv, HearFailure, Finish, Said, SaidSent, NoClaim, Pending, Unknown, SentBy, Begun, Holding, Out
<1>new. /\ pc'[x] = "failed" /\ pc[x] = "calling" /\ failure[x] = "none" /\ failure'[x] = kind
        /\ \A a \in Attempts : a # x => pc'[a] = pc[a] /\ failure'[a] = failure[a]
        /\ UNCHANGED <<claim, wire, answer>>
  BY DEF ClaimTypeOK, Places
<1>more. \A a \in Attempts : Disowned(a) => Disowned(a)'
  BY <1>new DEF Disowned
<1>1. ClaimTypeOK'
  BY DEF ClaimTypeOK, ClaimStates, Answers
<1>2. Holders'
  BY <1>new, <1>more DEF Holders
<1>3. Places'
  <2>1. ASSUME NEW a \in Attempts, pc'[a] = "failed", failure'[a] # "timeout", Out(a)'
        PROVE  Disowned(a)'
    <3>1. CASE a = x
      BY <1>new, <2>1, <3>1 DEF AllFailureKinds, Disowned
    <3>2. CASE a # x
      BY <1>new, <1>more, <2>1, <3>2 DEF Places
    <3> QED BY <3>1, <3>2
  <2> QED BY <1>new, <2>1 DEF Places
<1>4. TextsOut'
  BY <1>new, <1>more DEF TextsOut, AtMostOnce, FreeMeansNothingOut
<1>5. Words'
  BY <1>new, <1>more DEF Words, SentIsReal, ToldTheTruth, FailedMeansNotSent
<1> QED BY <1>1, <1>2, <1>3, <1>4, <1>5 DEF ClaimInv

LEMMA SettleFailureKeeps ==
    ASSUME ClaimInv, NEW x \in Attempts, SettleFailure(x)
    PROVE  ClaimInv'
<1> USE KeysAssumption, NoAttemptAssumption, KindsOfFailure
    DEF ClaimInv, SettleFailure, AfterFailure, Finish, Said, SaidSent, NoClaim, Pending, Unknown, SentBy, Begun, Holding, Out, Disowned
<1>alone. \A a \in Attempts : KeyOf[a] = KeyOf[x] /\ a # x => pc[a] \notin Holding /\ (Out(a) => Disowned(a))
  BY DEF Holders
<1>pc. pc'[x] = "done" /\ \A a \in Attempts : a # x => pc'[a] = pc[a]
  BY DEF ClaimTypeOK
<1>other. \A k \in Keys : k # KeyOf[x] => claim'[k] = claim[k]
  BY DEF ClaimTypeOK
<1>row. claim'[KeyOf[x]] = claim[KeyOf[x]]
        \/ claim'[KeyOf[x]] = IF failure[x] = "timeout" THEN Unknown ELSE NoClaim
  BY DEF ClaimTypeOK
<1>more. failure[x] = "timeout" \/ ~Out(x) \/ Disowned(x)
  BY DEF Places
<1>1. ClaimTypeOK'
  <2>1. claim' \in [Keys -> ClaimStates]
    BY DEF ClaimTypeOK, ClaimStates
  <2>2. answer' \in [Attempts -> Answers]
    BY DEF ClaimTypeOK, Answers
  <2>3. /\ pc' \in [Attempts -> Begun \cup {"idle", "done"}]
        /\ failure' \in [Attempts -> FailureKinds \cup {"none"}]
        /\ wire' = wire
    BY DEF ClaimTypeOK
  <2> QED BY <2>1, <2>2, <2>3 DEF ClaimTypeOK
<1>2. Holders'
  <2>1. ASSUME NEW a \in Attempts, pc'[a] \in Holding
        PROVE  a # x /\ pc[a] \in Holding
    BY <1>pc, <2>1
  <2>2. ASSUME NEW a \in Attempts, pc'[a] \in Holding
        PROVE  claim'[KeyOf[a]].status = "pending"
    BY <1>alone, <1>other, <2>1, <2>2 DEF Holders
  <2> QED BY <2>1, <2>2 DEF Holders
<1>3. Places'
  BY DEF ClaimTypeOK, ClaimStates, Places, Holders
<1>4. TextsOut'
  <2>1. AtMostOnce'
    BY DEF TextsOut, AtMostOnce
  <2>2. ASSUME NEW a \in Attempts, claim'[KeyOf[a]].status = "none"
        PROVE  Out(a) => Disowned(a)
    BY <1>alone, <1>other, <1>row, <1>more, <2>2 DEF TextsOut, FreeMeansNothingOut, Holders
  <2> QED BY <2>1, <2>2 DEF TextsOut, FreeMeansNothingOut
<1>5. Words'
  <2>1. \A a \in Attempts : a # x => answer'[a] = answer[a]
    BY DEF ClaimTypeOK
  <2>2. /\ answer'[x].told \in {"unknown", "failed"}
        /\ answer'[x].told = "failed" /\ Out(x) => Disowned(x)
    BY <1>more DEF ClaimTypeOK
  <2>3. SentIsReal'
    BY <1>other, <1>row DEF Words, SentIsReal
  <2>4. ToldTheTruth' /\ (\A a \in Attempts : answer'[a].told = "sent" => answer'[a].text \in Attempts)
    BY <2>1, <2>2 DEF Words, ToldTheTruth
  <2>5. FailedMeansNotSent'
    BY <2>1, <2>2 DEF Words, FailedMeansNotSent
  <2> QED BY <2>3, <2>4, <2>5 DEF Words
<1> QED BY <1>1, <1>2, <1>3, <1>4, <1>5 DEF ClaimInv

LEMMA SettleAcceptedKeeps ==
    ASSUME ClaimInv, NEW x \in Attempts, SettleAccepted(x)
    PROVE  ClaimInv'
<1> USE KeysAssumption, NoAttemptAssumption, KindsOfFailure
    DEF ClaimInv, SettleAccepted, Finish, Said, SaidSent, NoClaim, Pending, Unknown, SentBy, Begun, Holding, Out, Disowned
<1>alone. \A a \in Attempts : KeyOf[a] = KeyOf[x] /\ a # x => pc[a] \notin Holding /\ (Out(a) => Disowned(a))
  BY DEF Holders
<1>pc. pc'[x] = "done" /\ \A a \in Attempts : a # x => pc'[a] = pc[a]
  BY DEF ClaimTypeOK
<1>other. \A k \in Keys : k # KeyOf[x] => claim'[k] = claim[k]
  BY DEF ClaimTypeOK
<1>row. claim'[KeyOf[x]] = claim[KeyOf[x]] \/ claim'[KeyOf[x]] = SentBy(x)
  BY DEF ClaimTypeOK
<1>1. ClaimTypeOK'
  <2>1. claim' \in [Keys -> ClaimStates]
    BY DEF ClaimTypeOK, ClaimStates
  <2>2. answer' \in [Attempts -> Answers]
    BY DEF ClaimTypeOK, Answers
  <2>3. /\ pc' \in [Attempts -> Begun \cup {"idle", "done"}]
        /\ failure' \in [Attempts -> FailureKinds \cup {"none"}]
        /\ wire' = wire
    BY DEF ClaimTypeOK
  <2> QED BY <2>1, <2>2, <2>3 DEF ClaimTypeOK
<1>2. Holders'
  <2>1. ASSUME NEW a \in Attempts, pc'[a] \in Holding
        PROVE  a # x /\ pc[a] \in Holding
    BY <1>pc, <2>1
  <2>2. ASSUME NEW a \in Attempts, pc'[a] \in Holding
        PROVE  claim'[KeyOf[a]].status = "pending"
    BY <1>alone, <1>other, <2>1, <2>2 DEF Holders
  <2> QED BY <2>1, <2>2 DEF Holders
<1>3. Places'
  BY DEF ClaimTypeOK, ClaimStates, Places, Holders
<1>4. TextsOut'
  <2>1. AtMostOnce'
    BY DEF TextsOut, AtMostOnce
  <2>2. ASSUME NEW a \in Attempts, claim'[KeyOf[a]].status = "none"
        PROVE  Out(a) => Disowned(a)
    BY <1>alone, <1>other, <1>row, <2>2 DEF TextsOut, FreeMeansNothingOut, Holders
  <2> QED BY <2>1, <2>2 DEF TextsOut, FreeMeansNothingOut
<1>5. Words'
  <2>1. /\ wire' = wire /\ wire[x] = "accepted" /\ answer'[x] = SaidSent(x)
        /\ \A a \in Attempts : a # x => answer'[a] = answer[a]
    BY DEF ClaimTypeOK, Places
  <2>2. SentIsReal'
    BY <1>other, <1>row, <2>1 DEF Words, SentIsReal
  <2>3. ToldTheTruth' /\ \A a \in Attempts : answer'[a].told = "sent" => answer'[a].text \in Attempts
    BY <2>1 DEF Words, ToldTheTruth
  <2>4. FailedMeansNotSent'
    BY <2>1 DEF Words, FailedMeansNotSent
  <2> QED BY <2>2, <2>3, <2>4 DEF Words
<1> QED BY <1>1, <1>2, <1>3, <1>4, <1>5 DEF ClaimInv

LEMMA MetaAcceptsKeeps ==
    ASSUME ClaimInv, NEW x \in Attempts, MetaAccepts(x)
    PROVE  ClaimInv'
<1> USE KeysAssumption, NoAttemptAssumption, KindsOfFailure
    DEF ClaimInv, MetaAccepts, Finish, Said, SaidSent, NoClaim, Pending, Unknown, SentBy, Begun, Holding, Out, Disowned
<1>1. ClaimTypeOK'
  BY DEF ClaimTypeOK, ClaimStates, Answers
<1>2. Holders'
  BY DEF ClaimTypeOK, ClaimStates, Holders, Places, TextsOut, FreeMeansNothingOut
<1>3. Places'
  BY DEF ClaimTypeOK, ClaimStates, Places, Holders
<1>4. TextsOut'
  BY DEF ClaimTypeOK, ClaimStates, TextsOut, AtMostOnce, FreeMeansNothingOut, Places, Holders
<1>5. Words'
  BY DEF ClaimTypeOK, ClaimStates, Words, SentIsReal, ToldTheTruth, FailedMeansNotSent, Places, Holders
<1> QED BY <1>1, <1>2, <1>3, <1>4, <1>5 DEF ClaimInv

LEMMA MetaTurnsAwayKeeps ==
    ASSUME ClaimInv, NEW x \in Attempts, MetaTurnsAway(x)
    PROVE  ClaimInv'
<1> USE KeysAssumption, NoAttemptAssumption, KindsOfFailure
    DEF ClaimInv, MetaTurnsAway, Finish, Said, SaidSent, NoClaim, Pending, Unknown, SentBy, Begun, Holding, Out, Disowned
<1>1. ClaimTypeOK'
  BY DEF ClaimTypeOK, ClaimStates, Answers
<1>2. Holders'
  BY DEF ClaimTypeOK, ClaimStates, Holders, Places, TextsOut, FreeMeansNothingOut
<1>3. Places'
  BY DEF ClaimTypeOK, ClaimStates, Places, Holders
<1>4. TextsOut'
  BY DEF ClaimTypeOK, ClaimStates, TextsOut, AtMostOnce, FreeMeansNothingOut, Places, Holders
<1>5. Words'
  BY DEF ClaimTypeOK, ClaimStates, Words, SentIsReal, ToldTheTruth, FailedMeansNotSent, Places, Holders
<1> QED BY <1>1, <1>2, <1>3, <1>4, <1>5 DEF ClaimInv

LEMMA DieKeeps ==
    ASSUME ClaimInv, NEW x \in Attempts, Die(x)
    PROVE  ClaimInv'
<1> USE KeysAssumption, NoAttemptAssumption, KindsOfFailure
    DEF ClaimInv, Die, AfterFailure, Finish, Said, SaidSent, NoClaim, Pending, Unknown, SentBy, Begun, Holding, Out,
        Disowned
<1>pc. pc'[x] = "done" /\ \A a \in Attempts : a # x => pc'[a] = pc[a]
  BY DEF ClaimTypeOK
<1>other. \A k \in Keys : k # KeyOf[x] => claim'[k] = claim[k]
  BY DEF ClaimTypeOK
<1>row. \/ claim'[KeyOf[x]] = claim[KeyOf[x]]
        \/ pc[x] = "failed" /\ claim'[KeyOf[x]] = AfterFailure(x)
        \/ pc[x] = "accepted" /\ claim'[KeyOf[x]] = SentBy(x)
  BY DEF ClaimTypeOK
<1>alone. claim'[KeyOf[x]] # claim[KeyOf[x]] =>
            \A a \in Attempts : KeyOf[a] = KeyOf[x] /\ a # x => pc[a] \notin Holding /\ (Out(a) => Disowned(a))
  <2>1. SUFFICES ASSUME pc[x] \in {"failed", "accepted"}
                 PROVE  \A a \in Attempts : KeyOf[a] = KeyOf[x] /\ a # x => pc[a] \notin Holding /\ (Out(a) => Disowned(a))
    BY <1>row
  <2> QED BY <2>1 DEF Holders
<1>said. /\ wire' = wire /\ failure' = failure /\ answer'[x] = Said("died")
         /\ \A a \in Attempts : a # x => answer'[a] = answer[a]
  BY DEF ClaimTypeOK
<1>1. ClaimTypeOK'
  <2>1. claim' \in [Keys -> ClaimStates]
    BY DEF ClaimTypeOK, ClaimStates
  <2>2. answer' \in [Attempts -> Answers]
    BY DEF ClaimTypeOK, Answers
  <2>3. pc' \in [Attempts -> Begun \cup {"idle", "done"}]
    BY DEF ClaimTypeOK
  <2> QED BY <1>said, <2>1, <2>2, <2>3 DEF ClaimTypeOK
<1>2. Holders'
  <2>1. ASSUME NEW a \in Attempts, pc'[a] \in Holding
        PROVE  a # x /\ pc[a] \in Holding
    BY <1>pc, <2>1
  <2>2. ASSUME NEW a \in Attempts, pc'[a] \in Holding
        PROVE  claim'[KeyOf[a]].status = "pending"
    BY <1>alone, <1>other, <2>1, <2>2 DEF Holders
  <2> QED BY <1>said, <2>1, <2>2 DEF Holders
<1>3. Places'
  BY <1>pc, <1>said DEF Places
<1>4. TextsOut'
  <2>1. AtMostOnce'
    BY <1>said DEF TextsOut, AtMostOnce
  <2>2. ASSUME NEW a \in Attempts, claim'[KeyOf[a]].status = "none"
        PROVE  Out(a) => Disowned(a)
    <3>1. CASE claim'[KeyOf[a]] = claim[KeyOf[a]]
      BY <2>2, <3>1 DEF TextsOut, FreeMeansNothingOut
    <3>2. CASE claim'[KeyOf[a]] # claim[KeyOf[a]]
      BY <1>alone, <1>other, <1>row, <2>2, <3>2 DEF Places
    <3> QED BY <3>1, <3>2
  <2> QED BY <1>said, <2>1, <2>2 DEF TextsOut, FreeMeansNothingOut
<1>5. Words'
  <2>1. SentIsReal'
    BY <1>other, <1>row, <1>said DEF Words, SentIsReal, Places
  <2>2. ToldTheTruth' /\ \A a \in Attempts : answer'[a].told = "sent" => answer'[a].text \in Attempts
    BY <1>said DEF Words, ToldTheTruth
  <2>3. FailedMeansNotSent'
    BY <1>said DEF Words, FailedMeansNotSent
  <2> QED BY <2>1, <2>2, <2>3 DEF Words
<1> QED BY <1>1, <1>2, <1>3, <1>4, <1>5 DEF ClaimInv

-----------------------------------------------------------------------------
LEMMA InitEstablishes == ClaimInit => ClaimInv
BY NoAttemptAssumption
   DEF ClaimInit, ClaimInv, ClaimTypeOK, ClaimStates, Answers, Begun, Holders,
       Holding, Places, TextsOut, AtMostOnce, FreeMeansNothingOut, Words, SentIsReal,
       ToldTheTruth, FailedMeansNotSent, Out, Disowned, NoClaim, Said

LEMMA StepKeeps ==
    ASSUME ClaimInv, [ClaimNext]_claimVars
    PROVE  ClaimInv'
<1>1. CASE UNCHANGED claimVars
  BY <1>1 DEF claimVars, ClaimInv, ClaimTypeOK, Holders, Places, TextsOut, AtMostOnce,
              FreeMeansNothingOut, Words, SentIsReal, ToldTheTruth, FailedMeansNotSent, Out, Disowned
<1>2. ASSUME NEW x \in Attempts, AttemptStep(x) \/ MetaStep(x) \/ Die(x)
      PROVE  ClaimInv'
  <2>1. CASE FindSent(x) \/ FindUnsettled(x) \/ FindNothing(x) \/ PolicyBlocks(x)
    BY <2>1, FindSentKeeps, FindUnsettledKeeps, FindNothingKeeps, PolicyBlocksKeeps
  <2>2. CASE Reserve(x) \/ LoseRace(x) \/ ReserveFails(x)
    BY <2>2, ReserveKeeps, LoseRaceKeeps, ReserveFailsKeeps
  <2>3. CASE Send(x) \/ HearAccepted(x) \/ (\E kind \in FailureKinds : HearFailure(x, kind))
    BY <2>3, SendKeeps, HearAcceptedKeeps, HearFailureKeeps
  <2>4. CASE SettleFailure(x) \/ SettleAccepted(x)
    BY <2>4, SettleFailureKeeps, SettleAcceptedKeeps
  <2>5. CASE MetaStep(x) \/ Die(x)
    BY <2>5, MetaAcceptsKeeps, MetaTurnsAwayKeeps, DieKeeps DEF MetaStep
  <2> QED BY <1>2, <2>1, <2>2, <2>3, <2>4, <2>5 DEF AttemptStep
<1> QED BY <1>1, <1>2 DEF ClaimNext

\* The inductive invariant holds in every behaviour.
THEOREM ClaimInvariance ==
    ClaimSpec => []ClaimInv
<1>1. ClaimInit => ClaimInv
  BY InitEstablishes
<1>2. ClaimInv /\ [ClaimNext]_claimVars => ClaimInv'
  BY StepKeeps
<1> QED BY <1>1, <1>2, PTL DEF ClaimSpec

\* No key ever has two texts that Meta accepted or may still accept.
THEOREM NeverTwice ==
    ClaimSpec => []AtMostOnce
<1>1. ClaimInv => AtMostOnce
  BY DEF ClaimInv, TextsOut
<1> QED BY <1>1, ClaimInvariance, PTL

\* Whoever is told "sent" is told of a text the customer has, and whoever is
\* told "nothing was sent" has nothing out.
THEOREM AnswersAreTrue ==
    ClaimSpec => []AnswersAreSound
<1>1. ClaimInv => AnswersAreSound
  BY DEF ClaimInv, Words, AnswersAreSound
<1> QED BY <1>1, ClaimInvariance, PTL

\* A reservation that can be taken again has nothing of its key out.
THEOREM ReleaseIsSafe ==
    ClaimSpec => []FreeMeansNothingOut
<1>1. ClaimInv => FreeMeansNothingOut
  BY DEF ClaimInv, TextsOut
<1> QED BY <1>1, ClaimInvariance, PTL

\* A reservation that says sent or unknown never changes again.
THEOREM SettledForGood ==
    ClaimSpec => SettledStays
<1>1. ASSUME ClaimInv, [ClaimNext]_claimVars PROVE  [KeepsSettled]_claimVars
  <2>1. CASE UNCHANGED claim
    BY <2>1 DEF KeepsSettled
  <2>2. ASSUME NEW x \in Attempts,
               AttemptStep(x) \/ MetaStep(x) \/ Die(x), claim' # claim
        PROVE  /\ claim[KeyOf[x]].status \in {"none", "pending"}
               /\ \A k \in Keys : k # KeyOf[x] => claim'[k] = claim[k]
    <3>1. \/ Reserve(x) \/ ReserveFails(x) \/ SettleFailure(x) \/ SettleAccepted(x)
          \/ Die(x) /\ pc[x] \in {"failed", "accepted"}
      BY <2>2 DEF AttemptStep, MetaStep, FindSent, FindUnsettled, FindNothing, PolicyBlocks,
                  LoseRace, Send, HearAccepted, HearFailure, MetaAccepts, MetaTurnsAway, Die
    <3>2. claim[KeyOf[x]].status \in {"none", "pending"}
      BY <1>1, <2>2, <3>1
         DEF ClaimInv, Holders, Holding, Reserve, ReserveFails, SettleFailure, SettleAccepted, Die
    <3>3. \A k \in Keys : k # KeyOf[x] => claim'[k] = claim[k]
      BY <1>1, <2>2, <3>1
         DEF ClaimInv, ClaimTypeOK, Reserve, ReserveFails, SettleFailure, SettleAccepted, Die
    <3> QED BY <3>2, <3>3
  <2>3. CASE claim' # claim
    <3>1. PICK x \in Attempts : AttemptStep(x) \/ MetaStep(x) \/ Die(x)
      BY <1>1, <2>3 DEF ClaimNext, claimVars
    <3> QED BY <2>2, <2>3, <3>1 DEF KeepsSettled
  <2> QED BY <2>1, <2>3
<1> QED BY <1>1, ClaimInvariance, PTL DEF ClaimSpec, SettledStays

\* The reservation can be trusted, free or settled.
THEOREM ReservationIsSound ==
    ClaimSpec => ReservationHolds
<1> QED BY ReleaseIsSafe, SettledForGood, PTL DEF ReservationHolds

-----------------------------------------------------------------------------
(* The refinement: every step of the senders is a step of OutboundText or   *)
(* leaves what it speaks of alone.                                          *)

\* The mapped texts move only with the set of accepted requests.
LEMMA TextsOfStay ==
    ASSUME \A a \in Attempts : (wire'[a] = "accepted") = (wire[a] = "accepted")
    PROVE  TextsOf' = TextsOf
BY DEF TextsOf

\* Meta accepting a request is the customer receiving a text of its key.
LEMMA MetaAcceptsReaches ==
    ASSUME ClaimInv, NEW x \in Attempts, MetaAccepts(x)
    PROVE  Abstract!Reach(x)
<1>1. /\ \A a \in Attempts : a # x => wire'[a] = wire[a]
      /\ wire'[x] = "accepted" /\ wire[x] = "flying"
  BY DEF MetaAccepts, ClaimInv, ClaimTypeOK
<1>2. x \notin TextsOf[KeyOf[x]]
  BY <1>1, KeysAssumption DEF TextsOf
<1>3. x \in GivenUp \/ TextsOf[KeyOf[x]] \subseteq GivenUp
  BY <1>1, KeysAssumption DEF TextsOf, GivenUp, ClaimInv, TextsOut, AtMostOnce, Out
<1>4. TextsOf' = [TextsOf EXCEPT ![KeyOf[x]] = @ \cup {x}]
  <2>1. \A k \in Keys : TextsOf'[k] = IF k = KeyOf[x] THEN TextsOf[k] \cup {x} ELSE TextsOf[k]
    BY <1>1 DEF TextsOf
  <2> QED BY <2>1 DEF TextsOf
<1>5. ToldOf' = ToldOf /\ GivenUp' = GivenUp
  BY DEF MetaAccepts, ToldOf, GivenUp, Disowned
<1> QED BY <1>2, <1>3, <1>4, <1>5 DEF Abstract!Reach

\* An answer "sent" is the abstract answer.
LEMMA SaidSentTells ==
    ASSUME ClaimInv, NEW x \in Attempts, NEW b \in Attempts, pc[x] \notin {"failed", "done"},
           Finish(x, SaidSent(b)), wire[b] = "accepted", KeyOf[b] = KeyOf[x],
           wire' = wire, failure' = failure
    PROVE  Abstract!Tell(x)
<1>1. b \in TextsOf[KeyOf[x]]
  BY KeysAssumption DEF TextsOf
<1>2. ToldOf[x] = NoAttempt /\ x \notin GivenUp
  BY DEF ToldOf, GivenUp, Disowned, ClaimInv, Places
<1>3. ToldOf' = [ToldOf EXCEPT ![x] = b]
  BY DEF ToldOf, Finish, SaidSent, ClaimInv, ClaimTypeOK
<1>4. TextsOf' = TextsOf /\ GivenUp' = GivenUp
  BY TextsOfStay DEF GivenUp, Disowned
<1> QED BY <1>1, <1>2, <1>3, <1>4 DEF Abstract!Tell

\* A failure heard is a text given up, or nothing the abstract speaks of.
LEMMA FailureDisowns ==
    ASSUME ClaimInv, NEW x \in Attempts, NEW kind \in FailureKinds, HearFailure(x, kind)
    PROVE  Abstract!Disown(x) \/ UNCHANGED <<TextsOf, ToldOf, GivenUp>>
<1>1. TextsOf' = TextsOf /\ ToldOf' = ToldOf
  BY TextsOfStay DEF HearFailure, ToldOf
<1>2. ToldOf[x] = NoAttempt /\ x \notin GivenUp
  BY DEF HearFailure, ToldOf, GivenUp, Disowned, ClaimInv, Places
<1>3. failure' = [failure EXCEPT ![x] = kind]
  BY DEF HearFailure
<1>4. CASE kind \in {"unreachable", "rejected"}
  <2>1. GivenUp' = GivenUp \cup {x}
    BY <1>3, <1>4 DEF GivenUp, Disowned, ClaimInv, ClaimTypeOK
  <2> QED BY <1>1, <1>2, <2>1 DEF Abstract!Disown
<1>5. CASE kind \notin {"unreachable", "rejected"}
  <2>1. GivenUp' = GivenUp
    BY <1>2, <1>3, <1>5 DEF GivenUp, Disowned, ClaimInv, ClaimTypeOK
  <2> QED BY <1>1, <2>1
<1> QED BY <1>4, <1>5

\* Any other answer, and a step without one, is a stutter of the abstract.
LEMMA OtherStutters ==
    ASSUME ClaimInv, NEW x \in Attempts, pc[x] # "done", failure' = failure,
           \A a \in Attempts : (wire'[a] = "accepted") = (wire[a] = "accepted"),
           \/ answer' = answer
           \/ \E w \in {"blocked", "failed", "unknown", "died"} : Finish(x, Said(w))
    PROVE  UNCHANGED <<TextsOf, ToldOf, GivenUp>>
<1>1. TextsOf' = TextsOf /\ GivenUp' = GivenUp
  BY TextsOfStay DEF GivenUp, Disowned
<1>2. \A a \in Attempts : answer'[a].text = answer[a].text
  BY NoAttemptAssumption DEF Finish, Said, ClaimInv, ClaimTypeOK, Places
<1>3. ToldOf' = ToldOf
  BY <1>2 DEF ToldOf
<1> QED BY <1>1, <1>3

\* The senders implement OutboundText: beside the texts whose sender gave them up, a
\* key has one text at the customer, and what is told sent is there.
THEOREM SendersImplementOutboundText == ClaimSpec => RefinesOutboundText
<1>1. ClaimInit => Abstract!OTInit
  BY DEF ClaimInit, Abstract!OTInit, TextsOf, ToldOf, GivenUp, Disowned, Said
<1>2. ASSUME ClaimInv, [ClaimNext]_claimVars
      PROVE  [Abstract!OTNext]_<<TextsOf, ToldOf, GivenUp>>
  <2>1. CASE UNCHANGED claimVars
    BY <2>1 DEF claimVars, TextsOf, ToldOf, GivenUp, Disowned
  <2>2. ASSUME NEW x \in Attempts, AttemptStep(x) \/ MetaStep(x) \/ Die(x)
        PROVE  [Abstract!OTNext]_<<TextsOf, ToldOf, GivenUp>>
    <3> USE <1>2, <2>2
    <3>1. CASE MetaAccepts(x)
      BY <3>1, MetaAcceptsReaches DEF Abstract!OTNext
    <3>2. CASE FindSent(x)
      <4>1. claim[KeyOf[x]].text \in Attempts /\ wire[claim[KeyOf[x]].text] = "accepted"
            /\ KeyOf[claim[KeyOf[x]].text] = KeyOf[x]
        BY <3>2, KeysAssumption DEF FindSent, ClaimInv, Words, SentIsReal
      <4>2. Abstract!Tell(x)
        BY <3>2, <4>1, SaidSentTells DEF FindSent
      <4> QED BY <4>2 DEF Abstract!OTNext
    <3>3. CASE SettleAccepted(x)
      <4>1. Abstract!Tell(x)
        BY <3>3, SaidSentTells DEF SettleAccepted, ClaimInv, Places
      <4> QED BY <4>1 DEF Abstract!OTNext
    <3>4. CASE \E kind \in FailureKinds : HearFailure(x, kind)
      BY <3>4, FailureDisowns DEF Abstract!OTNext
    <3>5. CASE MetaTurnsAway(x)
      <4>1. \A a \in Attempts : (wire'[a] = "accepted") = (wire[a] = "accepted")
        BY <3>5 DEF MetaTurnsAway, ClaimInv, ClaimTypeOK
      <4>2. TextsOf' = TextsOf
        BY <4>1, TextsOfStay
      <4> QED BY <3>5, <4>2 DEF MetaTurnsAway, ToldOf, GivenUp, Disowned
    <3>6. CASE \/ FindUnsettled(x) \/ FindNothing(x) \/ PolicyBlocks(x) \/ LoseRace(x)
               \/ Reserve(x) \/ ReserveFails(x) \/ SettleFailure(x) \/ Die(x)
               \/ Send(x) \/ HearAccepted(x)
      <4>1. pc[x] # "done" /\ failure' = failure
        BY <3>6 DEF FindUnsettled, FindNothing, PolicyBlocks, LoseRace, Reserve, ReserveFails,
                    SettleFailure, Die, Send, HearAccepted, Begun
      <4>2. \A a \in Attempts : (wire'[a] = "accepted") = (wire[a] = "accepted")
        BY <3>6 DEF FindUnsettled, FindNothing, PolicyBlocks, LoseRace, Reserve, ReserveFails,
                    SettleFailure, Die, Send, HearAccepted, ClaimInv, ClaimTypeOK, Places
      <4>3. \/ answer' = answer
            \/ \E w \in {"blocked", "failed", "unknown", "died"} : Finish(x, Said(w))
        BY <3>6 DEF FindUnsettled, FindNothing, PolicyBlocks, LoseRace, Reserve, ReserveFails,
                    SettleFailure, Die, Send, HearAccepted
      <4> QED BY <4>1, <4>2, <4>3, OtherStutters
    <3> QED BY <3>1, <3>2, <3>3, <3>4, <3>5, <3>6 DEF AttemptStep, MetaStep
  <2> QED BY <1>2, <2>1, <2>2 DEF ClaimNext
<1> QED BY <1>1, <1>2, ClaimInvariance, PTL
        DEF ClaimSpec, RefinesOutboundText, Abstract!OTSpec
=============================================================================
