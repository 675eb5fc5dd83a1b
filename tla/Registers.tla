------------------------------ MODULE Registers ------------------------------
(***************************************************************************)
(* Rows that people edit: the approved reply of an intent, a document of   *)
(* the knowledge base, the sales goal of a month, a person's place in a    *)
(* team. Each edit reads the row and writes afterwards, and writers        *)
(* overlap. What a row holds is named by the edit that wrote it; a row     *)
(* that is not there holds the default.                                    *)
(***************************************************************************)
EXTENDS Naturals, Sequences

CONSTANTS Edits        \* POSTs and DELETEs

VARIABLES register,    \* the rows: whether stored, their version, the edit they hold
          editing,     \* where each edit is
          trail,       \* audit rows of the approved reply: what it held before, and holds now
          withdrawn,   \* auxiliary: edits with a removal of their row after they read it
          blended      \* auxiliary: rows with two edits at once, or one that stopped half-way

registerVars == <<register, editing, trail, withdrawn, blended>>

Rows == {"reply", "document", "goal", "member"}
EditKinds == {"save", "remove"}
Default == "default"
NewEdit == [step |-> "idle", row |-> "goal", kind |-> "save", found |-> FALSE, version |-> 0, previous |-> Default]

RegisterTypeOK ==
    /\ register \in [Rows -> [stored : BOOLEAN, version : Nat, holds : Edits \union {Default}]]
    /\ editing \in [Edits -> [step : {"idle", "list", "read", "write", "audit", "done", "refused", "failed"},
                              row : Rows, kind : EditKinds, found : BOOLEAN, version : Nat,
                              previous : Edits \union {Default}]]
    /\ trail \in Seq([before : Edits \union {Default}, after : Edits \union {Default}])
    /\ withdrawn \subseteq Edits /\ blended \subseteq Rows

RegisterInit ==
    /\ register = [g \in Rows |-> [stored |-> FALSE, version |-> 0, holds |-> Default]]
    /\ editing = [e \in Edits |-> NewEdit]
    /\ trail = <<>>
    /\ withdrawn = {} /\ blended = {}

-----------------------------------------------------------------------------
Editing(e, step) == editing[e].step = step
UnderWay(g) == {e \in Edits : editing[e].row = g /\ editing[e].step \in {"list", "read", "write", "audit"}}
Turns(e, step) == editing' = [editing EXCEPT ![e].step = step]

\* Documents are never removed.
BeginEdit(e, g, kind) ==
    /\ Editing(e, "idle") /\ ~(g = "document" /\ kind = "remove")
    /\ editing' = [editing EXCEPT ![e] = [NewEdit EXCEPT !.step = IF g = "reply" THEN "list" ELSE "read",
                                                         !.row = g, !.kind = kind]]
    /\ blended' = IF UnderWay(g) = {} THEN blended ELSE blended \union {g}
    /\ UNCHANGED <<register, trail, withdrawn>>

\* Mutant: what was there before is taken from the texts of the code.
ListDefaults(e) ==
    /\ Editing(e, "list")
    /\ editing' = [editing EXCEPT ![e].step = IF editing[e].kind = "save" THEN "read" ELSE "write",
                                  ![e].previous = Default]
    /\ UNCHANGED <<register, trail, withdrawn, blended>>

\* saveTemplate and resetTemplate list the rows to tell what was there before.
ListReplies(e) ==
    /\ Editing(e, "list")
    /\ editing' = [editing EXCEPT ![e].step = IF editing[e].kind = "save" THEN "read" ELSE "write",
                                  ![e].previous = register["reply"].holds]
    /\ UNCHANGED <<register, trail, withdrawn, blended>>

\* create does not look, but inserts; publish, upsert, addMember, removeMember and remove look at the row. One
\* that is not there is no goal or member to remove; a member who is there is
\* not added again. A document that is there when it is looked for is published;
\* one that is not is created.
ReadRow(e) ==
    /\ Editing(e, "read")
    /\ LET g == editing[e].row
           refused == \/ editing[e].kind = "remove" /\ ~register[g].stored
                      \/ g = "member" /\ editing[e].kind = "save" /\ register[g].stored IN
       editing' = [editing EXCEPT ![e].step = IF refused THEN "refused" ELSE "write",
                                  ![e].found = register[g].stored, ![e].version = register[g].version]
    /\ UNCHANGED <<register, trail, withdrawn, blended>>

Ends(e) == Turns(e, IF editing[e].row = "reply" THEN "audit" ELSE "done")
Store(e, g, version) == register' = [register EXCEPT ![g] = [stored |-> TRUE, version |-> version, holds |-> e]]

\* A reply is inserted or, on conflict, updated; so the row is there after it.
SaveReply(e) ==
    /\ Editing(e, "write") /\ editing[e].row = "reply" /\ editing[e].kind = "save"
    /\ Store(e, "reply", editing[e].version + 1)
    /\ Ends(e)
    /\ UNCHANGED <<trail, withdrawn, blended>>

\* An UPDATE of a row that is gone by now touches none, and the answer is that
\* it was saved. Only replies and documents have a version that is read again.
UpdateRow(e) ==
    /\ Editing(e, "write") /\ editing[e].kind = "save"
    /\ editing[e].row \in {"goal", "document"} /\ editing[e].found
    /\ IF register[editing[e].row].stored
       THEN Store(e, editing[e].row, editing[e].version + 1)
       ELSE UNCHANGED register
    /\ Ends(e)
    /\ UNCHANGED <<trail, withdrawn, blended>>

\* The unique index refuses a second row of a month, or of a person in a team. A
\* document has a random id: a second one is a row of its own, not followed here.
InsertRow(e) ==
    /\ Editing(e, "write") /\ editing[e].kind = "save"
    /\ editing[e].row \in {"goal", "document", "member"} /\ ~editing[e].found
    /\ IF register[editing[e].row].stored
       THEN Turns(e, IF editing[e].row = "document" THEN "done" ELSE "failed") /\ UNCHANGED register
       ELSE Store(e, editing[e].row, 1) /\ Ends(e)
    /\ UNCHANGED <<trail, withdrawn, blended>>

RemoveRow(e) ==
    /\ Editing(e, "write") /\ editing[e].kind = "remove"
    /\ LET g == editing[e].row IN
       /\ register' = [register EXCEPT ![g] = [stored |-> FALSE, version |-> 0, holds |-> Default]]
       /\ withdrawn' = withdrawn \union {o \in Edits : editing[o].row = g /\ editing[o].step # "idle"}
    /\ Ends(e)
    /\ UNCHANGED <<trail, blended>>

\* A failing insert of the audit row is swallowed.
AuditReply(e) ==
    /\ Editing(e, "audit")
    /\ \/ /\ trail' = Append(trail, [before |-> editing[e].previous,
                                     after |-> IF editing[e].kind = "save" THEN e ELSE Default])
          /\ UNCHANGED blended
       \/ blended' = blended \union {"reply"} /\ UNCHANGED trail
    /\ Turns(e, "done")
    /\ UNCHANGED <<register, withdrawn>>

EditFails(e) ==
    /\ editing[e].step \in {"list", "read", "write"}
    /\ Turns(e, "failed")
    /\ UNCHANGED <<register, trail, withdrawn, blended>>

RegisterNext ==
    \E e \in Edits :
        \/ \E g \in Rows, kind \in EditKinds : BeginEdit(e, g, kind)
        \/ ListReplies(e) \/ ReadRow(e) \/ SaveReply(e) \/ UpdateRow(e) \/ InsertRow(e) \/ RemoveRow(e)
        \/ AuditReply(e) \/ EditFails(e)

RegisterSpec == RegisterInit /\ [][RegisterNext]_registerVars

-----------------------------------------------------------------------------
(* An edit answered as saved leaves its row stored, unless a removal of the row
   was written after the edit had begun. *)
SavedIsStored ==
    \A e \in Edits \ withdrawn :
        editing[e].step = "done" /\ editing[e].kind = "save" => register[editing[e].row].stored

(* The audit of the approved reply tells what customers were answered over
   time: where no two edits of it overlapped and none lost its audit row, every
   row of the audit begins with what the row before ended with. *)
TrailIsAChain ==
    "reply" \notin blended =>
        /\ \A i \in 1 .. Len(trail) : trail[i].before = IF i = 1 THEN Default ELSE trail[i-1].after
        /\ UnderWay("reply") = {} =>
              register["reply"].holds = IF trail = <<>> THEN Default ELSE trail[Len(trail)].after

(* What the answers and the audit say of the rows. *)
EditsAreTold == SavedIsStored /\ TrailIsAChain
=============================================================================
