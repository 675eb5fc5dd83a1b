-------------------------------- MODULE Channel -------------------------------
(***************************************************************************)
(* What goes on around the conversations of a channel, in three parts that *)
(* share no row: who is in charge (ConversationState), the receipts of the *)
(* texts that went out (DeliveryReceipts), and the POSTs of n8n and        *)
(* Evolution (ChannelTurn).  A behaviour is one of one of them while the   *)
(* others wait: one run checks the three, each with all its interleavings. *)
(***************************************************************************)
EXTENDS ConversationState, DeliveryReceipts, ChannelTurn

CONSTANT ChannelParts  \* those of which a behaviour takes one

ASSUME ChannelPartsAssumption == ChannelParts \subseteq {"state", "receipts", "turn"}

VARIABLE channelPart   \* the part that runs

channelVars == <<channelPart, stateVars, vars, turnVars>>

(* What runs starts anywhere it can; what waits, in one place. *)
ChannelInit ==
    /\ channelPart \in ChannelParts
    /\ StateInit
    /\ Init
    /\ TurnInit
    /\ channelPart # "turn" => words = [k \in Said |-> "words"] /\ dialogue = <<>>

StateRuns == channelPart = "state" /\ StateNext /\ UNCHANGED <<channelPart, vars, turnVars>>

ReceiptsRun == channelPart = "receipts" /\ Next /\ UNCHANGED <<channelPart, stateVars, turnVars>>

TurnRuns == channelPart = "turn" /\ TurnNext /\ UNCHANGED <<channelPart, stateVars, vars>>

ChannelNext == StateRuns \/ ReceiptsRun \/ TurnRuns

ChannelSpec == ChannelInit /\ [][ChannelNext]_channelVars

-----------------------------------------------------------------------------
(* The type invariants of the parts; a part that waits is as its Init left it. *)
ChannelTypeOK ==
    CASE channelPart = "state"    -> StateTypeOK
      [] channelPart = "receipts" -> TypeOK
      [] channelPart = "turn"     -> TurnTypeOK
=============================================================================
