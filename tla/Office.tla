-------------------------------- MODULE Office --------------------------------
(***************************************************************************)
(* The parts of the back office that share no state with one another, each *)
(* with its own rows and its own requests.  A behaviour is one of one of   *)
(* them, and the others wait: together they are checked by one run, and    *)
(* nothing is lost, for what one part does no other part can see.          *)
(***************************************************************************)
EXTENDS Promises, Accounts, InternalChat, Leads,
        NetworkAlerts, Registers, Figures

CONSTANT Parts  \* those of which a behaviour takes one

ASSUME PartsAssumption ==
    Parts \subseteq {"promises", "accounts", "chat", "leads", "alerts", "registers",
                     "figures"}

VARIABLE part   \* the part that runs

officeVars == <<part, promiseVars, accountVars, chatVars, leadVars, alertVars,
                registerVars, figureVars>>

(* What runs starts anywhere it can; what waits, in one place. *)
OfficeInit ==
    /\ part \in Parts
    /\ PromiseInit
    /\ AccountInit
    /\ ChatInit
    /\ LeadInit
    /\ AlertInit
    /\ RegisterInit
    /\ FiguresInit
    /\ part # "accounts" => plan = CHOOSE p \in Plans : TRUE
    /\ part # "leads" => knownAs = [c \in Contacts |-> "nobody"]

PromisesRun ==
    /\ part = "promises" /\ PromiseNext
    /\ UNCHANGED <<part, accountVars, chatVars, leadVars, alertVars,
                   registerVars, figureVars>>

AccountsRun ==
    /\ part = "accounts" /\ AccountNext
    /\ UNCHANGED <<part, promiseVars, chatVars, leadVars, alertVars,
                   registerVars, figureVars>>

ChatRuns ==
    /\ part = "chat" /\ ChatNext
    /\ UNCHANGED <<part, promiseVars, accountVars, leadVars, alertVars,
                   registerVars, figureVars>>

LeadsRun ==
    /\ part = "leads" /\ LeadNext
    /\ UNCHANGED <<part, promiseVars, accountVars, chatVars, alertVars,
                   registerVars, figureVars>>

AlertsRun ==
    /\ part = "alerts" /\ AlertNext
    /\ UNCHANGED <<part, promiseVars, accountVars, chatVars, leadVars,
                   registerVars, figureVars>>

RegistersRun ==
    /\ part = "registers" /\ RegisterNext
    /\ UNCHANGED <<part, promiseVars, accountVars, chatVars, leadVars,
                   alertVars, figureVars>>

FiguresRun ==
    /\ part = "figures" /\ FiguresNext
    /\ UNCHANGED <<part, promiseVars, accountVars, chatVars, leadVars,
                   alertVars, registerVars>>

OfficeNext ==
    \/ PromisesRun \/ AccountsRun \/ ChatRuns \/ LeadsRun
    \/ AlertsRun \/ RegistersRun \/ FiguresRun

OfficeSpec == OfficeInit /\ [][OfficeNext]_officeVars

-----------------------------------------------------------------------------
(* The type invariants of the parts; a part that waits is as its Init left it. *)
OfficeTypeOK ==
    CASE part = "promises"  -> PromiseTypeOK
      [] part = "accounts"  -> AccountTypeOK
      [] part = "chat"      -> ChatTypeOK
      [] part = "leads"     -> LeadTypeOK
      [] part = "alerts"    -> AlertTypeOK
      [] part = "registers" -> RegisterTypeOK
      [] part = "figures"   -> FiguresTypeOK
=============================================================================
