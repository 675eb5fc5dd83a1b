------------------------------ MODULE MCOutside ------------------------------
(* Two readers of the ERP; two passes of the audit and a button; seven messages to the
   agent; two messages at a time in a ticket. *)
EXTENDS Outside, TLC

CONSTANTS w1, w2, b1, k1, k2  \* readers of the ERP or passes of the audit, a button, customers

Alike == Permutations({w1, w2})

(* The ERP's telephone book: in the mobile's field and in the other's, with the
   long or the short form of the number, and who shares it. *)
Blank4 == [telefone_celular |-> "none", whatsapp |-> "none", fone |-> "none", telefone_comercial |-> "none"]
MCBooks ==
    {k1 :> [Blank4 EXCEPT !.telefone_celular = "short", !.whatsapp = "long"] @@ k2 :> [Blank4 EXCEPT !.fone = "short"],
     k1 :> [Blank4 EXCEPT !.telefone_celular = "short"] @@ k2 :> [Blank4 EXCEPT !.whatsapp = "long"],
     k1 :> [Blank4 EXCEPT !.fone = "short"] @@ k2 :> [Blank4 EXCEPT !.fone = "short"]}
MCSources == <<"contracts", "invoices">>

MCCustomerOf == <<k1, k1, k1>>
MCRegistrations == {[mobile |-> 0, whatsapp |-> 8, email |-> "none", number |-> "zero"],
                    [mobile |-> 11, whatsapp |-> 0, email |-> "valid", number |-> "sn"]}

Understood(intent, confidence, refers, where, pix, angry, home, tried, opening) ==
    [intent |-> intent, confidence |-> confidence, refers |-> refers, where |-> where, pix |-> pix,
     angry |-> angry, home |-> home, tried |-> tried, opening |-> opening]
MCReading ==
    [oi         |-> Understood("general_information", 45, "no", FALSE, FALSE, FALSE, FALSE, "nothing", "none"),
     pix        |-> Understood("financial_pix", 92, "no", FALSE, TRUE, FALSE, FALSE, "nothing", "quero o pix"),
     cade       |-> Understood("general_information", 45, "weak", TRUE, FALSE, FALSE, FALSE, "nothing", "none"),
     caiu       |-> Understood("technical_no_connection", 90, "no", FALSE, FALSE, FALSE, TRUE, "nothing", "caiu a internet"),
     reiniciei  |-> Understood("technical_no_connection", 90, "strong", FALSE, FALSE, TRUE, FALSE, "restart", "none"),
     nao_pessoa |-> Understood("human_handoff", 96, "strong", FALSE, FALSE, FALSE, FALSE, "nothing", "quero uma pessoa"),
     chamado    |-> Understood("technical_ticket", 90, "no", FALSE, FALSE, FALSE, FALSE, "nothing", "abre um chamado")]
MCMessages == DOMAIN MCReading
MCGuesses == {<<"human_handoff", 80>>, <<"financial_pix", 40>>}
MCProfiles == {"default", "tool_timeout", "multiple_invoices", "onu_offline", "ticket_failure"}

(* A customer whose first contract is over; one blocked for debt, with an order open;
   one without a contract; one whose only login is of a contract that is blocked. *)
Contract(id, status, internet, unlocked) ==
    [id |-> id, status |-> status, internet |-> internet, unlocked |-> unlocked]
Login(contract, online, where) == [contract |-> contract, online |-> online, neighborhood |-> where]
MCSituations ==
    {[contracts |-> <<Contract(1, "I", "D", FALSE), Contract(2, "A", "A", FALSE)>>,
      logins |-> <<Login(1, "yes", "norte"), Login(2, "no", "centro")>>, orders |-> <<>>],
     [contracts |-> <<Contract(2, "A", "CA", FALSE)>>, logins |-> <<Login(2, "no", "centro")>>, orders |-> <<9>>],
     [contracts |-> <<>>, logins |-> <<Login(2, "no", "centro")>>, orders |-> <<9>>],
     [contracts |-> <<Contract(1, "I", "CM", FALSE), Contract(2, "A", "A", FALSE)>>,
      logins |-> <<Login(1, "no", "unsaid")>>, orders |-> <<>>]}
Outage(status) == [neighborhood |-> "centro", status |-> status]
MCOutageLists == {<<>>, <<Outage("resolved")>>, <<Outage("investigating"), Outage("resolved")>>}
MCUnderstandings == {<<"technical_no_connection", 90>>, <<"general_information", 45>>}
=============================================================================
