-------------------------------- MODULE Reads --------------------------------
(***************************************************************************)
(* Reading the ERP (readonly-provider.ts, resilience.ts): every query goes *)
(* through one circuit breaker and one limiter of the process, is retried  *)
(* at most RetryLimit times, and counts once however often it is sent.     *)
(* Three of the reads are made of several queries: the snapshot of a       *)
(* customer (kept in a cache, with the sources that failed named), the     *)
(* sweep of the overdue invoices, page by page, and the search of a        *)
(* customer by telephone, field by field.                                  *)
(*                                                                         *)
(* A query that leaves (Ask) and its answer (Answer) are two steps, so the *)
(* queries of several readers overlap and the ERP changes in between.      *)
(***************************************************************************)
EXTENDS Integers, FiniteSets, Sequences, SequencesExt

CONSTANTS
    Readers,     \* reads in progress at a time
    Sources,     \* the lists of a snapshot, in the code's order
    Threshold,   \* failures that open the circuit
    Limit,       \* queries per minute
    RetryLimit,  \* times a query is sent again
    PageSize, MaxPages,
    LastInvoice, \* the overdue invoices, by due date, at first
    Subscribers, \* customers of the ERP
    Books,       \* telephone books: what each customer has in each field
    MaxReads,    \* bound: reads in one behaviour
    MaxAgain,    \* bound: queries of one read that are sent again
    None         \* nothing kept, no result yet

Invoices == 1..LastInvoice
Slots == Range(Sources) \cup {"customer", "plan", "payments", "page"}
Formats == <<"short", "long">>                      \* phoneCandidates
Tiers == << <<"telefone_celular", "whatsapp">>, <<"fone", "telefone_comercial">> >>

ASSUME ReadsAssumption ==
    /\ Threshold \in Nat \ {0} /\ Limit \in Nat \ {0} /\ RetryLimit \in {0, 1}
    /\ PageSize \in Nat \ {0} /\ MaxPages \in Nat \ {0} /\ {MaxReads, MaxAgain} \subseteq Nat
    /\ LastInvoice \in Nat
    /\ {"contracts", "invoices"} \subseteq Range(Sources) /\ Sources \in Seq(STRING)
    /\ IsFiniteSet(Subscribers) /\ None \notin Subscribers \cup {"nobody"}
    /\ Subscribers \cap {"nobody", "snapshot", "error", "complete", "truncated"} = {}

VARIABLES
    circuit,   \* [failures, state]: closed, open, or cooled (open, and the cooldown is over)
    window,    \* queries the limiter remembers
    cached,      \* the snapshot cache: the sources missing from it, or None
    overdue,   \* the ERP's overdue invoices, by due date
    reader,    \* the local variables of each read
    reads      \* reads begun, up to MaxReads

readsVars == <<circuit, window, cached, overdue, reader, reads>>

Unsent == [s \in Slots |-> [at |-> "no", tries |-> 0]]
Nothing == [kind |-> "free", out |-> Unsent, page |-> 0, rows |-> <<>>, total |-> 0, there |-> {},
            tier |-> 1, query |-> 1, found |-> {}, book |-> None,
            result |-> None]

ReadsTypeOK ==
    /\ circuit \in [failures : 0..Threshold, state : {"closed", "open", "cooled"}]
    /\ window \in 0..Limit
    /\ cached = None \/ cached \subseteq Slots
    /\ overdue \in Seq(Invoices)
    /\ \A r \in Readers : reader[r].page \in 0..MaxPages /\ reader[r].there \subseteq Invoices

ReadsInit ==
    /\ circuit = [failures |-> 0, state |-> "closed"] /\ window = 0 /\ cached = None
    /\ overdue = [i \in Invoices |-> i] /\ reads = 0
    /\ reader = [r \in Readers |-> Nothing]

(***************************************************************************)
(* Time, and the ERP's own changes.  No invoice becomes overdue during a   *)
(* sweep: the day it filters by is fixed when it begins.                   *)
(***************************************************************************)
CooldownEnds ==
    /\ circuit.state = "open" /\ circuit' = [circuit EXCEPT !.state = "cooled"]
    /\ UNCHANGED <<window, cached, overdue, reader, reads>>

WindowSlides ==
    /\ window > 0 /\ window' = window - 1
    /\ UNCHANGED <<circuit, cached, overdue, reader, reads>>

SnapshotExpires ==
    /\ cached # None /\ cached' = None
    /\ UNCHANGED <<circuit, window, overdue, reader, reads>>

InvoiceIsPaid ==
    /\ \E r \in Readers : reader[r].kind = "sweep"   \* nobody else looks at the invoices
    /\ \E n \in DOMAIN overdue :
          /\ overdue' = RemoveAt(overdue, n)
          /\ reader' = [r \in Readers |-> [reader[r] EXCEPT !.there = @ \ {overdue[n]}]]
    /\ UNCHANGED <<circuit, window, cached, reads>>

(***************************************************************************)
(* readPage: the circuit, the limiter, the queries, the retry.  A list of  *)
(* queries sent together passes the checks one after the other.            *)
(***************************************************************************)
Leaving(ss) ==   \* how many of them leave
    IF circuit.state = "open" THEN 0
    ELSE IF Len(ss) < Limit - window THEN Len(ss) ELSE Limit - window

Ask(r, ss, change) ==
    LET asked(s) == IF \E i \in 1..Leaving(ss) : ss[i] = s THEN [at |-> "out", tries |-> 0]
                    ELSE IF s \in Range(ss) THEN [at |-> "failed", tries |-> 0]
                    ELSE change.out[s]
    IN  /\ window' = window + Leaving(ss)
        /\ circuit' = IF circuit.state = "cooled" THEN [failures |-> 0, state |-> "closed"]
                      ELSE circuit
        /\ reader' = [reader EXCEPT ![r] = [change EXCEPT !.out = [s \in Slots |-> asked(s)]]]

State(r, s) == reader[r].out[s].at
Settled(r, s) == State(r, s) \in {"ok", "failed"}

\* The rows a page holds when the ERP answers, and who has a number in a field.
Page(n) == SubSeq(overdue, (n - 1) * PageSize + 1,
                  IF n * PageSize < Len(overdue) THEN n * PageSize ELSE Len(overdue))
Queries(tier) == [i \in 1..4 |-> [format |-> Formats[((i - 1) \div 2) + 1],
                                  field |-> Tiers[tier][((i - 1) % 2) + 1]]]
Holders(r, q) == {c \in Subscribers : reader[r].book[c][q.field] = q.format}

\* What the answer to a query leaves in its reader.
Received(r) ==
    CASE reader[r].kind = "sweep" ->
            [reader[r] EXCEPT !.rows = @ \o Page(reader[r].page), !.total = Len(overdue)]
      [] reader[r].kind = "search" ->
            LET who == Holders(r, Queries(reader[r].tier)[reader[r].query]) IN
            [reader[r] EXCEPT !.found = @ \cup who]
      [] OTHER -> reader[r]

Answer(r, s) ==
    /\ State(r, s) = "out"
    /\ circuit' = [failures |-> 0, state |-> "closed"]
    /\ reader' = [reader EXCEPT ![r] = [Received(r) EXCEPT !.out[s].at = "ok"]]
    /\ UNCHANGED <<window, cached, overdue, reads>>

\* A time-out, a 429, a 5xx: the query is sent again, at most RetryLimit times.
SendAgain(r, s) ==
    /\ State(r, s) = "out" /\ reader[r].out[s].tries < RetryLimit
    /\ Cardinality({t \in Slots : reader[r].out[t].tries > 0}) < MaxAgain
    /\ reader' = [reader EXCEPT ![r].out[s].tries = @ + 1]
    /\ UNCHANGED <<circuit, window, cached, overdue, reads>>

\* A failure while the circuit is open opens it anew; past Threshold nobody counts.
Fail(r, s) ==
    /\ State(r, s) = "out"
    /\ LET n == IF circuit.failures < Threshold THEN circuit.failures + 1 ELSE Threshold IN
       circuit' = [failures |-> n, state |-> IF n >= Threshold THEN "open" ELSE circuit.state]
    /\ reader' = [reader EXCEPT ![r].out[s].at = "failed"]
    /\ UNCHANGED <<window, cached, overdue, reads>>

Done(r, result) == reader' = [reader EXCEPT ![r] = [Nothing EXCEPT !.kind = "done", !.result = result]]

Free(r) == reader[r].kind \in {"free", "done"} /\ reads < MaxReads

(***************************************************************************)
(* getSnapshot: the customer first, the four lists together, then what     *)
(* hangs on a contract or an invoice; a list that fails is left out, named *)
(* as missing, and the snapshot is kept all the same.  (One query stands   *)
(* for the payments of up to ten invoices.)                                *)
(***************************************************************************)
SnapshotBegins(r) ==
    /\ Free(r) /\ reads' = reads + 1
    /\ \E force \in BOOLEAN :
          IF cached # None /\ ~force
          THEN Done(r, "snapshot") /\ UNCHANGED <<circuit, window>>
          ELSE Ask(r, <<"customer">>, [Nothing EXCEPT !.kind = "snapshot"])
    /\ UNCHANGED <<cached, overdue>>

Snapshots(r) == reader[r].kind = "snapshot"
ListsSettled(r) == \A s \in Range(Sources) : Settled(r, s)

\* The next queries of a snapshot, or none when it is complete.
Following(r) ==
    CASE State(r, "contracts") = "no" -> Sources
      [] State(r, "contracts") = "ok" /\ State(r, "plan") = "no" -> <<"plan">>
      [] State(r, "invoices") = "ok" /\ State(r, "payments") = "no" -> <<"payments">>
      [] OTHER -> <<>>

MayFollow(r) ==
    /\ Snapshots(r) /\ State(r, "customer") = "ok"
    /\ State(r, "contracts") = "no" \/ ListsSettled(r)
    /\ State(r, "plan") # "out" /\ State(r, "payments") # "out"

SnapshotFollows(r) ==
    /\ MayFollow(r) /\ Following(r) # <<>>
    /\ Ask(r, Following(r), reader[r])
    /\ UNCHANGED <<cached, overdue, reads>>

SnapshotIsKept(r) ==
    /\ MayFollow(r) /\ Following(r) = <<>>
    /\ cached' = {s \in Slots : State(r, s) = "failed"}
    /\ Done(r, "snapshot")
    /\ UNCHANGED <<circuit, window, overdue, reads>>

SnapshotFails(r) ==
    /\ Snapshots(r) /\ State(r, "customer") = "failed"
    /\ Done(r, "error") /\ UNCHANGED <<circuit, window, cached, overdue, reads>>

(***************************************************************************)
(* listOverdueInvoices: page after page, until a page is short, the rows   *)
(* reach the total the ERP gave with the last page, or MaxPages are read.  *)
(***************************************************************************)
SweepBegins(r) ==
    /\ Free(r) /\ reads' = reads + 1
    /\ Ask(r, <<"page">>, [Nothing EXCEPT !.kind = "sweep", !.page = 1, !.there = Range(overdue)])
    /\ UNCHANGED <<cached, overdue>>

Sweeping(r) == reader[r].kind = "sweep"
Exhausted(r) == \/ Len(reader[r].rows) < reader[r].page * PageSize
                \/ Len(reader[r].rows) >= reader[r].total
                \/ reader[r].page = MaxPages

Truncated(r) == Len(reader[r].rows) < reader[r].total

SweepTurns(r) ==
    /\ Sweeping(r) /\ State(r, "page") = "ok" /\ ~Exhausted(r)
    /\ Ask(r, <<"page">>, [reader[r] EXCEPT !.page = @ + 1])
    /\ UNCHANGED <<cached, overdue, reads>>

SweepEnds(r) ==
    /\ Sweeping(r) /\ Settled(r, "page") /\ (State(r, "page") = "ok" => Exhausted(r))
    /\ IF State(r, "page") = "failed" THEN Done(r, "error")
       ELSE reader' = [reader EXCEPT ![r] =
              [Nothing EXCEPT !.kind = "done", !.rows = reader[r].rows, !.there = reader[r].there,
                              !.result = IF Truncated(r) THEN "truncated" ELSE "complete"]]
    /\ UNCHANGED <<circuit, window, cached, overdue, reads>>

(***************************************************************************)
(* findCustomerByPhone: each format of the number in each field of the     *)
(* first tier; the second only when nobody was found; never a guess.       *)
(***************************************************************************)
SearchBegins(r) ==
    /\ Free(r) /\ reads' = reads + 1
    /\ \E b \in Books : Ask(r, <<"page">>, [Nothing EXCEPT !.kind = "search", !.book = b])
    /\ UNCHANGED <<cached, overdue>>

Searching(r) == reader[r].kind = "search"
Ambiguous(r) == Cardinality(Holders(r, Queries(reader[r].tier)[reader[r].query])) > 1
\* Mutant: the other format of the number is not asked for.
TierIsHalfRead(r) == reader[r].query = 2
TierIsRead(r) == reader[r].query = 4
TheOne(S) == CHOOSE c \in S : TRUE

SearchTurns(r) ==
    /\ Searching(r) /\ State(r, "page") = "ok" /\ ~Ambiguous(r)
    /\ \/ /\ ~TierIsRead(r)
          /\ Ask(r, <<"page">>, [reader[r] EXCEPT !.query = @ + 1])
       \/ /\ TierIsRead(r) /\ reader[r].found = {} /\ reader[r].tier = 1
          /\ Ask(r, <<"page">>, [reader[r] EXCEPT !.query = 1, !.tier = 2])
    /\ UNCHANGED <<cached, overdue, reads>>

SearchEnds(r) ==
    /\ Searching(r)
    /\ \/ State(r, "page") = "failed" /\ Done(r, "error")
       \/ State(r, "page") = "ok" /\ Ambiguous(r)
          /\ reader' = [reader EXCEPT ![r] = [Nothing EXCEPT !.kind = "done", !.book = reader[r].book,
                                                            !.result = "nobody"]]
       \/ /\ State(r, "page") = "ok" /\ ~Ambiguous(r) /\ TierIsRead(r)
          /\ reader[r].found # {} \/ reader[r].tier = 2
          /\ reader' = [reader EXCEPT ![r] =
                [Nothing EXCEPT !.kind = "done", !.book = reader[r].book,
                    !.result = IF Cardinality(reader[r].found) = 1
                               THEN TheOne(reader[r].found) ELSE "nobody"]]
    /\ UNCHANGED <<circuit, window, cached, overdue, reads>>

ReadsNext ==
    \/ CooldownEnds \/ WindowSlides \/ SnapshotExpires \/ InvoiceIsPaid
    \/ \E r \in Readers :
          \/ \E s \in Slots : Answer(r, s) \/ SendAgain(r, s) \/ Fail(r, s)
          \/ SnapshotBegins(r) \/ SnapshotFollows(r) \/ SnapshotIsKept(r) \/ SnapshotFails(r)
          \/ SweepBegins(r) \/ SweepTurns(r) \/ SweepEnds(r)
          \/ SearchBegins(r) \/ SearchTurns(r) \/ SearchEnds(r)

ReadsSpec == ReadsInit /\ [][ReadsNext]_readsVars

-----------------------------------------------------------------------------
(***************************************************************************)
(* Exactly one customer, or nobody: when every query was answered, the     *)
(* search finds a customer only if that customer alone has the number, in  *)
(* whatever format, in the first tier of fields in which anyone has it.    *)
(***************************************************************************)
WhoHas(book, tier) ==
    {c \in Subscribers : \E i, f \in 1..2 : book[c][Tiers[tier][i]] = Formats[f]}

Caller(book) ==
    LET who == IF WhoHas(book, 1) # {} THEN WhoHas(book, 1) ELSE WhoHas(book, 2)
    IN  IF Cardinality(who) = 1 THEN TheOne(who) ELSE "nobody"

ExactlyOneOrNobody ==
    \A r \in Readers : reader[r].result \in Subscribers \cup {"nobody"} =>
        reader[r].result = Caller(reader[r].book)

(***************************************************************************)
(* A sweep that is not said to be truncated has every invoice that was     *)
(* overdue from its first page to its last ("quem chama recebe `truncated` *)
(* ..., em vez de um total menor apresentado como se fosse completo").     *)
(* Not so in this code: a payment between two pages moves the rows, and    *)
(* TLC finds the invoice that is on neither.                               *)
(***************************************************************************)
CompleteIsComplete ==
    \A r \in Readers : reader[r].result = "complete" => reader[r].there \subseteq Range(reader[r].rows)
=============================================================================
