# LZR HUB: specifications and proofs

LZR HUB is the operations console of an internet provider: a Next.js
application over Postgres that talks to customers through WhatsApp (Meta's
Cloud API, n8n, Evolution), reads from and writes to the provider's ERP (IXC),
classifies messages with rules and a language model, hears of network outages
from Telegram, and hands work to a BullMQ runtime. This directory holds TLA+
models of the parts where a message, a reservation, a row or an external call
can be lost, repeated or believed when it should not be, the TLC configurations
that check them, and the theorems TLAPS proves of them.

Paths below are relative to `src/`; P stands for `lib/platform`.

## 1. Inventory

| Component | State it keeps | Operations | What makes it correct | Module |
|---|---|---|---|---|
| Outbound texts (P`/meta-auto-reply-service.ts`, `attendant-reply-service.ts`, `lib/integrations/meta/cloud-client.ts`) | the reservation row of `channel_idempotency_keys` | look up, reserve, send, settle or release | one text per key reaches the customer, but for those a sender disowned; every answer to a caller is as true as the sender can know | `OutboundText`, `ReplyClaims` |
| WhatsApp webhook (`app/api/channels/meta/route.ts`, P`/n8n-channel-service.ts`) | `channel_messages`, the idempotency row of a wamid | triage, gate, classify, deliver, record | nothing acknowledged is lost, rows of the AI are real, one automatic answer per gate | `MetaInbound` |
| n8n and Evolution (P`/n8n-channel-service.ts`, `support-metrics.ts`, two routes) | the same rows, outcomes and ratings | process a message, ask for a rating, take one | a POST that comes twice counts once | `ChannelTurn` |
| Conversation state (P`/conversation-state-*.ts`, two routes) | `conversation_states` | claim, take over, release, resolve, reopen, claim on reply | nobody loses or gets a conversation without a decision | `ConversationState` |
| Delivery receipts (P`/delivery-status-service.ts`) | `delivery_status` of a message | apply a receipt | the status shown is the furthest reported | `DeliveryReceipts` |
| Tickets (P`/triage-*.ts`, `connection-diagnosis-shared.ts`) | `support_tickets` | open, identify, record the subject, diagnose, close | what is known stays known, the advice fits the facts | `Triage`, `MetaInbound`, `ConversationState` |
| IXC writes (P`/ixc-write-service.ts`, `lib/integrations/ixc/write-client.ts`, four routes) | `ixc_write_operations` | gather, replay, policy, call, record | the ledger tells what the ERP did | `IxcWrites` |
| IXC reads (`lib/integrations/ixc/readonly-provider.ts`, `resilience.ts`) | circuit, limiter, cache (per process) | snapshot, sweep, search by telephone | an answer that is missing is not an absence | `Reads` |
| Contract audit (P`/contract-audit-*.ts`) | `contract_audits`, a stopping point, runs | a pass, a re-check, a button | no contract is skipped | `ContractAudit` |
| Agent pipeline (`lib/agent`) | the conversation | understand, run tools, hand off, reply | nothing is said to be done without a receipt | `Agent` |
| Queue runtime (`services/queue-runtime`) | BullMQ jobs, dead letters | enqueue, work, retry, cancel | an accepted job ends; its work is done once, or it is findable | `JobQueue` |
| Collections and notices (P`/collection-*.ts`, `mass-notice-service.ts`, `incidents-service.ts`) | rules, ledgers of contacts | save a rule, run, notify | whoever is contacted is on the ledger, and the other way round | `Campaigns` |
| Payment promises (P`/payment-promise-service.ts`) | promises | create, review | a verdict has its reason and stands | `Promises` |
| Accounts (P`/auth.ts`, `login-throttle.ts`, `user-admin.ts`, `password-reset.ts`, `ixc-user-sync.ts`) | users, sessions, attempts, requests | log in and out, change, reset, administer, synchronise | an administrator remains; old passwords open nothing | `Accounts` |
| Internal chat (P`/internal-chat-service.ts`) | threads, participants, messages | open, post, read | what was not shown is unread | `InternalChat` |
| Leads (P`/crm-*.ts`) | leads and their history | capture, create, move | who is a customer is no lead | `Leads` |
| Network alerts (P`/network-alerts-service.ts`, Telegram's route and parser) | alerts | open, close, keep the unknown | open is what was heard last | `NetworkAlerts` |
| Templates, knowledge, goals, teams (P) | one row each | save, remove | saved is stored, the audit is a chain | `Registers` |
| Dashboards (P`/billing-service.ts`, `churn-risk-service.ts`, `sales-*.ts`, `support-metrics.ts`, `cockpit-service.ts`) | none | compute | figures add up, and move as their facts do | `Figures` |
| Attendance screen (`components/modules/attendance.tsx`, P`/conversations-service.ts`) | what one browser shows and has in the air | poll, select, search, write, reply, change state | it catches up; a draft stays where it was written | `Attendance` |
| Copilot, 360 view, pilot, other screens, observability | none that is read back | – | – | section 8 |

How they interact. Meta POSTs to the webhook, and POSTs again when it does not
hear 200. The route opens or continues a ticket, asks the gate whether the AI
may answer by itself, processes the message (idempotency, classification,
reply), records the turn and updates the ticket, with a diagnosis from the
ERP's reads where the subject calls for one. The reply goes through the
reservation that the attendants' reply uses as well. Attendants change the
conversation's state at any moment from screens that poll. Meta later reports
receipts of what went out. Writes to the ERP are requests of attendants.
Collections and notices write a ledger and enqueue jobs in the runtime under
the same key.

Hard behaviours: deliveries and requests that overlap or repeat; a text that
may have gone out behind a timeout; two database writes with a crash between
them; a row read, decided upon, and written whole; receipts, alerts and answers
out of order; an ERP call of four steps that stops halfway; caches and pages
that are stale when used. `hazards` in `PROJECT.json` lists each at its line.

## 2. Modules

| Module | What it is |
|---|---|
| `OutboundText` | abstract: the promise of the two senders |
| `ReplyClaims` | the senders over the reservation, with Meta on the wire; implements `OutboundText` |
| `MetaInbound` | extends `ReplyClaims`: the webhook handler, the records, the ticket, the attendants; implements `ReplyClaims` |
| `ConversationState`, `DeliveryReceipts`, `ChannelTurn` | three parts of a channel; `Channel` runs them |
| `IxcWrites` | the four write operations and their ledger |
| `JobQueue`, `Campaigns` | the queue runtime, and the runs that fill it (extends `JobQueue`; every step of the queue is a step of the campaign) |
| `Promises`, `Accounts`, `InternalChat`, `Leads`, `NetworkAlerts`, `Registers`, `Figures` | parts of the back office; `Office` runs them |
| `Reads`, `ContractAudit`, `Agent`, `Triage` | parts that deal with the outside; `Outside` runs them |
| `Attendance` | one browser against the server |
| `*Proofs` | theorems: of one component each, or of all parts of a composite (`ChannelProofs`, `OfficeProofs`, `OutsideProofs`) |
| `MC*` | instances for TLC |

`Channel`, `Office` and `Outside` put together parts that share no row. A
behaviour of theirs is one of one part while the others wait where they began,
so one run checks each part with all its interleavings, and nothing is lost:
what one part does no other can see. Where parts do share rows they are one
module (`MetaInbound` with the reservation, the state and the ticket;
`ConversationState` with the webhook's ticket; `Campaigns` with the queue).

Definitions called `<Action><What goes wrong>` and commented as mutants are the
plausible bugs each property was tried against; no specification uses them.

Auxiliary variables restrict nothing. Where a request decides by what it read
earlier, and nothing in the code ties its write to that read, a promise of the
comments cannot hold without exception; an auxiliary then says exactly when it
may fail, and the property is stated for every other case: `overtaken`,
`closedBehind` and `untriaged` (`ConversationState`), `contested` and `unread`
(`Promises`), `outvoted`, `cut` and `crowded` (`Accounts`), `missed`
(`InternalChat`), `tangled` (`Leads`), `muddled` (`NetworkAlerts`), `withdrawn`
and `blended` (`Registers`), `raced`, `lost` and `redone` (`JobQueue`), `seen`
(`MetaInbound`). Each is set by the overlap, the failure or the crash it names
and by nothing else. A property with such an exception does not say that the race
it exempts is harmless: it says that nothing else breaks the promise. Where a
comment or a document makes the promise without the exception, the module states
that too, and section 3 says what TLC finds (`SomebodyAlwaysManages`,
`KeptIsPaid`, `DoubleClickIsOne`, `NextMessageOpensAnother`, `OutageIsOneRow`,
`CancelledIsUndone`, `FailedIsOnTheList`, ...). Of `missed`, `tangled`, `blended`
and `contested` the code promises nothing: what arrives while a thread is being
marked, two moves of one lead, two edits of one row, two reviews of one promise.

### OutboundText and ReplyClaims

An attempt is one call of `metaAutoReplySender` (key: the wamid) or
`sendAttendantReply` (key: the click). `claim[k]` is the row: none, `pending`,
`sent` with the text, or `unknown`. `FindSent`, `FindUnsettled`, `FindNothing`
are the look-up; `PolicyBlocks` stands for every refusal before the
reservation; `Reserve` / `LoseRace` / `ReserveFails` are the insert with
`onConflictDoNothing`; `Send` puts the request on the wire; `MetaAccepts` and
`MetaTurnsAway` are Meta; `HearAccepted` and `HearFailure` what
`sendTextMessage` makes of it; `SettleFailure` keeps the row as `unknown`
after a timeout and releases it otherwise (`AfterFailure`); `SettleAccepted`
marks it `sent`; every settling may fail, as the code swallows that error. `Die`
ends the process anywhere.

A failure that carries an error code of Meta (`"refused"`) means that the text did
not go. The other three may hide a text that Meta accepted: `"timeout"`;
`"unreachable"`, a connection that breaks after the request was sent
(cloud-client.ts:90); `"rejected"`, a 2xx whose body cannot be read or has no id
(:84, :109). The senders know that of the timeout only. `Disowned(a)` is an attempt
that heard one of the last two: it gives its text up for lost, releases the
reservation, and the next attempt sends. What the reservation keeps is therefore
one text per key *but for the disowned ones*, and every property of the senders
says so; `OneCopyReaches`, the promise of the comments, is violated (`claims_copy`).

`OutboundText` says: an attempt reaches the customer (`Reach`) only if whatever
reached them for its key before was disowned, or it is disowned itself; who
disowns (`Disown`) does not answer "sent"; "sent" (`Tell`) names a text the
customer has. The refinement maps the accepted attempts of a key to its texts, the
answers `sent` to what was told, and `Disowned` to what was given up.

### MetaInbound

A delivery is an attempt, a message a key. `step[d]` is the handler's place,
`turn[d]` what it read and decided, `history` the rows of `channel_messages`
in order (positions stand for time), `processed` the idempotency rows, `state`
and `ticket` the two rows the handler and the attendants share. One action per
await of the POST: `Triage`, `Gate`, `FindProcessed`, `Classify`, `Reply` (the
senders' steps, one by one), `SaveTurn`, `KeepResponse` / `KeepConflicts`,
`Note`. `Fail` is an exception or a crash anywhere. Attendants: `HumanClaims`,
`HumanReplies`, `HumanReleases`, `HumanResolves`. Reads that follow each other
with nothing but reads between are one action, which only narrows windows that
other awaits keep open. The kind of each message (text, over-long text, not
text) is chosen in the initial state. `turn[d].seen` remembers how long the history
was at the gate: `OneAnswerPerGate` says that a second automatic answer in one wait
is of a delivery that passed the gate before the first one was in the history, or
of the answer to the menu; `MenuWasAsked` that a ticket waits for that answer only
if the customer has the text that asks.

### ConversationState

A request goes `Begin`, `ReadLast` (time of the last customer message), then
reads the row and leaves (`Leave`: redundant or refused) or decides (`Decide`),
then `Save`, then `CloseTicket` for a resolution. `reply` is `claimIfUnassigned`,
which looks once and then goes through the same reads as `claim`. The webhook is
`Receive` (the ticket goes on, or `NextTicket` opens another) or
`ReceiveUntriaged` (the error of the ticket table is swallowed,
triage-service.ts:226, before or after its row was written), and then
`RecordMessage` (history) in both cases. `untriaged` is a last message that left no
ticket open. `overtaken` is a request whose
reads are no longer so, `closedBehind` a ticket that a resolution closed behind
a message that passed it. `Observe` maintains both.

### DeliveryReceipts

`SaveRow`/`SaveFails` are the sender's insert, `Issue` is Meta, `Apply` the
guarded UPDATE: the receipt stays in `inbox` if Meta delivers it again. `early`
remembers the receipts handled before the row existed.

### ChannelTurn

A POST of one of the automations that send the reply by themselves. It looks for
its key, reads whether a rating is awaited, classifies, and saves outcome,
rating, rows and key one by one; any save may fail and the automation may POST
again, at once or later. `dialogue` are the rows in order, `rating` the messages
counted as a rating. `IsAwaitingCsat` is the question of the code: the last row
an agent wrote, suggestions aside, asks for a rating. The conversation may have
begun before (`Asked`).

### IxcWrites

A request goes: the route gathers (`Gather` through the snapshot cache, or
`LookUpCustomer`), `Replay` if the key has a row, else `FindNothing`; `Block` or
`Call`; `Hear` for each good answer (four of a renegotiation, one otherwise),
`HearError` for every other; `Link` of a created customer; `RecordSuccess`;
`RecordFailed`, which is also where a failing success insert ends, as it does
in the code; `Break` for a read that throws outside any catch and for crashes.
The IXC is `CarryOut` and `Refuse`, which may come after the caller gave up.
`mode` is chosen once: the operation, and whether its requests overlap. A
subject is what the policy protects; `paid` is what others settle in the ERP.
`LooksGood` is the check of the answer, which the second copy of a boleto lacks.

### JobQueue and Campaigns

A job is a queue with an idempotency key (`stableJobId`). `Ask` begins a call of
the API; each round trip to Redis is a step: find and add, retry, drop the
record, mark as cancelled, remove. `Work` is the worker: `Take`, then the
processor throws (`Fail`: backs off, or fails for the last time, after which the
listener, `handler`, looks for the dead-letter record and writes it), or comes to
its end (`ProcessorEnds`), which BullMQ hears of in a call of its own
(`MoveToCompleted`). A worker that dies takes along an end not yet told: the job is
given out once more (`Stall`), and its work done again (`redone`). The second time
BullMQ fails it with whatever attempts it has left (`StallFails`), and the listener
returns for a job that has some (worker.mjs:35), so it is among the failed without
a dead letter: `UsedUp` are the jobs the list is about.
`Campaigns` adds the rule
(a save is two inserts), the incident, and runs that decide who is contacted
(`batch`), record them in the ledger with a unique key, and enqueue one job
each; a run may die or lose a call anywhere. `kind` is chosen once: operators,
collections, or notices. Everything happens on one business day.

### Promises, Accounts, InternalChat, Leads, NetworkAlerts, Registers

In all of them a request is a sequence of reads and writes of its own, one
action each, any of which may fail, and requests overlap between any two.
`Promises`: reviews list the pending rows, ask the ERP once a customer, judge,
and write row by row. `Accounts`: passwords are numbers, a session remembers the
password it was opened with, failures are counted for the e-mail and for the
address; `Plans` says which kinds of requests meet in a behaviour. `InternalChat`
is one thread with its two inserts, three writes to post, and a reading that
fetches first and marks afterwards. `Leads` has the capture behind the triage
(read the ticket, ask the ERP, capture, note), and moves that write the lead and
then its history. `NetworkAlerts` finds the open rows of a key and then closes or
inserts. `Registers` is a row of each of four tables with an audit trail.

### Figures

Not requests but computations: each operator is the function of the code, over
invoices, orders, leads, sales and outcomes that change as days pass, and with
sources (`down`) that stop answering: the ERP, the database, Langfuse, and each of
the lists of a customer, which `getSnapshot` then answers empty, with its name in
`partialSources`. Properties relate the results to one
another and to the step that changed their facts.

### Reads, ContractAudit, Agent, Triage

`Reads`: a query that leaves (`Ask`) and its answer are two steps, under one
circuit breaker and one limiter; the snapshot with its cache and the names of
the sources that failed, the sweep page by page, and the search by telephone,
tier of fields by tier. `ContractAudit`: one action per query and per database
call of a pass, in the code's order, with the lock, the stopping point, the
re-checks, the backfill, and a button; a stamp is the number of passes begun,
and the list a pass works through is a set with the next one in the code's order
at hand.
`Agent`: a message is what the rules see in it (`Reading`); `ResolveIntent` is
what it means after the history, the tools give receipts or failures,
`DecideHandoff` and the evidence gates decide the text (`HasUnsafeSuccessClaim`
asks nothing of the fixed replies, none of which claims a success), over whole
conversations of the training screen, the homologation and the channel. The
language model may answer anything of `Guesses`. `Triage`: the ticket as
overlapping messages write it, each by the row it read at its start, and
`DiagnoseConnection` as an operator over what the ERP has of the customer.

### Attendance

The screen's state, and the requests in the air. The server's past is kept, and
an answer may be of any moment between question and answer, arrive in any order,
or fail. `ListAnswer`, `HistoryAnswer`, `ReplyAnswer` and `ChangeAnswer` do
what the handlers do with it, including where they do not look whether the
conversation they asked about is still open.

## 3. Runs

| Run | Instance | Shows |
|---|---|---|
| `claims` | 3 attempts of 1 key, overlapping; every kind of failure, answers lost, crashes, database errors | `AtMostOnce`, `AnswersAreSound`, `ReservationHolds`, the refinement, and that attempts end |
| `inbound` | 1 message of each kind, delivered twice, overlapping, 1 fault, 1 event, failures that may hide a delivery | `HistoryIsReal`, `FollowsReservation` (the handler refines `ReplyClaims`), `EveryMessageIsKept`, `NothingIsLost` |
| `inbound_turns` | 2 messages handled at once, 1 fault, 2 events, failures that may hide a delivery; symmetric | `OneAnswerPerGate`, `MenuWasAsked` |
| `writes` | 3 requests, 2 of one key, 1 subject, 1 fault; renegotiations overlapping, the others one after another | `SuccessIsWhole`, `LedgerTellsHowFar`, `AnswersAreOnRecord`, `RepeatsAreHarmless` |
| `channel` | 3 requests and 2 customer messages; 2 texts with all receipts; 2 POSTs, of one message or of two, in a new conversation or after the question | `WritesAreDeliberate`, `WaitingHasTicket`; `NothingIsForgotten`, `NeverDowngrades`; `PostsCountOnce` |
| `dispatch` | 3 calls of operators about 2 jobs, of which one uses up its attempts; or 2 runs of 1 invoice, or of the notices to 1 customer; 2 faults, so that a job stalls twice | `JobsAreKept`, `ContactsAreTold`, `AcceptedEnds` |
| `office` | 2 or 3 requests of each part | `SomebodyManages`, `EntryIsGuarded`, `UnseenIsUnread`, `LeadsAreTrue`, `OpenIsLastHeard`, `EditsAreTold`, `VerdictsAreSound`, `FiguresAreHonest` |
| `outside` | 2 readers, 2 passes and a button, conversations of 5 rows, 2 messages in a ticket | `ExactlyOneOrNobody`, `NothingIsSkipped`, `RepliesHaveReceipts`, `TicketsAreReliable` |
| `screen` | 2 conversations, 2 events, 1 failure, 2 requests of a kind in the air | `CatchesUp` |

Several properties are conjunctions of parts with a comment and a name of their
own next to them (`AnswersAreSound == ToldTheTruth /\ FailedMeansNotSent`); each
part says one thing, the property what they give together.

Where the code and what it says of itself part ways, a run finds the behaviour:

| Run | The code says | The run shows |
|---|---|---|
| `writes_race` | "reenviar a mesma chave nunca dispara duas vezes" | two overlapping requests with one key both call the IXC |
| `claims_copy` | "Nos demais casos a Meta recusou, e soltar é seguro" | an unreadable 2xx, or a connection that breaks, releases the reservation of a text that went out, and the redelivery sends it again |
| `screen_draft` | "O rascunho é da conversa em que foi escrito" | a late change of state selects its conversation again, over the draft of another |

### Divergences without a run of their own

These promises are stated in the modules, next to the checked properties, with the
words "Not so in this code". Each was checked in a configuration that differs from
the one of the run named only in what the last column says; adding the definition
to its INVARIANTS or PROPERTIES finds the behaviour.

| Definition | What is said | What happens | Run |
|---|---|---|---|
| `MetaInbound!OnePerWait` | "uma por espera" (conversation-state-shared.ts:82) | two messages handled at once are both answered | `inbound_turns` |
| `MetaInbound!SectorStays` | "não pode mudar o setor de quem pediu segunda via" (triage-service.ts:121) | a vague message that read the ticket before a clear one wrote it | `inbound_turns` |
| `MetaInbound!SentIsOnRecord` | "registra o que saiu, sem reenviar" (meta-auto-reply-service.ts:62) | the gate comes first, and what went out stays off the record | `inbound` |
| `ConversationState!NextMessageOpensAnother` | "A próxima fala abre outro, com outro protocolo" (triage-service.ts:78) | a message goes on in the ticket a resolution is closing | `channel` |
| `ConversationState!DoubleClickIsOne` | "duplo clique não vira duas linhas" (conversation-state-service.ts:13) | both requests read before either writes | `channel` |
| `DeliveryReceipts!FailureIsSeen` | "O atendente precisa ver essa falha" (delivery-status-service.ts:10) | a failure before the row is gone | `channel` |
| `IxcWrites!UnnamedLeftNothing` | "Falhou antes de gravar qualquer coisa no IXC (passo 1)" (ixc-write-service.ts:487, and write-client.ts:302) | the first call times out, or answers without an id, and was carried out | `writes` |
| `IxcWrites!OncePerSubject` | "relido do IXC agora" (service-orders route:67) | the cached snapshot misses the order just opened | `writes` |
| `IxcWrites!SuccessIsReal` | "uma recusa viraria sucesso" | a refused second copy is a success | `writes` |
| `JobQueue!FailedIsOnTheList` | a failed job is in the DLQ (docs/architecture.md:47) | the retry of a dead letter removes the record of the next failure | `dispatch` |
| `JobQueue!CancelledIsUndone` | "JOB_CANNOT_BE_CANCELLED" for what is not waiting (runtime.mjs:161) | a worker takes the job between the look and the flag | `dispatch` |
| `Campaigns!OneContactADay` | "zero duplicidade de cobrança" (db/schema.ts:138) | a rule saved again has new step ids | `dispatch` with two versions |
| `Accounts!SomebodyAlwaysManages` | "Esta é a última conta capaz de gerenciar usuários" (user-admin.ts:72) | two managers demote each other at once | `office` |
| `NetworkAlerts!OutageIsOneRow` | "Reenvio da mesma queda ainda aberta: não duplica" (network-alerts-service.ts:71) | two deliveries both find nothing open | `office` |
| `NetworkAlerts!UnknownIsKept` | "nunca descartado" | unknown alerts share one key; the second is dropped | `office` with two unknown texts |
| `Promises!KeptIsPaid` | "nunca marca "cumprida" … sem checar o IXC" (payment-promise-service.ts:92) | an invoice the ERP did not answer for counts as paid | `office` |
| `Figures!UnansweredIsDeclared` | "cadastro que não respondeu é declarado, não silenciado" (tests/billing.test.mjs:71) | a list that failed, named in `partialSources`, counts as an empty one in the position of the allowlist and in the queue of risk | `office` |
| `Figures!CancelledLeavesGoal` | "um contrato cancelado depois da gravação deixaria a meta batida para sempre" (sales-goals-service.ts:13) | it does: activations count, whatever became of them, as sales-service.ts:28 wants it ("A venda continua contando") | `office` with `MaxNews` 4 |
| `Figures!NoProjectionOnFirstDay` | "No dia 1º …" | the first day is projected too | `office` |
| `Leads!NoLeadInDoubt` | "Na dúvida, não cria lead" | a shared number becomes a lead | `office` |
| `ContractAudit!BornIncompleteStays` | "não apaga o fato" | a stale row is written whole over a newer one | `outside` |
| `Reads!CompleteIsComplete` | "em vez de um total menor" (readonly-provider.ts:165) | a payment between two pages hides an invoice | `outside` |
| `Agent!AskedForAPersonGetsOne` | "Pede pessoa … Transbordo com resumo" (docs/issue-3 report:109) | "não, quero uma pessoa" takes the intention of an earlier message: its tools answer and no handoff is made, though the conversation on WhatsApp stays in the queue | `outside` |
| `Agent!RepetitionIsTheCustomers` | a repetition is the customer's | the caller's own message counts | `outside` |
| `Attendance!WarnedBeforeTaking` | the dialog asked about that one | Alt with an arrow changes the conversation under it | `screen` with more events |

One more window the models reach and no invariant forbids is a `hazard` with a
note: an attendant who claims after the gate was asked. Collections whose run died
between ledger and queue are never contacted, and notices beyond the cap of one run
are left to the next: the code says so of neither, and no property does.

### Bounds

Attempts, deliveries, requests, passes are two or three: one that acts, one that
interferes, and where a property speaks of a sequence a third that meets what
the two left. One key, conversation, subject, lead or thread suffices where rows
of different keys never meet; where they do there are two (`writes`: a new click
on one subject has a new key; `Reads`: two customers that share a number;
`screen`: the conversation left and the one opened). `MaxFaults` (1) puts one
error or crash at every place; the redelivery or retry then meets its remains. In
`dispatch` it is 2: a job is failed by its second stall. Of the kinds of failure of
Meta the two runs of the webhook have `"rejected"`, which may hide a delivery or
not; to a handler a timeout is as a crash after the send, which they have too (the
row stays, and the next attempt is blocked), and `claims` has every kind.
`inbound_turns` has two messages: who interferes with an answer in a wait is one
handler that passed the same gate.
`Plans` of `Accounts` lists the kinds of requests that write a row another one
reads; kinds that share no row add interleavings and no behaviour. `MaxEvents`,
`MaxMessages`, `MaxDialogue`, `MaxRows`, `MaxNews`, `MaxReads`, `MaxAsides`,
`MaxStamps`, `MaxPasswords`, `MaxVersions`, `LastDay` bound what people, customers
and the ERP do. `Threshold`, `Limit`, `PageSize`, `PerPass`, `EmailMax`, `IpMax`,
`MaxNotices` are the code's limits, made small enough to be reached. Deadlock is
not checked: every request ends, and the bounds stop the rest. The 24 hours of
the reissue policy do not pass within a behaviour. Symmetry is used where the
elements differ in their names only, and never in a run with liveness.

### Fairness

`FairClaimSpec`: an attempt that began goes on (its awaits resolve: the request
to Meta has a timer, `AbortController`), nothing is assumed of Meta. `FairSpec`
of `MetaInbound`: Meta delivers a message again until it hears 200, which
its webhook contract and the route's comment say, and a handler that began runs
on. `CampaignSpec` (`WF` of `Work(j)`): the worker goes on with a job it can take, or
has, also after a restart (BullMQ polls; the runtime is restarted by its container); nothing is
assumed of operators or runs. `ScreenSpec`: the polls of the screen come round
(`setInterval`) and a request in the air is answered or fails, of which there
are finitely many failures; nothing is assumed of people. A crash or an error is
a fault, never prevented by fairness.

## 4. What is proved

For every value of the constants, from the assumptions named in the modules:

- `ReplyClaimsProofs`, with no assumption on Meta or on the failures a sender
  hears: `NeverTwice`, `AnswersAreTrue`, `ReleaseIsSafe`, `SettledForGood`,
  `ReservationIsSound`, `SendersImplementOutboundText`. The invariant is `ClaimInv`:
  at most one attempt of a key is between its reservation and its settling, and it
  holds the row (`Holders`); where an attempt is determines what is on its wire
  (`Places`); a text that is out and not disowned has a row that is not free
  (`TextsOut`); what was told agrees with the wire (`Words`). `AtMostOnce` is not
  inductive alone: it needs to know that a free row means nothing is out but what
  was disowned, which needs to know why each release happened. So neither overlap,
  nor a crash, nor an error of the database, nor a timeout ever lets out a second
  copy; only the two answers of cloud-client.ts do, one copy for each attempt that
  heard one.
- `MetaInboundProofs`, for any messages, deliveries and attendants.
  `HandlersFollowReservation`: every step of the webhook that touches the
  reservation is one of `ReplyClaims`, so `WebhookNeverTwice`. With any overlap and
  any fault as well: `InboundTypes`, `NothingAckedIsLost`, `HistorySaysWhatHappened`,
  `GateIsRespected` and `MenuIsAsked`. `NothingAckedIsLost` needs that a handler past
  its insert, and a message with its row in `channel_idempotency_keys`, have their row
  in the history (`Records`); `HistorySaysWhatHappened` that what a sender says is
  true (`HonestInv`), that a row of the AI names an attempt (`RowsInv`), and that the
  copies of a message are no more than its deliveries that wrote and failed, and one
  (`RepeatsInv`).
  `GateIsRespected` is about every pair of automatic answers. `GateInv`: a text is
  sent only for a delivery the gate let pass (`Sending`); what the gate asks of the
  last row holds of every row there was (`LastAI`, `Gates`), which is why reading one
  row is enough; a resolution has the time of its row (`Resolutions`); and the row
  of an answer comes after what its delivery saw (`Later`). `MenuIsAsked` follows the
  delivery that asked to its end (`Asked`).
- `ChannelProofs`: the composition keeps the parts apart (`PartsKeepApart`,
  `ChannelTypes`), and of each part, for any requests, texts and POSTs:
  `CustomersHaveTickets` and `NobodyIsSurprised` (`StateInv`: what a request
  decided on still holds when it writes, or the exception is recorded; a message on
  its way has its ticket, or is one the ticket table did not answer), `ReceiptsConverge` and `ReceiptsOnlyRise`
  (`ReceiptsInv`: the status dominates every receipt handled with the row there),
  `PostsAreCountedOnce` (`TurnInv`: one POST per message keeps the response, and a
  rating follows a question on record).
- `DispatchProofs` (assumptions: there is a job, and contacts of runs are none of
  the operators' jobs): `DispatchTypes`, `NoJobIsLostOrDoneTwice`,
  `LedgerAndQueueAgree`. `QueueInv`: a job that is not failed has attempts left
  (`AttemptsLeft`), what used them up is a dead letter or its record is known to be
  missing (`DeadLettersAreKept`), and the processor has gone through with a job once
  for each end a crash took along, and once more if it is through (`WorkIsDoneOnce`).
  `DispatchInv` adds: an answer of the queue means that the job is there (`CallsAreRecorded`), a run
  writes its ledger before it asks (`RunsRecordFirst`), and what a notice has
  asked for and got is in the queue (`NoticesGoIn`).
- `OfficeProofs`: `OfficeIsItsParts` (a behaviour of the office is one of each of
  its parts, so every theorem of a part holds there) and `OfficeIsTyped`. Part by
  part, for any number of people and requests:
  `UnreadIsCounted` (`ChatInv`: no two requests took one time stamp; a message is of
  a request past its insert; a reading about to mark has each message among its rows
  or among those that came meanwhile);
  `LeadsTellTrue` (`LeadInv`: one move at a time of a lead that is not tangled, which
  leaves the stage the history left; whoever may become a lead was asked about);
  `LastHeardIsOpen` (`AlertInv`: a delivery that looked found what is still open);
  `EditsTellTrue` (`RegisterInv`: what an edit read is still there when it writes,
  unless another came between); `FiguresAreTyped` (the risk is from 0 to 100);
  `VerdictsAreReal` (`PromiseInv`: a row is inserted where there is none; the
  verdicts a review has in hand follow from the ERP's answers or its silence; and
  what it has in hand is still pending, or was on two lists when somebody wrote it,
  without which a late write could change a verdict that only one review reached).
- `AccountsProofs` (assumption `SomebodyAtFirst`: the script that makes the first
  accounts makes one that manages users): `SomebodyRemains`, `EntryStaysGuarded`,
  `AccountsAreTyped`, for any number of accounts and requests. None of the
  properties is inductive. Who takes the right to manage away counted somebody
  other than the target (`ChecksCount`). An e-mail that never had two attempts at
  once is below its limit while one is under way (`TriesFit`). Who looked for a
  pending request and is about to insert has missed every one inserted since
  (`LooksMiss`). A session of an earlier password waits for a change that does
  not spare it (`OldOnesGo`), which needs that the session a change spares is of
  the account it changes (`ChangesInSession`), that ids of sessions name one
  account (`OfOneAccount`), and that a login opens one once (`OpenedBefore`).
- `IxcWritesProofs`: `FailureTellsHowFar`, `SuccessIsTrue`, `AnswersAreKept`,
  `AnswersAreOnLedger`, `HalfwayIsTraceable`, `RepeatsDoNoHarm`, for any mixture of
  requests, overlapping or not, in any `Modes`. The invariant `WritesInv`: every call
  before the current one was carried out (`CallsInOrder`), a row's request calls
  no more and the row's step is its last (`RowsAreFinal`), answers stand on rows
  (`AnswersStand`). What repeats without overlap needs `TurnsInv` besides: what the
  one request at work read still holds when it acts on it (the key has no row, the
  invoice no success, the lead no customer), and a request that called and ended
  without an error left a row (`CallsLeaveRows`).
- `OutsideProofs` (assumptions: the value for "no row" is no row, and what the
  telephone book and the ERP may hold has the types the code declares):
  `OutsideIsItsParts`, `OutsideIsTyped`, and part by part:
  `NoContractIsSkipped` (`AuditInv`: while a pass works, every readable contract between
  its starting point and the rest of its list has a row, the one at hand too when
  the point is about to move, and no row ever goes away; so the stopping point never
  passes a contract that was not looked at, whichever passes overlap, die or lose
  their lock); `NobodyIsGuessed` (`ReadsInv`: what a search has heard of a tier of
  fields is what its queries so far say of the telephone book, so a customer comes
  out only if the tier has exactly one); `NothingIsClaimed` (`AgentInv`: where no
  tool failed, the artefact the text speaks of has its receipt, intention by
  intention, and a failure always hands over; nothing of the history is needed, and
  the language model may answer anything); `TicketsTellTrue` (`TriageInv`: a message
  that may write a diagnosis read a ticket without one; the advice is proved of
  `DiagnoseConnection` for any contracts, logins, orders and outages).
  The advice has an exception, found by trying to prove it: the login an order is
  proposed for may be of another contract than the active one, when the active one
  has none (connection-diagnosis-shared.ts:52). The property says so (`Judged`), and
  the instance has such a customer.

Only model-checked, of what the passing runs check: the liveness properties, and
`FiguresAreHonest`, whose figures count with `SelectSeq`, a recursive definition.
Liveness (`AttemptsEnd`, `EveryMessageIsKept`, `NothingIsLost` beyond its safety
half in the webhook, `AcceptedEnds`, `CatchesUp`, the one property of `screen`)
stays with TLC, as does anything with `ENABLED`;
induction over data and `RECURSIVE` operators are out of the prover's reach, and the
models use none.

## 5. Assumptions about what is outside `src/`

Meta accepts a request or turns it away, at any time after it was sent, also
after the client stopped waiting; a failed text is not delivered. Postgres
inserts are atomic and unique indexes hold; an insert that reports an error may
have been committed. The IXC carries out or refuses a call once, possibly late,
and lists what was carried out in full; what it lists of a renegotiation that
is halfway is left open. BullMQ keeps one job per id and moves a job between its
states atomically; it hears of the end of a processor in a call of its own, gives
out a stalled job once more, and fails it the second time, which may count an
attempt or not. The language model answers
anything, or nothing. The browser runs handlers one at a time.

## 6. How to run

    tlc -workers 2 -config MCInbound.cfg MCMetaInbound.tla
    tlc -workers 2 -config MCOffice.cfg MCOffice.tla
    tlapm ReplyClaimsProofs.tla

The runs `inbound`, `inbound_turns`, `channel`, `office`, `dispatch` and `outside`
take one to two and a half minutes each, the others less. To look at one part of a
composite, give `ChannelParts`, `Parts` or `Outsiders` that part alone.

## 7. What could come next

The parser of Meta's payload; the customer's card and the copilot panel of the
attendance screen; the other lists of the read provider; a second notice of a
campaign beyond its cap. Of proofs: a safety statement of the attendance screen
from which `CatchesUp` would follow under its fairness.

## 8. Not modelled, and why

- Screens other than attendance, and the worker shell: a rendering of one answer
  per screen. The keys the screens make for the writes (one per click, from the
  clock) are the `KeyOf` of the `IxcWrites` instance.
- The 360 view and the copilot arrange what one snapshot holds and keep nothing.
- Pilot, smoke test, synchronisation of fixtures, migrations: tools of the
  installation, run once by hand.
- Cancellations list, conversation scope, contacts of the channel, document
  check: filters and upserts of one row whose value no modelled step reads.
- Names of contacts, notes of leads, most audit rows, masking, the protocol's
  number and wording: no other step of the modelled components reads them.
- Observability: nothing reads back what it produces.
- Parsing and authentication of requests: the inputs of the models are requests
  that passed both. The matrix of permissions is whether one may manage users.
