# FinPilot in TLA+

A verification project for FinPilot, a multi-tenant accounting system for Indian
businesses (a TypeScript monorepo: an Express API, a BullMQ worker, a React
application, over MongoDB as a replica set, Redis and S3).  The modules here
model the parts of the API and the worker that keep money, numbers and
documents right under concurrency, retries and crashes, and the parts of the
web application that decide what a person is shown and may do; TLC checks them on
small instances, and TLAPS proves 39 theorems for all instances: every safety property
the passing runs check, invariant or action property, is one of them.

Paths below are relative to the repository; `api/` abbreviates
`apps/api/src/`.  `PROJECT.json` maps every definition to its lines, lists the
runs, the hazards with the properties that cover them, the disagreements met,
and the theorems.

## 1. The system

### 1.1 Processes and shared state

| Process | Does | Shares |
|---|---|---|
| api | serves requests; every service call runs against MongoDB; webhooks arrive here | MongoDB, Redis (queues, limits, permission cache) |
| worker | runs queues (e-invoice, e-mail, reports), repeatable jobs (outbox reaper, nightly integrity, overdue flip, notices), the change stream of the outbox | MongoDB, Redis |
| web | React pages over the API | HTTP only |
| Razorpay, the IRP, the account aggregator, the LLM | outside services | webhooks and calls |

Several api and worker processes may run at once.  Nothing is shared but the
database and Redis, so the concurrency that matters is between *transactions*
(snapshot isolation with write conflicts, `api/utils/withTransaction.ts`),
between *single writes* outside transactions, and between those and *calls to
outside services*.

### 1.2 Components

| Component | State | Operations | What makes it correct | What is hard |
|---|---|---|---|---|
| General ledger (`api/engines/ledger`, `models/JournalEntry`, `Account`, `Counter`) | entries, counters, cached balances, account status, the period lock, the outbox | post, reverse, number a document; account edits | balanced entries, gapless numbers, balances = journal, one reversal each, no posting to dead accounts, outbox = journal | overlapping transactions, retries, numbers drawn and abandoned, reads that are not protected |
| Nightly integrity job (`api/jobs/ledgerIntegrity.ts`) | violations | aggregate, read accounts, fix, read numbers | no false alarm, the fix repairs | separate reads, commits between them |
| Payments (`api/services/paymentService.ts`) | payments, paid/due of documents, control accounts | create, allocate, refund | control accounts = documents; no money spent twice | five places keep the same sum by hand; tax on advances rounded in shares |
| Invoices and bills (`invoiceService`, `billService`, shared `engines`) | drafts, issued documents, totals, snapshot of the party | draft, edit, issue, cancel; create, approve, cancel | the entry balances to the paisa; an issued document is frozen | an edit read before an issue and written after it; rounding |
| GST returns (`api/engines/gst/GstEngine.ts`) | the returns as last generated | GSTR-1, GSTR-3B | the two agree with each other, and with the books but for what they do not read | cancellations in other months; two ways to the same sum; GST on advances and reversals by hand, of which the returns know nothing |
| Razorpay webhook (`razorpayService.ts`) | payments by reference | record a capture | recorded exactly once | at-least-once, concurrent delivery, stale reads of the invoice |
| Banking and reconciliation (`bankingService`, `reconciliationService`) | statement lines, reconciliations, entries made from lines | import, suggest, confirm (in bulk), create from line | each line once; marks follow records; nothing posted twice for one line | separate writes, no transaction, crash between any two |
| Idempotency keys (`api/middleware/idempotency.ts`) | a record per key | lock, replay, release, refuse | one effect per key; own answers | the lock, the effect and the answer are separate writes |
| E-invoice pipeline (`api/jobs/einvoice.ts`, `queues/`, `infra.ts`) | outbox rows, jobs, dead letters, the invoice's IRN | publish, reap, work, bury, replay, cancel | none lost, none generated twice, records follow the IRP | two publishers, stalls, retries, a call before its write |
| Chart of accounts (`accountService.ts`) | tree of accounts | create, update, reparent, remove, seed | an account's path is its parent's and its own code | what a move writes is read before its transaction |
| Auth and sessions (`authService.ts`, `sessionRepo.ts`) | the account, session families, refresh tokens, mailed links, second factor | login, refresh, logout, reset, enable and disable the factor or the account | what is revoked stays so; one token per family; a recovery code works once; no false alarm; guesses are bounded | tabs that share a cookie, requests that read before another's write, lost answers |
| Tenancy, membership, permissions (`memberService`, `permissionCache`, middleware) | memberships, invitations, two caches | invite, accept, update; get, invalidate | changes take effect; suspension holds; seats are not oversold | caches filled after they were invalidated, Redis failing, count then insert, invitations that are never used up |
| Companies and organisations (`companyService.ts`) | organisations, companies | create | an owner can work | six writes without a transaction |
| Subscriptions, operators, impersonation (`api/services/admin`) | plan, subscription, operators, sessions of impersonation | subscribe, webhook, set plan; promote, revoke, disable; begin, act, end | active is paid for and paid becomes active; an operator remains; acts are traced | overlapping checkouts and webhooks, count then write |
| AI gateway, proposals, budget (`api/ai`, `ai.routes.ts`) | proposals, usage | a turn with its tools; confirm, reject | a proposal acts once; spending is bounded | check then act, charge after the call |
| Expenses, documents, IMS | claims, scanned documents, portal records | approve, reject; upload, bill; sync, act | posted once, billed once, the portal has what is saved | saves with and without versions, writes before and after a call |
| Rate limiting (`ratelimit/store.ts`, `middleware/rateLimit.ts`) | windows per address, a bucket per user, in Redis; a fallback and a memory of plans in each process | take, refill, fall back | an address gets a window at a time, a user a bucket at a time; logins are closed while Redis fails | processes' clocks differ, plans change, Redis fails |
| Reports and exports (`reportService`, `jobs/reportExport.ts`) | a document per export | read a sheet, page through a ledger; ask, make, download | what is read piece by piece is one account of the books; a file that is downloaded has been made after it was asked for | postings between two reads; an export's document, its job and its attempts disagree |
| Notices (`jobs/notifications.ts`, `notificationService`) | notifications, preferences | remind, store, mail; change preferences | told once, told of everything, preferences as asked for last | runs that overlap, die, are repeated; two writes and a call |
| AI answers (`ai/provider.ts`, `guardrails.ts`) | which providers are paused | answer a turn, call tools, check the figures | figures that are looked up come from tool results; the engine that stands in answers what was asked | providers that fail, a pause shared by all turns, one retry; the first word found in a question decides |
| Recognition and scanning (`api/ocr`) | one recogniser, one queue of pages | read a file; parse an invoice; parse a statement row by row | an upload's text is its own; a wrong figure is not shown; a checked row is the bank's | uploads take turns page by page; starts and pages fail; numbers are misread or lost |
| Parties and forecast (`partyService`, `engines/forecast`) | parties | list, statement, ageing, forecast, health score | the screens agree on what is owed; the forecast but for what is due after thirteen weeks, a statement but for cancelled documents | each is a query of its own |
| Web: shell (`App.tsx`, `lib/api.ts`, `AdminPortal.tsx`) | the token, the company, the user and the company on screen, in two places | sign in and out, change company, open the portal | requests are made for whom and what the screen shows | answers in any order, the cookie belongs to all tabs |
| Web: pages (`features/**`) | a copy of each list, what is in flight | load, act, load again | buttons are what the server accepts; what was done is shown; what is shown is what was chosen | copies, answers that overtake each other, rules repeated by hand |
| Routes (`routes/v1`) | - | which role and section a request needs | nobody changes what their role or the sections forbid | a rule per route and per router, several ways to one document |
| Migrations, scripts, observability, landing page | - | - | - | - |

### 1.3 How they interact

`issue`, `approve`, `create` (payment), the expense and document services and
the webhook all end in `GeneralLedger.post` within one transaction: they draw a
document number (`Counter`), post an entry, which draws the entry's number,
increments the cached balances, and writes an outbox row.  `cancel` ends in
`GeneralLedger.reverse`.  The change stream and the reaper turn outbox rows of
issued invoices into jobs with a deterministic id; workers call the IRP and
write the IRN to the invoice.  The idempotency middleware stands before the
handlers that move money.  The integrity job watches the ledger from outside.
A request passes `authenticate`, `tenantResolve`, `requireModule` and `authorize`
before its handler: `Sessions` models what the first stands on, `Access` the other
three.  Proposals, claims, bills and portal actions end in the services above;
`Approvals` models what surrounds them and takes each of those calls, which are
one transaction, as one step.  `Surface` says of each route what it asks for and
what it does to the documents; `Pages` which routes a page offers, when, and what
it loads again; `Screens` lets a member work on one page while others work too.
An upload goes through `Recognition`; a scanned statement's text through `Scan`
into the csv that `Reconciliation` imports.

The two facts that let one module stand on another are checked and proved in
`Ledger`: a transaction that commits has seen no stale copy of what it writes
(theorem `SnapshotIsolation`, and its use in `GaplessNumbering` and
`ActiveAccounts`), so a service operation that reads *and writes* each document
it decides on is atomic.  `Settlement` and `Invoicing` model such operations as
single steps and everything else (the webhook's read of the invoice, the edit of
a draft, which has no transaction at all) as several.

## 2. The modules

| Module | Models | Abstracts |
|---|---|---|
| `Journal` | the promise: a journal that only grows, numbered without gaps, totals that are its sums, one mirror entry at most, an event per entry | - |
| `Ledger` | `GeneralLedger.post`/`.reverse`, `nextNumber`, `withTransaction`, `accountService.update`/`.remove` as they bear on postings | two lines of one entry on one account; descriptions; tenants |
| `LedgerIntegrity` (extends `Ledger`) | the nightly job's reads and its fix | the re-check of balanced entries and of foreign accounts (no posting of the model can break them) |
| `Settlement` | invoices, bills, payments, allocation, refund, cancellation, the overdue flip, reversal of a document's entry by hand, the Razorpay webhook | lines and GST of documents; parties (one) |
| `Invoicing` | drafts, the edit as read and write, issue, cancel, bills; totals to the paisa; payments received with the GST on advances, their use and refund, the overdue flip, reversal by hand; GSTR-1 and GSTR-3B | numbers, payments made, allocations of one request to several documents; export and special-zone supplies |
| `Reconciliation` | statement import, suggestions, bulk confirmation, entries from lines, write by write, with crashes | scores (which pairs are likely is a constant), CSV |
| `Idempotency` | the middleware around one handler, attempt by attempt | what the handler does (an effect) |
| `EInvoice` | outbox, change stream, reaper, BullMQ's jobs as the code uses them, workers, dead letters, replay, IRN cancellation | the document's content |
| `Sessions` | one account's sign-in, await by await, from tabs that share cookies: password, lock, second factor, refresh, logout, links, reset, disabling, expiry | tokens and hashes (a token is the place of its document), registration |
| `Access` | invitations and acceptance, roles and suspension, seats, the Redis cache of permissions and each process's cache of sections, and a request through the middleware | one company; roles and sections by name |
| `Platform` | the creation of companies; checkout, webhook, plan by hand; operators; impersonation | the amounts of limits but the number of companies |
| `Approvals` | the copilot's turn and its charges; proposals; portal records; a claim; a scanned document | what the model says, what is posted |
| `Chart` | the chart of accounts as a tree of paths | depth, names, types, rates |
| `Reports` (extends `Ledger`, `Exports`) | trial balance, balance sheet, an account's ledger page by page | layout; one reader at a time |
| `Exports` | a report's export: the document, the job, its attempts, the page that waits | what the csv says (by how many postings the books held) |
| `Limits` | windows, bucket, plans, fallback, clocks | one address, one user |
| `Recognition` | text layer, bytes or pages in turn at the recogniser; figures, confidence, arithmetic | characters; the other fields |
| `Scan` | a statement's rows, numbers and running balance, with the scanner's faults | dates, words, columns of the csv |
| `Answers` | providers, the engine that stands in, the loop of tools, the check of figures | texts (by what they say); the arguments of tools |
| `Notices` | reminders, notifications, channels, preferences | wording; several companies (one in the run) |
| `Browser` | one tab: the token, the company, the shell, the portal, the page that loads | the pages' contents |
| `Surface` | routes: role, section, what state a document must be in and what becomes of it | one document of each kind |
| `Pages` (extends `Surface`) | fourteen pages: lists, buttons, forms, what is loaded again | layout, amounts, texts |
| `Screens` (extends `Pages`) | one page, one member, in time: loads, acts, others' acts, switches | one document of each kind |
| `Chosen` | what a page shows of the one thing chosen: a party, a period, an invoice, a conversation | what is said in it |
| `LedgerProofs` (`Ledger`, `LedgerIntegrity`, `Reports`, `Exports`), `MoneyProofs` (`Settlement`, `Reconciliation`, `Recognition`, `Scan`), `InvoiceProofs` (`EInvoice`, `Notices`, `Invoicing`), `ApprovalsProofs` (`Approvals`, `Chosen`, `Answers`, `Screens`), `EdgeProofs` (`Idempotency`, `Browser`, `Access`, `Limits`), `PlatformProofs`, `SessionsProofs` | the theorems about the modules they extend (section 4) | - |
| `SumTheorems` | lemmas about sums over finite sets, for the modules of theorems | - |

Each `MC...` module gives the constants of one instance; each `.cfg` is a run.
Parts
that share nothing are put in one instance, whose variable `which` says which of them
a behaviour runs; the others rest in one initial state.  So `MCEdge` runs `Idempotency`,
`Limits` or `Browser`; `MCReconciliation` runs `Reconciliation`, `Recognition`, `Scan` or
`Answers`; `MCInvoicing` runs `Invoicing`, `Chosen` or `Notices`; `MCApprovals` runs
one half of `Approvals` (proposals and portal records, or claims and documents) or
`Screens`; and `MCLedgerIntegrity` a ledger with its readers, or an export.
Operators commented as *Mutant* are not part of any model: they are the
plausible bugs each property was tried against.  `PROJECT.json` lists one per property;
where a property joins several parts the mutants of the others stand in their modules
and break it too.

How state and actions correspond to code, where it is not one to one:

* **Ledger.**  `tx[c]` is the open transaction of a request: its snapshot of the
  collections and `missed`, the documents other commits wrote since.  The body of
  the callback is pure computation on the snapshot (`Accepted`, `Drawn`,
  `NewEntry`), so `Begin` takes the snapshot and `Commit` applies every write of
  the callback at once, unless a document to be written was missed; then only
  `Retry`, `Reject` or `Crash` remain, as MongoDB aborts the transaction and
  `withTransaction` runs the callback again.  `SetActive` and `Remove` are single
  writes outside transactions.  Nothing in the repository writes
  `booksLockedUpto`; `ClosePeriod` stands for an operator.
* **Settlement.**  `books` holds the control accounts only, as debits minus
  credits, moved by the same lines the services post.  `Deliver` is the webhook's
  reads before its transaction, `Record` the transaction, `Fail` an error
  answered to the gateway, which delivers again.
* **Invoicing.**  `editor[e]` holds what `updateDraft` computed from the draft it
  read; `WriteDraft` writes it if the filter on the status still matches.
  Amounts are paise and quantities tenths, so rounding half a paisa happens.
  An entry of `journal` is of a document, or the `part`-th of a payment, and `undoes`
  counts how many times in a row it was reversed; `by` is who made it: a document's
  handler, a payment's, or a person by hand.  `payment[p]` is what an advance brought,
  its tax, what is left, and each use with its month.
* **Reconciliation.**  `req[r].pc` stands before the next write of a request, and
  `at` is the match of the bulk being done.
* **Idempotency.**  `effects[k]` is the history of executions in the life of a
  key, `told` whether the execution's commit was acknowledged.
* **Sessions.**  `tab[b].at` names the await a tab's request has come to; one
  request per tab.  `escaped` marks a session created by a request that had passed
  its check before the revocation came: the properties say that these, and no
  others, survive it.
* **Access.**  `work[c]` is what an administrator or an accepting user is doing,
  `late` that an invitation was begun after its member was suspended.
  `history.stale` marks an entry of the cache that was filled from an older read or
  whose deletion Redis failed.
* **Platform.**  Organisations, companies and Razorpay's subscriptions are numbered
  in the order of creation; `overtaken` marks a request whose reads no longer
  hold, and `history` who was excused by one.
* **Approvals.**  `request[r].seen` is the version, count or match a request read,
  `was` the action: Mongoose writes only what differs from what it read, so a second
  request to accept, overtaken by one that rejects, saves nothing and still pushes.
* **Limits.**  Time is Redis's; `ahead[p]` is by how much a process's clock differs, and a
  script is given `now + ahead[p]`.  `letIn` is the history of what was let in, by the
  counter that let it in, and how far buckets were turned back.  A Redis sorted set is a set
  of members with their scores; `at` and `nth` make a member unlike every other, as the
  random part of its name does in the code.
* **Recognition.**  A page of one upload is sent only by the head of `tail`, the chain of
  promises; an upload whose page was read goes to its end with the next.
* **Scan.**  Rows keep their place on the paper, so those found are a set.  `paper` is what the bank printed, `read` what the scanner made of each row.
* **Browser.**  `calls` are in flight and answered in any order; `crossed` marks that
  sign-ins of two people overlapped or somebody came back from the portal, signed in or
  being signed in or out.
* **Reports.**  `sheet.first` and `.second` are the lengths of the journal at the sheet's
  two reads, `pages.shown` what an account's pages have shown.
* **Exports.**  `books` counts postings, and a csv is the count it was read at; `hand` are
  the attempts, `queued.doubled` that two were at work at once.  An attempt finds the
  document, and writes "running" on it in a step of its own, so that one that stalled
  between the two overwrites what another has completed.
* **Screens.**  `db[k]` is the latest document of a kind, with its status and a version,
  and `copy[l]` the page's copy of it; a load's `got` is empty until the server has read.
  `mine` are the versions the page was told it made, `crossed` the lists that had two reads
  in flight whose order nothing keeps.
* **Chosen.**  `hasty` marks that the person went on before everything was answered.
* **Answers.**  A question is the set of topics whose words are in it, and `Intents` the order
  in which the engine looks for them.  A tool's result is the names of its fields; `booked` says whether the
  books hold figures the engine's rupees can be checked against; `cooling` is the pause
  of Gemini, which belongs to the process.
* **Notices.**  `entered` are the stored notifications by the key that is unique, `told`
  and `again` what was sent once and twice, `wished` the preferences as asked for, and
  `mishap` what the property excuses.
* **Chart.**  `work[c].below` is the subtree as it was read, or for the template
  the accounts known so far.
* **EInvoice.**  `job[j]` has BullMQ's states as far as the code relies on them
  (external: modelled from how `queues/` and `jobs/` use it).

## 3. Runs

On two workers a run takes from half a minute to three minutes.  Every
cfg says `CHECK_DEADLOCK FALSE`, because every instance may come to rest: the
journal is at its bound and the accounts deleted, all documents are settled, all
requests are answered, the bounds on requests and faults are used up.  Nothing in
the system waits for another while it holds something but a retry for an
idempotency key; that it does not wait for ever is a liveness property (`NoKeyStuck`).

| Run | Asks | Shows |
|---|---|---|
| `ledger` | do postings stay right when two clients overlap, retry, are abandoned, while accounts are edited and the books closed? | types, gapless entry numbers, balances = journal, reversals in pairs, active accounts only, only transactions open at the closing post into the closed period, and that the ledger implements `Journal` (which only grows, and announces exactly its entries) |
| `ledger_audit` | what does anybody see who reads a ledger that moves, in several reads? | the job reports a drift only where a posting fell between two reads (`DriftNeedsOverlap`); a sheet balances but for income or expense posted between its halves, an account's pages miss and repeat nothing, a downloaded export was made after it was asked for and none is left behind but those never queued or out of attempts (`ReadsAreSound`) |
| `settlement` | do documents, payments and control accounts stay in step whatever is done to them? | the receivable, payable and advance accounts equal what is due and held, up to entries reversed by hand and money allocated across; nothing overdrawn (`DocumentsMatchBooks`); each capture recorded once, and eventually (`CapturedIsRecorded`); ageing, parties and health score agree, the forecast but for what is due after its thirteen weeks, statements but for cancelled documents (`ScreensAgree`) |
| `invoicing` | do documents post what their lines say, and do the returns follow? is what is shown what was chosen? is the owner reminded once? | totals follow lines under racing edits and are frozen when issued (`TotalsFollowLines`); the returns agree with each other, the credit with the books, and the output tax with them up to the GST on advances that the payments' records hold, documents cancelled in another month, and reversals by hand (`ReturnsMatchBooks`); the last choice is shown once all is answered, unless the person did not wait (`ShownIsChosen`); one mail per thing and day while notices are stored, of everything found, and the preferences asked for (`ToldOnce`) |
| `reconciliation` | is a statement matched once when requests overlap and die? is a paper read right? does an answer fit its question? | rows, marks, records and entries once, up to the known overlaps (`MatchedOnce`); a file is read from its own pages, a wrong figure hides only behind a mean, a checked row is the bank's (`ReadIsTrue`); figures come from tools but for those of two digits at most and zero, and the engine answers the first topic of a question that it has a tool for, but for two known misfits (`AnswersFit`) |
| `edge` | does a key act once? do limits hold? are requests made for whom the screen shows? | one acknowledged effect per key (`AtMostOnce`), no key stuck (`NoKeyStuck`); the limits, widened by the clocks' differences and by each turning back of a bucket (`LimitsHold`); what the screen shows is what requests are made for, and the answer to what was asked last, unless a read failed (`ActsAsShown`) |
| `einvoice` | is an e-invoice lost, overwritten or left behind? | the record follows the IRP (`RecordFollowsIrp`), what is pending is settled (`PendingIsSettled`) |
| `sessions` | what does the end of a session end, when requests overlap? | revocation holds but for requests it overtook; a token and a recovery code work once but for requests at the same time, and an alarm comes only of tabs that asked at once or an answer that was lost (`UsedOnce`); guesses are bounded by the lock and the requests on their way |
| `access` | when do changes of members, roles and sections reach a request? | stale permissions have a cause and seats are oversold only by overlapping or early invitations (`MembershipHolds`); changes take effect; a suspension is undone only by a decision or an older invitation |
| `platform` | what do overlapping and interrupted requests leave behind? | an operator who can sign in, no customers among them, every impersonated act in the audit, and an owner with a company (`NobodyIsLockedOut`); an active plan that was paid; a paid plan that takes effect |
| `approvals` | does what a person decides take effect once? and may they decide it, see it, and see what they did? | the budget is overspent by the turns under way at most; a proposal, a claim and a document act once but for two requests at once or a cut between two writes (`ApprovedOnce`); the portal has the saved action; buttons are what the server accepts, up to seven listed refusals (`ButtonsMatchServer`); what a member did shows (`ScreenIsTrue`); nobody changes what their role or the sections forbid, up to the listed crossings (`ChangesAreAllowed`) |
| `chart` | do paths follow parents? | **no**: of two moves that overlap, one writes paths the other has made stale |

A property that excuses something (requests that overlap, a call that failed)
names all it excuses, and the run shows that there is nothing else; what is excused
does happen in the code, and section 5 lists it.

**Bounds and why they are enough.**

* *Ledger*: three accounts (one system account, one on the credit side, one
  edited), two clients, three entries, two financial years that two documents'
  dates fall on differently (a company's year start differs from the April year
  of documents).  The races are between two transactions over one document, and
  three entries allow an original, its reversal, and a posting in between.  The
  audit run has the same entries and one night: an overlap needs one commit
  between two reads.
* *Settlement*: two invoices and a bill of two paise, payments of one or two, one
  payment by users and one captured by the gateway with two concurrent
  deliveries: partial, full and excess payment, allocation of the rest, refund,
  cancellation before and after, across directions.  A second user payment
  multiplies the states without a new pair of operations on one document, for
  the capture is a second payment.
* *Invoicing*: two documents among two invoices and a bill, a registered
  customer in another state and a walk-in one, line sets with an odd tax, a total
  rounded up and one rounded down, and two rates; two months.  One payment of 100 paise with 18 %
  GST, used in halves: its tax is 7 and 8, so the shares are rounded, and two of them
  give back more than there was.  `MaxDocuments` counts the payment, `MaxEdits` reversals by
  hand: one document beside an advance, or two documents, and one edit or one reversal.
* *Reconciliation*: two rows, two ledger entries, two uploads, three requests
  with up to two matches, one crash (which kills all that runs).  Three requests:
  one that has ended, one that began before and one after it.
* *Idempotency*: three attempts on one key with two bodies, up to three effects:
  a holder, a duplicate, and a latecomer.
* *EInvoice*: one invoice, its two possible jobs, two workers, two attempts, two
  faults, a cancellation.  Invoices do not interact but through workers; two
  workers are needed for a stalled job, two faults for a lost enqueue and a crash.
* *Sessions*: two tabs of one browser (the overlap that shares a cookie), three
  tokens, a lock after two failures, one reset, two batches of one recovery code, and
  one event beside signing in, refreshing and signing out.  A family of three tokens
  is the least in which a token is reused whose successor has a successor.
* *Access*: one user who has joined and asks, two who may be invited, an administrator,
  one process with its cache, a seat fewer than they would need, two changes, a lost
  Redis command.  A stale entry needs one filler and one writer; an oversold seat, an
  invitation to the third user while the second accepts the last seat.
* *Platform*: two requests at once, three begun (four steps of checkout and
  webhook of two subscriptions, or two operators who revoke each other, and a third
  to follow), one crash.
* *Approvals*: two requests at once, four begun, one failure, a quota of one and one
  tool per turn.  Two requests are the races of each kind; four allow a proposal to be
  made, decided twice at once, and decided again.
* *Reports*: the ledger's three entries over two drafts, pages of one row: a posting
  before, between and after the rows shown.  *Exports*: the policy's two attempts, two
  hands, three polls, two postings, three troubles.
* *Limits*: two processes whose clocks differ by at most one unit, windows of three,
  two plans, four units of time, one turning back, one outage.  A window needs a hit in
  it, at its edge and beyond it; a bucket two askers and a refill.
* *Recognition*: two uploads of twelve kinds, the limit at three pages, one failure: three
  pages are the least behind whose mean one bad page hides, two uploads the least that
  take turns.  *Scan*: three rows, a deposit and a withdrawal twice as large, faults of a
  unit and of a deposit, two faults: a fault in one row, its effect on the next, and a
  fault that happens to compensate.
* *Answers*: two turns (they share the pause), one tool call each, a greeting and a question
  with the words of three topics, one lapse of the pause.  Of the three the first has a tool
  that writes, the second is answered with another figure and the third with raw data; who
  asks has both kinds of tools, those that read, or none.
* *Notices*: one owner, two overdue invoices, the day of a return and the next, two runs,
  two payments or changes of two switches in all, one mishap.
* *Browser*: a customer and an operator, two companies, four acts of the person, three
  calls in flight.  *Chosen*: two things, one conversation to begin, four gestures, one
  failure.
* *Screens*: each of fourteen pages, each role (`company_admin`, which differs from the
  owner in billing and companies alone, is elsewhere reached by a change of role), one kind of document in any state while the
  others are as usual or one list late, two acts, one event beside them.  An act and one
  that overlaps it, with a reload of each, is what `PaymentsPage` needs to lose one.
* *Chart*: two accounts of the template and two of the users', two requests at once,
  four begun.

**Fairness and why the code justifies it.**  In `EInvoice` only the reaper (a
repeatable job every minute) and the workers are fair; nothing is assumed of the
change stream, of replays or of users, and faults are bounded by `MaxFaults`:
after the last one the processes stay up.  In `Settlement` a delivery that is
being handled ends (weak fairness of `Deliver` and `Fail`) and, since the
gateway delivers until it is acknowledged, one that can be recorded again and
again is recorded (strong fairness of `Record`).  In `Idempotency` a served
attempt goes on, and the TTL sweep runs.  In `Access` a request that was taken up
goes on, and the two caches' times run out: nothing is assumed of who asks or
changes what.  In `Platform` a request goes on, and Razorpay delivers a webhook
until it is answered.  Nothing else is fair.  All other
modules assume none.

## 4. What is proved

TLAPS checks 39 theorems for every value of the constants that meets the assumptions of
their modules: any number of clients, tabs, requests, workers, users, documents and steps,
any amounts and clocks, where a run has two or three.  No theorem needs a bound of section 3;
three have a premise, which is given with them.

| Module | Theorem | Property |
|---|---|---|
| `LedgerProofs` | `TypeCorrect` | `TypeOK` |
| | `SnapshotIsolation` | `SnapshotFresh` |
| | `AppendOnly` | `JournalAppendOnly` |
| | `GaplessNumbering` (no document series is `JV`) | `GaplessEntryNumbers` |
| | `ReversedAtMostOnce` | `ReversalsPair` |
| | `ActiveAccounts` | `PostsOnlyToActiveAccounts` |
| | `LatePostsOverlap` | `OnlyOverlappingPostsAreLate` |
| | `Refinement` (no document series is `JV`) | `ImplementsJournal` |
| | `BalancesHold` | `BalancesMatchJournal` |
| | `DriftHasCause` (no repair, or one run) | `DriftNeedsOverlap` |
| | `ReadsSound` (an export is tried twice at most) | `ReadsAreSound` |
| `EdgeProofs` | `LockHasOneHolder` | `OneHolder` |
| | `TakesEffectOnce` | `Idempotency.AtMostOnce` |
| | `ScreenNamesWhoActs` | `Browser.ActsAsShown` |
| | `MembershipsHold` | `Access.MembershipHolds` |
| | `SuspensionsHold` | `Access.SuspensionHolds` |
| | `LimitsHoldAlways` | `Limits.LimitsHold` |
| `MoneyProofs` | `DocumentsMatch` | `Settlement.DocumentsMatchBooks` |
| | `ScreensSayTheSame` | `Settlement.ScreensAgree` |
| | `CapturesRecordedOnce` | `RecordedOnce`, a conjunct of `DocumentsMatchBooks` |
| | `BankMatchedOnce` | `Reconciliation.MatchedOnce` |
| | `ReadHolds` | `ReadIsTrue` (`Recognition.ReadIsOwn` and `Scan.CheckedIsTrue`) |
| `ApprovalsProofs` | `DecisionsHold` | `Approvals.ApprovedOnce` |
| | `PortalIsTold` | `Approvals.PortalFollowsRecord` |
| | `BudgetHolds` | `Approvals.BudgetIsBounded` |
| | `ScreenShowsChoice` | `Chosen.ShownIsChosen` |
| | `AnswersHold` | `Answers.AnswersFit` |
| | `ScreensHold` | `Screens.ScreenIsTrue` |
| | `ChangesHold` | `Screens.ChangesAreAllowed` |
| | `ButtonsHold` | `Screens.ButtonsMatchServer` |
| `InvoiceProofs` | `RecordHolds` | `EInvoice.RecordFollowsIrp` |
| | `RemindersHold` | `Notices.ToldOnce` |
| | `TotalsHold` | `Invoicing.TotalsFollowLines` |
| | `ReturnsHold` | `Invoicing.ReturnsMatchBooks` |
| `PlatformProofs` | `NobodyIsShutOut` | `NobodyIsLockedOut` |
| | `ActiveSubscriptionIsPaid` | `ActiveIsPaid` |
| `SessionsProofs` | `EndedStaysEnded` | `RevocationHolds` |
| | `CredentialsAreUsedOnce` | `UsedOnce` |
| | `GuessesStayBounded` | `GuessesAreBounded` |

Where a run takes a specification with fairness (`FairSpec`), the theorems are about the one
without it, so they hold of what is run.  The `MC`
modules' `which` only chooses among behaviours the theorems cover one by one.

**What is assumed, and why the code justifies it.**  Most assumptions say of which kind a
constant is.  Those that say more:

* `Ledger`, numbers: no document series is `JV` (section 5: the code does not prevent it).
  The accounts are finite, for their balances are sums.
* `LedgerIntegrity`: either the job repairs nothing, as the scheduled one does, or it runs
  once.  A second repairing run may find the drift the first one made, by writing a
  balance a posting had overtaken (section 5).
* `Exports`: an export is tried at most twice, as `queues/definitions.ts:49` says.  This is a
  premise of `ReadsSound` because the attempt to prove it without failed: with four tries
  TLC finds a stalled attempt whose failure ends the job another attempt was given.
* `Settlement`: invoices and bills are finite and none is both; amounts are positive.
* `Invoicing`: a document's lines are finite and there is one at least; accounts of income
  are none of the fixed ones (`itemService.ts:39` gives each item account `4100`).
* `Screens`: the empty copy is no copy of a document.
* `Limits`: no process is called "redis", the name of the shared counter.
* `Recognition`: a paper has a page, is of one of five kinds, and each figure stands on a page.
* `Reconciliation`: the ledger entries of the books are not numbers, which name the
  entries made from lines; `None` is neither.  They are ids of one collection.
* `Access`: those who have joined fit into the plan's seats at the start, and no user is
  an administrator's name: an administrator is a role that is not changed here.
* `Platform`: there is an operator to begin with (the one that is seeded; nothing else
  makes the first), and no request is called "nobody", the name of no request.
* `Approvals`: there is a request that could be made, and no action or vendor is called
  "none", the empty field.
* `Notices`: the days are distinct days of one month, in order of passing; the
  preferences are switches of the schema (`notification.routes.ts`).
* `Sessions`: the tabs are finite, for what is on its way is counted.
* `Browser`: there is a question a page can ask; the empty user and company are none.
* `Chosen`: the thing that is chosen when nothing is, is no new conversation.
* `Answers`: a turn has at least one round of tools (`provider.ts`).

**The arguments.**  None of the properties is inductive as it stands: almost every one is about what
a request *read*, while the step that could break it is a *write*, later, of somebody
else.  The inductive invariant of each module (`IInv`, or the module's name and `Inv`, a
conjunction of named parts) says what a request knows at each await, and the proofs have
one step per action, and under it one per part that the action can disturb.

*Ledger.*  The core is `SnapshotFresh`: whatever an open transaction has not missed a write of is still
as its snapshot shows it.  It is inductive with `TypeOK`: a commit, an edit of an
account, and every other writer publish what they write to every open
transaction.  A transaction that commits has, by `Conflicts`, missed nothing it
writes, hence computes its numbers, balances and stamps from current values.
Lemmas about a commit (`CommitType`, `CommitEntries`, `CommitCounters`,
`CommitFresh`, `CommitNumbered`, `CommitReversals`, `CommitTotals`) carry that to
each property:

* *Gapless numbers.*  `GaplessEntryNumbers` is not inductive: a commit needs to
  know that the number it drew is one more than every number in its year.
  `Numbered` says so of each entry, each number and the counter, and a series other than
  `JV` cannot touch that counter.  Without the assumption the theorem is false
  (section 5).
* *Reversals.*  The entry to be reversed is one of the documents the
  transaction writes, so of two that race one misses the other's stamp.
* *Active accounts.*  The code only reads `isActive`, and a read is not
  protected; but the cached balance makes every posting write each of its
  accounts, so an edit in between is a conflict.  (A design without the cached
  balance would lose the property, and with it nobody's test.)
* *The closed period.*  `booksLockedUpto` is read and never written by a posting, so
  here nothing conflicts: what is left is that the lock in the snapshot was the lock when
  the transaction began, and that is what the theorem says.
* *Refinement.*  The mapping takes the journal as it is, the numbers from the
  `JV` counters, totals from the cached balances with the sign of the account's
  type, and announcements from the outbox: that an entry, its number, its part of
  the balances, its stamp and its event come together or not at all is one theorem.
* *Balances.*  A balance is a sum over the accounts' lines of all entries.  A commit adds
  an entry, so one summand, and increments the cached balance by as much, from a value
  that no other commit has changed (`BalancesStep`).

*The integrity job.*  Between its two reads the balances it expects are those of a prefix
of the journal, and what an account has beyond them is the sum of the entries since
(`AuditInv`): a drift of an account that none of them touches would be a balance that does not
match the journal.

*Reports and exports.*  A trial balance is one read and balances, for every entry does and
sums may be exchanged; a sheet differs by what came between its two reads (`SheetOK`).  A page
begins where the one before ended in an order that only grows (`PagesOK`).  An export's
attempts hold a hand each; with two tries no attempt ends a job that another has been given.

*Idempotency.*  `OneHolder`: of the attempts that got past the insertion of a key's lock
and have not settled it there is one, and the stored record is in flight by it.
`ToldOnce`: while that one has not acted no acknowledged effect is there; once a record is
completed its effect is, and a lock is taken anew only after it was released or swept.

*Browser.*  `OneAtATime`: the application has one loading call in flight, and so has the
portal.  `OnePerson`, unless sign-ins crossed: in the
application the token is the user's on the screen and whoever is being loaded; in the
portal everybody in sight is one person, from the cookie's refresh through the vetting to
the operator shown.  `PageFits`: an answer whose effect is still the page's was
asked by the user, for the company and with the question on the screen, because a change
of any of them begins another effect; one that failed leaves what was there, and the page says
so.  The attempt to prove an earlier form failed for a reason: with six gestures
(the run has four) two sign-outs of the portal are in flight, the person leaves, signs in
to the application, and the late answer takes the new session's token
(`AdminPortal.tsx:317-321`).  `crossed` now counts leaving the portal while one is being
signed in or out there.

*Settlement.*  The books never say by themselves what is due.  `BooksFit`: each control
account is a sum over the documents of what each still claims of it, and over the payments of
what was allocated across; `Fits`: a document's status, amounts and entry go together.  Each
action changes one summand, or moves as much as it allocates between one document and one
payment.  The screens (`ScreensAgree`) are other sums over the same documents, equal summand
by summand because of `Fits`; the forecast's is that over the documents due in time, whichever
those are, and the rest of ageing's is what is due later.  A capture has one payment by the unique index on its reference,
whatever its handlers read before.

*Invoicing.*  Sums are exchanged: the tax of the lines by component is that of the components by
line, an entry is its lines' taxable value and tax, with a round-off of half a rupee at most.  A
document in force has one entry in the journal, a cancelled one two; a return's rows hold the tax
of every rate of every invoice in them once.  What an edit computed is written only on a draft,
so nothing of an issued document changes.  `JournalFits` is about the entries documents posted or
reversed, `PaymentsFit` about those of payments: in each month they move the output tax by
`OnAdvances`, a sum over the payments' records in which each step changes one summand (`Posts`).
What a hand reverses is in neither, and a document whose entry was is not cancelled.

*Recognition.*  `OneAtWorker`: only the upload at the head of the queue has a page at the
recogniser, and it is the page that upload is at; so what comes back is its own and the next.  A
page that is clear is read right with a confidence above the floor; a mean of equal
confidences is that confidence, so without a poor page figures are right, and of poor pages only
nothing passes the floor (`AllPagesFit`).

*Scan.*  `RunningFollows`: after a row whose balance was read right, that is the balance the
next row is checked against, whatever went wrong before; two balances that are right leave one
amount and one direction for the row between them.

*Limits.*  A window cut by any clock keeps every admission of the last window less what clocks
disagree by (`RedisKeeps`), so their number is bounded by what the script counted.
`BucketFits`: what the bucket gave out and what it still holds are at most its size, what
flowed in, and again what flowed in for each unit it was turned back.

*Reconciliation.*  Rows, records and entries are only added (`Grows`, `KeepsOrder`), so
what a request read of them stays true, and what it read *not* to be there is
what another may add: that one is then of the requests that began before the first ended
(`BeginsAfter`, `LeavesAlone`), the overlap that `MatchedOnce` names.  `MarksRecorded`:
a mark has its record, and a record whose line is not marked has a request that
stands, or died, between the two writes.

*Access.*  `ActorFits`: who counted the seats has one to give, unless marked `overtaken`;
a membership found is still there; and an invitation begun when its user was suspended
gets no further than to find the membership.  With it `MembershipHolds` is inductive as it
stands: each cached entry is true, on its way to be deleted, or stale with a cause.  Seats are
counted as finite sets (`FiniteSetTheorems`).

*Approvals.*  `DecidedOnce`, `ClaimDecidedOnce`, `BilledOnce`: the same shape three times,
who decides alone finds what he read still so, and it has taken effect or not as the place
he stands at says.  `PushFollows`: one push is under way, of what is saved; with none, the
portal has what is saved.  The budget needs a count: `BudgetKept` counts the calls made and
not recorded (`Pending`), and those the turns under way may yet record (`Left`), as sets of
pairs of request and call; what is recorded and what is left stay below
`Quota + Cardinality(Requests) * (MaxTools + 2)`, for a turn is let in below the quota.

*Chosen.*  Every read in flight is of what is chosen, unless the person did not wait or a
read failed.  While a message is sent nothing else comes for its conversation; while the list
of conversations may restore one nothing has been done yet.

*Answers.*  The engine that stands in calls the tool of the first topic of its question that
has one granted, and then says what that tool said, unless asked again for an amount below a rupee (`AloneFits`).  The figures of a turn that
found any were found, or its answer was not checked and is marked so (`FoundedAnswer`).  A turn that waited for
Gemini has the pause before it, or saw it end (`PausesFit`).

*Screens.*  The tables of routes and pages are finite, but a page's buttons depend on the
state of the documents, the role and the sections.  They are read once, a lemma for each router
and each page: what a route may change, who may and through which gate, and of a page
what it loads again, what it offers and to whom.  `ScreensInv` then follows a change from the
handler to the screen: the version an act was told of, the reads begun since, and the copy
they leave.

*EInvoice.*  `JobsAreOwned`: a job has one owner, and who works without owning it stalled
(its invoice is in `doubled`).  `ReplaysFit`: the second job of an invoice is queued only
when the first is retired.  So a worker that did not stall is alone with its invoice, and what it
found when it took the job holds until it writes (`GuardHolds`); what is recorded, seen or
about to be written of an IRN is so at the IRP (`IrpKnows`).  `CalledOnce` and
`NoFaultNoDouble` count the calls when nothing fails.

*Notices.*  Two notices have two rows, and a row is stored by one run
(`ToldIsStored`, `StoredIsTold`); what a run found is told, or still on its list, or
spared by a preference (`RunsFollowLists`); a change of preferences writes back what it
read, and that was overtaken only if two crossed (`ChangesFollow`).

*Platform.*  `RequestFits`: what a request read still holds unless it is marked
`overtaken`: an unmarked request about to revoke leaves another operator, one about to
activate has the checkout that is paid and that the subscription still refers to.
`CompaniesAreOwned`: a company is its owner's, or its creation is before that write, or was
cut off there.

*Sessions.*  `WillStand`: what a request read before an await, its family alive, its
password right, still stands when it creates a session, unless an end overtook it, and then it
is marked `late`.  `OneWorks`: in a family one token works, or is about to.  `Honest`: of a
browser whose tabs ask one after the other the one live token of its family is in the
cookie, or in the answer on its way, so no reuse is seen.  `CodesFit`: a code that was used is
spent and nobody offers it, unless two offered it at once.  `GuessesFit`: what was tried is at
most the failures on record and the guesses on their way (`OnTheirWay`, a finite set).

**What stays with TLC, and why.**

* *Liveness under fairness*: `NoKeyStuck`, `PendingIsSettled`, `ChangesTakeEffect`,
  `PaidTakesEffect`, `CapturedIsRecorded` (that a capture is recorded *once* is proved).  They
  need ENABLED, which the prover does not reason about.
* *Which values a recursive function has* is not among the theorems.  Sums are: the
  library's theorems of induction cannot be instantiated by the provers, so `SumTheorems`
  says of a *set of subsets* what an induction would say of a predicate (`SetInduction`), takes
  the least number for which something fails (`LeastNat`), and derives from the definition of
  the folds what the proofs cite: one element more, another summand, a partition, an exchange
  of two sums.  The models take their sums with `SumFunction` and `SumFunctionOnSet`.
* `PathsFollowParents` is false, and run `chart` shows it.

## 5. Where code and words disagree

Run `chart` shows one, quoted in `PROJECT.json`: the paths of a subtree are read
before the transaction that is to keep the tree whole.  Others were met while
modelling, and the models state what the code does:

* The series of an invoice is free text (`invoice.schema.ts:34`) and `issue` draws
  from the counter (company, year, series): with series `JV` it shares the counter of
  the journal entries, whose numbers skip every such invoice's.  The instance and
  the theorem assume no such series.
* The correction of a drift (`ledgerIntegrity.ts:80-84`) writes the balance expected at
  the time of the aggregation, whatever was posted since.
* A cancelled invoice stays out of the return of its month, and its reversal is
  dated the day of the cancellation (`GeneralLedger.ts:273`): cancelled in a later month,
  the books of both months differ from their returns, against `GstEngine.ts:5-6`.
  `ReturnsMatchBooks` says what remains.
* "Every table must sum to the trial balance's tax accounts" (`GstEngine.ts:5-6`), and the
  returns read invoices and bills only.  GST on advances is posted to the same output tax
  accounts (`paymentService.ts:123-140`) and taken back when they are used or refunded
  (`:248-265`, `:343-348`), perhaps in another month: until then the books hold more than the
  returns declare, and the month of the use less.  `OnAdvances` says by how much; as the shares
  are rounded it need not come back to zero.
* A person may reverse any entry (`journalService.ts:40-45`), also an invoice's, a bill's or a
  payment's: the tax accounts move, the document stays in its return.  Such an invoice or bill
  cannot be cancelled any more (`LEDGER_ALREADY_REVERSED`), so it stays there for good.
  `ReturnsMatchBooks` leaves these reversals out of the books; entries written by hand on a
  tax account, which the journal's form allows, do the same and are not modelled.
* `updateDraft` writes a new party without a new snapshot
  (`invoiceService.ts:240-248`, the snapshot is taken at `:195`): an issued invoice may
  be filed under the GSTIN of the party it was first drafted for.
* A worker that dies between the IRP's answer and the write makes the next attempt
  call again (`jobs/einvoice.ts:43`), against `plan.md:2150` "exactly-once".
* Two refreshes of one token at once both get a successor, for the result of the
  revocation is not looked at (`authService.ts:232`); so do two logins with one recovery
  code (`:191`), and a login that has passed its checks opens a session after all were
  revoked.
* Two tabs that load at once, or an answer that is lost, raise the alarm for a
  stolen token and end the session (`:204-222`).
* A permission set read before a change and cached after its invalidation lasts until
  its minute is over, as does one whose deletion failed (`permissionCache.ts:46-60`), where
  `:4-5` says a change takes effect "within ONE second".
* A suspended member who still has an invitation accepts it again and is active
  (`memberService.ts:114-117`); one invited before having an account takes a seat
  nobody counted (`:119`).
* A company whose creation dies between its first write and its owner's membership
  uses up the free plan's one company, and nobody can enter it (`companyService.ts:60-76`).
* Of two operators who revoke each other both succeed (`adminService.ts:469`).  That
  operators are not customers (`:420-427`) is checked when one is made; afterwards he may
  found or join a company.  An impersonation outlives the operator who began it.
* After a second checkout is begun the webhook of the first finds no subscription
  (`subscriptionService.ts:214`), is refused, and the customer has paid for nothing; begun
  while that webhook is handled, it is activated unpaid (`:216`).
* A proposal whose confirmation died after it took effect can be confirmed again
  (`ai.routes.ts:188`).
* An action saved but not pushed (`imsService.ts:142-143`) can be repeated, unless it
  was "pending", which is refused the second time though the portal never had it.
* The token bucket takes its time from the pod that asks (`ratelimit/store.ts:47-52`): one
  whose clock is behind sets the bucket's time back, and the next refills the same
  stretch again.
* `booksLockedUpto` is read in the snapshot and never written by a posting, so a
  transaction open while the books are closed posts into the closed period
  (`OnlyOverlappingPostsAreLate` is what remains; `GeneralLedger.ts:109`).
* A drift alarm may be false: any posting between the job's reads looks like
  drift (`DriftNeedsOverlap` is what remains).
* `accountService.remove` marks an account deleted whatever was posted to it
  (`accountService.ts:130-132`); the model's `Remove` has no guard on postings.
* The shares of an advance's tax are rounded one by one (`paymentService.ts:236`)
  and the last takes no remainder: a paisa may stay in the tax account against
  the liability.  Their sum is right
  (`DocumentsMatchBooks`).
* A payment whose direction and document do not fit (money received, put on a
  bill) moves one control account and settles the other kind of document;
  `Allotted` is by how much.
* A commit whose acknowledgement is lost releases the idempotency key
  (`idempotency.ts:44`), and the retry takes effect again; `AtMostOnce` counts
  executions reported as successes.
* A dead letter is written after its job failed and is not awaited
  (`queues/infra.ts:81`): a crash in between leaves nothing to replay.
* An invoice cancelled while its e-invoice is pending gets a live IRN later: the
  worker looks at the e-invoice's status only.
* One ledger entry may be matched with two bank lines from two pages of
  suggestions (`reconciliationService.ts:87` excludes it within one page), and
  two genuine rows of one day, amount and narration share a fingerprint.

*Limits, reads, exports.*

* `ratelimit/store.ts:2-3` calls the counters "atomic and correct across N pods"; the
  clock is the pod's, so a window shrinks by their difference (and the bucket, as said above, refills twice).
* `reportService.ts:4-5` says the balance sheet "MUST balance"; assets and profit come
  from two trial balances read one after the other (`:39-57`).
* `partyService.ts:39-40` says the list "can never drift from the statement"; the statement
  counts cancelled documents (`:102`, `:109`), the list does not.
* A process that dies between `ReportJob.create` and the enqueue leaves an export queued
  for ever (`report.routes.ts:71-78`); a second save that fails leaves it running; a stalled
  attempt may write "failed" over its twin's csv.  The page gives up after thirty polls.

*Papers.*

* `Document.ts:6`, "null = low confidence — NEVER guessed": the confidence is the mean of all
  pages (`tesseract.ts:73`), so a figure of a bad page passes among two good ones unless
  the arithmetic refutes it.  Figures beyond `OCR_MAX_PAGES` (five, `cascade.ts:26`) are
  not read, and nothing says so.
* `sniff.ts:4-6` decides by the bytes and not by the declared type; `documentService.ts:107`
  trusts the declared type first, and a PDF declared to be text is parsed as its bytes.
* `statement.ts:12` reports a row that fails the check "rather than imported"; one with a
  marker or a minus is imported unchecked (`:163-164`), and the csv does not say which
  were checked.  A row without numbers keeps the balance before it; an overdrawn balance
  printed without its sign passes in the wrong direction; of a row whose amount was lost
  the balance is taken for the amount.

*The copilot.*

* Asked for profit and loss the engine answers the income, asked for the cash position the
  net profit: it says the first field it knows, and looks for `balancePaise` where there is
  `closingCashPaise` (`provider.ts:261-322`).  Health, receivables and forecast come raw.
* It looks for words in a fixed order, anywhere in the question (`:380-463`): one about the cash
  flow forecast is answered with the cash position, one about a forecast of revenue with the
  revenue, and whoever asks about unpaid bills and may draft gets the draft of an invoice.
* `guardrails.ts:2-4` says "Every figure in a Copilot answer must appear in a tool
  result" and "Fail closed"; a figure of two digits at most passes unchecked (`:7-10`), and so does zero
  (`:33-34`); nothing is checked when no tool was called or no result has a number of three
  digits.  Amounts below a rupee make the engine's own answer
  fail, and the turn ends with nothing.
* An error answer of an OpenAI-compatible service has no choices and becomes "I have
  analyzed your financial books." (`provider.ts:178-233`, `res.ok` is not looked at).
* A success begun before a failure ends Gemini's pause for all.
* `CopilotPage`: a conversation opened while a message streams gets the stream in its last
  message; a restored one may replace a chat just begun; the first "new chat" of a page that
  began with none reopens the one before (`:105-121`).

*Notices.*

* With notices in the application off there is no lock, and a repeated run mails again; a
  run that dies between notification and mail loses the mail for good
  (`notificationService.ts:45-71`); of two overlapping changes of the preferences one is
  lost (`notification.routes.ts:58-70`).  No scheduler calls `jobs/notifications.ts`.

*Web and server.*

* Sections are "a real restriction" (`modules.ts:10`); with its section off an invoice is
  still settled by a payment, or created by a proposal confirmed in section `ai`; the
  AI's tools read reports, and `/forecast` belongs to no section.
* An auditor's GET of a return writes it (`GstReturn`), against "read-only"
  (`MembersPage.tsx:81`).  An employee may submit a claim, and may not read the accounts its
  form needs.
* Cancel is offered on drafts and on invoices a day after their e-invoice, approve and
  reject to the claim's author, "pending" a second time, a bill from a document whose
  fields were not read, subscribing to all: each is refused (`KnownRefusals` lists those
  of the modelled routes).
* `BankingPage.tsx:39-49` expects candidates and sends a document, the routes give and
  take an entry (`reconciliation.routes.ts:32-39`): the page throws at the first
  suggestion, and confirms nothing.  It shows `t.date` of rows that have `txnDate`; the
  dashboard reads `rule` and `message` of anomalies that have `signal` and `detail`.
* A scanned csv is imported into whichever bank account is open when it is sent.
* `/bills/from-document` also passes the section of `billRoutes`, mounted at the same path.
* The chart of accounts is held twice, and seeding reloads one (`App.tsx:1146-1151`).  An
  act that fails reloads nothing.  `JournalPage.load` and the dialog of an invoice let the
  last answer win.
* When a load fails `useLoad` is no longer busy and keeps the old data (`lib/ui.tsx:416-419`):
  beside the error a page may show the answer to what it asked before, as `ActsAsShown` says.
* The navigation leaves out the sections that were off when the person signed in
  (`App.tsx:1192`); the pages of `Screens` have the sections as they are, so what a menu
  shows between a switch and the next load is not modelled.
* Opening the portal starts two refreshes of one cookie (`App.tsx:1458`,
  `AdminPortal.tsx:299`); the portal shares the token with the application; a reload loses
  the token of an impersonation; the answer of a logout may clear a newer cookie.
* A fresh idempotency key is drawn for each call (`api.ts:93`), so a person who clicks again
  is not recognised; the journal, accounts, banking, IMS and party routes do not look.

## 6. What is not modelled

*Of the API*: the account aggregator's consent and pull, the separate credit and debit
columns of a csv, the wire formats of language models, the characters of recognition
(placing glyphs in lines, rejoining a GSTIN, fields other than amounts), cash flow, what a
csv or a mail says, mail delivery, payment links, the recurring copies of bills, export
and special-zone supplies, the outbound limiters (libraries), the logins' fallback of a
development environment (`rateLimit.ts:80-90`), starting and stopping a process,
metrics, registration, creation of an operator's account, edits of a company, an item or a
user (single writes).  *Tenant scoping*: a plugin that adds the company to every query;
it has no state, and whether every query passes through it is not a question of
interleaving.

*Of the web application*: the pages for exports (but for the waiting, in `Exports`), the
copilot (but for its conversations, in `Chosen`) and the dialog of an invoice are not among
the fourteen whose buttons `Screens` compares with the server; layout, charts, the landing page, forms and their checks, texts,
themes: no state that several actors could bring out of step.  They are most of
the repository's lines.

*Migrations, seeds and scripts*: run once, by hand.

*Outside the state space*: more than one company (every collection is scoped to one, but
for sign-in and operators); the text of numbers; several lines of one entry on one
account; several documents of one kind on a page.

MongoDB's snapshot isolation is taken as documented: a transaction reads one
snapshot, a commit fails when a document it writes was written since, single
document writes are atomic, unique indexes hold.  BullMQ is taken as the code
relies on it: at most one live job with an id, stalled jobs go back to waiting,
`UnrecoverableError` ends a job.  Tesseract reads a clear page right, and may lose or
misread any number of another.

## 7. Plan

Order: the ledger first, for every amount in the system goes through it; then
what settles money; then what documents post; then what may happen twice (bank,
keys, e-invoices); then who may do it, and what a person decides; then what a person is
shown.

Done: every module of section 2.

Compositions that would add most: `Settlement` over an abstract transaction that
`Ledger` implements; `Idempotency` around a service of `Settlement`, and around the
confirmation of `Approvals`; `Recognition` before `Approvals`' document.

Proved: every safety property of the passing runs.  What could be proved beyond them are
the compositions above, each as a refinement: `Settlement` over transactions that read a
snapshot, by the same argument as `Ledger`'s `SnapshotFresh`.
