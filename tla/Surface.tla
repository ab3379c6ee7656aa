------------------------------ MODULE Surface -------------------------------
(***************************************************************************)
(* What the server offers to the pages of the web application: its routes, *)
(* the permission and the section each asks for, what it must be sent, the *)
(* state a document must be in, and what becomes of it.                    *)
(*                                                                         *)
(* One document of each kind is followed, the latest: a new one takes the  *)
(* place of the one before.                                                *)
(***************************************************************************)
EXTENDS Naturals, Sequences, TLC

-----------------------------------------------------------------------------
(* Roles and sections *)

Clerk == {"journal:post", "journal:reverse", "invoice:create", "expense:submit", "expense:approve",
          "bank:reconcile", "ims:action", "report:read", "ai:read", "ai:write"}
Admin == Clerk \cup {"company:update", "user:invite", "role:assign", "period:close", "audit:export"}

\* "membership": what the routes ask for that every member may call.
Grants ==
  [owner         |-> {"membership"} \cup Admin \cup {"company:create", "company:delete"},
   company_admin |-> {"membership"} \cup Admin,
   accountant    |-> {"membership"} \cup Clerk,
   employee      |-> {"membership", "expense:submit", "ai:read"},
   auditor       |-> {"membership", "report:read", "audit:export", "ai:read"}]

\* The sections a platform operator may switch off, and the first part of the paths
\* each owns.  The chart of accounts and the journal are in none.
Modules ==
  [sales      |-> {"invoices"},
   purchases  |-> {"bills", "expenses"},
   money      |-> {"payments", "bank-accounts", "reconciliation"},
   compliance |-> {"gst"},
   documents  |-> {"documents"},
   reports    |-> {"reports", "jobs"},
   ai         |-> {"ai"},
   parties    |-> {"parties", "items"}]

Sections == DOMAIN Modules

\* The section whose gate stands before a router.
moduleForPath(path) == {m \in Sections : path \in Modules[m]}

\* The pages that are left out of the navigation.
Nav ==
  [sales |-> {"invoices"}, purchases |-> {"bills"}, money |-> {"payments", "banking"},
   compliance |-> {"gst"}, documents |-> {"documents"}, reports |-> {"reports"},
   ai |-> {"copilot"}, parties |-> {"parties"}]

hiddenNavFor(disabled) == UNION {Nav[m] : m \in disabled}

-----------------------------------------------------------------------------
(* Documents *)

\* What can become of each.  "late" and "aged" are stored as issued: past the due date
\* but not yet marked, and with an e-invoice older than a day; "unread": a
\* field that a bill needs was not read; "likely": an entry matches the line; "held":
\* pending, as it may be once, and "_held" the same afterwards.
Statuses ==
  [invoice |-> {"none", "draft", "issued", "late", "aged", "partially_paid", "paid", "overdue", "cancelled"},
   bill    |-> {"none", "draft", "approved", "partly_paid", "cancelled"},
   expense |-> {"none", "submitted", "approved", "rejected"},
   payment |-> {"none", "recorded"},
   bank    |-> {"none", "active"},
   txn     |-> {"none", "unlikely", "likely", "reconciled"},
   entry   |-> {"none", "posted", "reversed"},
   account |-> {"none", "seeded"},
   party   |-> {"none", "active"},
   item    |-> {"none", "active"},
   ims     |-> {"none", "no_action", "accept", "reject", "held", "accept_held", "reject_held"},
   company |-> {"without_gstin", "with_gstin"},
   doc     |-> {"none", "uploaded", "extracted", "unread", "failed", "billed"},
   proposal |-> {"none", "proposed", "lapsed", "confirmed", "rejected", "expired"},
   member  |-> {"none", "invited", "active"},
   notice  |-> {"none", "unread", "read"},
   prefs   |-> {"mail", "no_mail"},
   plan    |-> {"free", "active"},
   filed   |-> {"none", "prepared"}]

\* A route: its name, the sections and the permission that stand before it, the
\* statuses it accepts, those it may leave behind, and the fields it asks for.
Route(name, in, may, from, to, needs) ==
  [name |-> name, in |-> in, may |-> may, from |-> from, to |-> to, needs |-> needs]

\* Who submitted a claim may not decide it.
OthersOnly == {"expense.approve", "expense.reject"}

NoFields == {}
NoStatuses == <<>>
Same == {<<>>}

-----------------------------------------------------------------------------
(* The routers *)

InvoiceRoutes ==
  LET in == moduleForPath("invoices")  may == "invoice:create"
      issued == {"issued", "late", "aged", "overdue", "partially_paid", "paid", "cancelled"} IN
  { Route("invoice.create", in, may, [party |-> {"active"}],
          {[invoice |-> "draft"]}, {"partyId", "issueDate", "lines"}),
    Route("invoice.issue", in, may, [invoice |-> {"draft"}, account |-> {"seeded"}],
          {[invoice |-> "issued", entry |-> "posted"]}, NoFields),
    Route("invoice.cancel", in, may, [invoice |-> {"issued", "late"}],
          {[invoice |-> "cancelled", entry |-> "posted"]}, {"reason"}),
    Route("invoice.send", in, may, [invoice |-> issued], Same, NoFields) }

BillRoutes ==
  LET in == moduleForPath("bills") IN
  { Route("bill.create", in, "invoice:create", [party |-> {"active"}],
          {[bill |-> "draft"]}, {"partyId", "vendorBillNumber", "billDate", "lines"}),
    Route("bill.approve", in, "expense:approve", [bill |-> {"draft"}, account |-> {"seeded"}],
          {[bill |-> "approved", entry |-> "posted"]}, NoFields),
    Route("bill.cancel", in, "expense:approve", [bill |-> {"approved"}],
          {[bill |-> "cancelled", entry |-> "posted"]}, {"reason"}) }

ExpenseRoutes ==
  LET in == moduleForPath("expenses") IN
  { Route("expense.create", in, "expense:submit", [account |-> {"seeded"}],
          {[expense |-> "submitted"]}, {"date", "amountPaise", "expenseAccountId", "description"}),
    Route("expense.approve", in, "expense:approve", [expense |-> {"submitted"}, account |-> {"seeded"}],
          {[expense |-> "approved", entry |-> "posted"]}, NoFields),
    Route("expense.reject", in, "expense:approve", [expense |-> {"submitted"}],
          {[expense |-> "rejected"]}, {"reason"}) }

\* A payment on account, and one that is allocated to an invoice at once.
PaymentRoutes ==
  LET in == moduleForPath("payments")  may == "bank:reconcile"
      needs == {"direction", "partyId", "date", "amountPaise", "depositAccountId"} IN
  { Route("payment.create", in, may, [party |-> {"active"}, account |-> {"seeded"}],
          {[payment |-> "recorded", entry |-> "posted"]}, needs),
    Route("payment.allocated", in, may,
          [party |-> {"active"}, account |-> {"seeded"},
           invoice |-> {"issued", "late", "aged", "partially_paid", "overdue"}],
          {[payment |-> "recorded", entry |-> "posted", invoice |-> s] : s \in {"partially_paid", "paid"}},
          needs \cup {"allocations"}) }

\* What an import leaves may match an entry, or not; a scan writes nothing.
BankingRoutes ==
  LET in == moduleForPath("bank-accounts")  may == "bank:reconcile" IN
  { Route("bank.create", in, may, [account |-> {"seeded"}], {[bank |-> "active"]}, {"name"}),
    Route("bank.scan", in, may, [bank |-> {"active"}], Same, {"filename", "mimeType", "contentBase64"}),
    Route("bank.import", in, may, [bank |-> {"active"}],
          {[txn |-> s] : s \in {"likely", "unlikely"}}, {"csv", "mapping"}) }

ReconciliationRoutes ==
  LET in == moduleForPath("reconciliation")  open == {"likely", "unlikely"} IN
  { Route("reconciliation.confirm", in, "bank:reconcile", [txn |-> open], {[txn |-> "reconciled"]},
          {"bankTransactionId", "journalEntryId"}),
    Route("reconciliation.fromLine", in, "bank:reconcile", [txn |-> open, account |-> {"seeded"}],
          {[txn |-> "reconciled", entry |-> "posted"]}, {"bankTransactionId", "accountId"}) }

JournalRoutes ==
  { Route("entry.post", {}, "journal:post", [account |-> {"seeded"}],
          {[entry |-> "posted"]}, {"date", "narration", "lines"}),
    Route("entry.reverse", {}, "journal:reverse", [entry |-> {"posted"}], {[entry |-> "reversed"]}, {"reason"}) }

\* Seeding fills the gaps of what there is.
AccountRoutes ==
  { Route("account.seed", {}, "journal:post", NoStatuses, {[account |-> "seeded"]}, NoFields) }

PartyRoutes ==
  LET may == "invoice:create" IN
  { Route("party.create", moduleForPath("parties"), may, NoStatuses, {[party |-> "active"]}, {"type", "name"}),
    Route("item.create", moduleForPath("items"), may, NoStatuses, {[item |-> "active"]},
          {"kind", "name", "gstRate", "hsnOrSac"}) }

\* Accepted and rejected may be changed; pending is for once.
GstRoutes ==
  LET in == moduleForPath("gst")  may == "ims:action"
      once == {"no_action", "accept", "reject"}  held == {"held", "accept_held", "reject_held"} IN
  { Route("ims.sync", in, may, [company |-> {"with_gstin"}, ims |-> {"none"}], {[ims |-> "no_action"]}, {"period"}),
    Route("ims.sync", in, may, [company |-> {"with_gstin"}, ims |-> once \cup held], Same, {"period"}),
    Route("ims.accept", in, may, [ims |-> once], {[ims |-> "accept"]}, {"action"}),
    Route("ims.accept", in, may, [ims |-> held], {[ims |-> "accept_held"]}, {"action"}),
    Route("ims.reject", in, may, [ims |-> once], {[ims |-> "reject"]}, {"action"}),
    Route("ims.reject", in, may, [ims |-> held], {[ims |-> "reject_held"]}, {"action"}),
    Route("ims.pending", in, may, [ims |-> once], {[ims |-> "held"]}, {"action"}) }

\* Mutant: the router for bills out of documents stands before that of the bills.
GatesOfDocumentBillsMutant == moduleForPath("documents")

\* Its path is one of /bills, whose router comes first: that gate is passed too.
GatesOfDocumentBills == moduleForPath("documents") \cup moduleForPath("bills")

DocumentRoutes ==
  LET read == {"uploaded", "extracted", "unread", "failed"} IN
  { Route("doc.upload", moduleForPath("documents"), "expense:submit", NoStatuses, {[doc |-> s] : s \in read},
          {"filename", "mimeType", "contentBase64"}),
    Route("doc.bill", GatesOfDocumentBills, "invoice:create",
          [doc |-> {"extracted"}, party |-> {"active"}], {[doc |-> "billed", bill |-> "draft"]}, {"partyId", "gstRate"}) }

\* The type of a proposal decides what confirming it does.
AiRoutes ==
  LET in == moduleForPath("ai") IN
  { Route("proposal.confirm", in, "ai:write", [proposal |-> {"proposed"}],
          {[proposal |-> "confirmed", invoice |-> "draft"], [proposal |-> "confirmed", entry |-> "posted"]}
            \cup {[proposal |-> "confirmed", ims |-> s] : s \in {"accept", "reject", "held"}},
          NoFields),
    Route("proposal.reject", in, "ai:write", [proposal |-> {"proposed", "lapsed"}], {[proposal |-> "rejected"]}, NoFields) }

CompanyRoutes ==
  { Route("company.update", {}, "company:update", NoStatuses, {[company |-> "with_gstin"]}, NoFields),
    Route("member.invite", {}, "user:invite", NoStatuses, {[member |-> "invited"]}, {"email", "roleKey"}) }

NotificationRoutes ==
  { Route("notice.read", {}, "membership", [notice |-> {"unread", "read"}], {[notice |-> "read"]}, {"ids"}),
    Route("prefs.update", {}, "membership", NoStatuses, {[prefs |-> s] : s \in Statuses.prefs}, NoFields) }

\* The service asks for the owner of the organisation; the subscription it leaves takes
\* effect when it is paid for.
BillingRoutes ==
  { Route("plan.subscribe", {}, "company:create", NoStatuses, Same, {"plan"}) }

Routes ==
  UNION {InvoiceRoutes, BillRoutes, ExpenseRoutes, PaymentRoutes, BankingRoutes, ReconciliationRoutes,
         JournalRoutes, AccountRoutes, PartyRoutes, GstRoutes, DocumentRoutes, AiRoutes, CompanyRoutes,
         NotificationRoutes, BillingRoutes}

-----------------------------------------------------------------------------
(* What can be read *)

\* A list: what it shows, and what stands before its route; reading a return prepares it.
Read(of, in, may) == [of |-> of, in |-> in, may |-> may]

Lists ==
  LET at(path) == moduleForPath(path) IN
  [invoices      |-> Read("invoice", at("invoices"), "report:read"),
   bills         |-> Read("bill", at("bills"), "report:read"),
   expenses      |-> Read("expense", at("expenses"), "expense:submit"),
   payments      |-> Read("payment", at("payments"), "report:read"),
   bankAccounts  |-> Read("bank", at("bank-accounts"), "bank:reconcile"),
   txns          |-> Read("txn", at("bank-accounts"), "bank:reconcile"),
   suggestions   |-> Read("txn", at("reconciliation"), "bank:reconcile"),
   entries       |-> Read("entry", {}, "report:read"),
   accounts      |-> Read("account", {}, "report:read"),
   setup         |-> Read("account", {}, "report:read"),
   parties       |-> Read("party", at("parties"), "report:read"),
   items         |-> Read("item", at("items"), "report:read"),
   imsRecords    |-> Read("ims", at("gst"), "ims:action"),
   gstr          |-> Read("filed", at("gst"), "report:read"),
   companies     |-> Read("company", {}, "membership"),
   documents     |-> Read("doc", at("documents"), "expense:submit"),
   proposals     |-> Read("proposal", at("ai"), "ai:read"),
   members       |-> Read("member", {}, "user:invite"),
   notices       |-> Read("notice", {}, "membership"),
   preferences   |-> Read("prefs", {}, "membership"),
   plans         |-> Read("plan", {}, "membership")]

\* Whether somebody with a role may call it, some sections being off.
Allows(route, role, off) == route.may \in Grants[role] /\ route.in \cap off = {}

\* Whether a handler takes effect: for whom, upon what documents, and with what body;
\* "claimant" is who submitted the claim.
Accepts(route, db, claimant, me, body) ==
  /\ route.needs \subseteq body
  /\ \A k \in DOMAIN route.from : db[k].status \in route.from[k]
  /\ route.name \in OthersOnly => claimant # me

\* And what it leaves: one of its outcomes.
Becomes(db, did) ==
  [k \in DOMAIN db |->
     IF k \in DOMAIN did THEN [status |-> did[k], ver |-> db[k].ver + 1] ELSE db[k]]

Effects(route, db) == {Becomes(db, did) : did \in route.to}
=============================================================================
