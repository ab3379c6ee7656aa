-------------------------------- MODULE Pages -------------------------------
(***************************************************************************)
(* The pages of the web application: the lists each keeps a copy of, and   *)
(* what each offers to do.  Nothing of a page looks at the role of the     *)
(* member, nor at the sections that are off.                               *)
(***************************************************************************)
EXTENDS Surface

\* A button or a form: the route it calls, the statuses that the copies must show for
\* it to be there (or to be fit to send), the fields it sends, and the lists that are
\* loaded again when the answer is a success.
Offer(route, on, sends, reloads) == [route |-> route, on |-> on, sends |-> sends, reloads |-> reloads]

\* A list that every page has: whether the company has a chart of accounts.
Page(lists, offers) ==
  [lists  |-> lists \cup {"setup"},
   offers |-> offers \cup {Offer("account.seed", [setup |-> {"none"}], {}, {"setup"})}]

Reason == {"reason"}
SomeParty == [parties |-> {"active"}]
SomeAccount == [accounts |-> {"seeded"}]

-----------------------------------------------------------------------------
(* Sales and purchases *)

NewInvoice == Offer("invoice.create", SomeParty, {"partyId", "issueDate", "lines"}, {"invoices"})

InvoicesPage ==
  LET row(route, when, sends) == Offer(route, [invoices |-> when], sends, {"invoices"})
      issued == {"issued", "late", "aged"} IN
  Page({"invoices", "parties"},
       {NewInvoice,
        row("invoice.issue", {"draft"}, {}),
        row("invoice.send", issued, {"email"}),
        row("invoice.cancel", {"draft"} \cup issued, Reason)})

NewBill == Offer("bill.create", SomeParty, {"partyId", "vendorBillNumber", "billDate", "lines"}, {"bills"})

NewExpense ==
  Offer("expense.create", SomeAccount, {"date", "amountPaise", "expenseAccountId", "description"}, {"expenses"})

\* Mutant: the buttons wait for a status that no bill has.
BillActsMutant ==
  {Offer("bill.approve", [bills |-> {"pending_approval"}], {}, {"bills"}),
   Offer("bill.cancel", [bills |-> {"approved"}], Reason, {"bills"})}

BillActs ==
  {Offer("bill.approve", [bills |-> {"draft"}], {}, {"bills"}),
   Offer("bill.cancel", [bills |-> {"approved"}], Reason, {"bills"})}

ExpenseActs ==
  LET row(route, sends) == Offer(route, [expenses |-> {"submitted"}], sends, {"expenses"}) IN
  {row("expense.approve", {}), row("expense.reject", Reason)}

BillsPage == Page({"bills", "expenses", "parties", "accounts"}, {NewBill, NewExpense} \cup BillActs \cup ExpenseActs)

-----------------------------------------------------------------------------
(* Money *)

\* Mutant: only the payments are loaded again.
PaymentReloadsMutant == {"payments"}

PaymentReloads == {"payments", "invoices"}

PaymentsPage ==
  LET fields == {"direction", "partyId", "date", "amountPaise", "method", "depositAccountId", "allocations"}
      row(route, on) == Offer(route, on, fields, PaymentReloads)
      open == {"issued", "late", "aged", "partially_paid", "overdue"} IN
  Page({"payments", "parties", "accounts", "invoices"},
       {row("payment.create", [parties |-> {"active"}, accounts |-> {"seeded"}]),
        row("payment.allocated", [parties |-> {"active"}, accounts |-> {"seeded"}, invoices |-> open])})

\* What is sent to confirm a match names a document, not an entry.
BankingPage ==
  LET active == [bankAccounts |-> {"active"}]  both == {"txns", "suggestions"} IN
  Page({"bankAccounts", "txns", "suggestions"},
       {Offer("bank.create", <<>>, {"name"}, {"bankAccounts"}),
        Offer("bank.scan", active, {"filename", "mimeType", "contentBase64"}, {}),
        Offer("bank.import", active, {"csv", "mapping"}, both),
        Offer("reconciliation.confirm", [suggestions |-> {"likely"}],
              {"bankTransactionId", "documentModel", "documentId"}, both)})

-----------------------------------------------------------------------------
(* The books *)

\* The page is only there once the accounts are read.
JournalPage ==
  Page({"entries", "accounts"},
       {Offer("entry.post", SomeAccount, {"date", "narration", "lines"}, {"entries"}),
        Offer("entry.reverse", [entries |-> {"posted"}, accounts |-> Statuses.account], Reason, {"entries"})})

AccountsPage == Page({"accounts"}, {Offer("account.seed", [accounts |-> {"none"}], {}, {"accounts"})})

PartiesPage ==
  Page({"parties", "items"},
       {Offer("party.create", <<>>, {"type", "name", "placeOfSupplyStateCode"}, {"parties"}),
        Offer("item.create", <<>>, {"kind", "name", "gstRate", "hsnOrSac"}, {"items"})})

-----------------------------------------------------------------------------
(* Compliance and documents *)

\* The card that asks for the number hides itself while it does not know.
GstinSetup == Offer("company.update", [companies |-> {"without_gstin"}], {"gstin"}, {"companies"})

\* Every record has its three buttons, whatever was done to it; a return that is
\* looked at is read from the server at once.
GstPage ==
  LET row(route, sends) ==
        Offer(route, [imsRecords |-> Statuses.ims \ {"none"}], sends, {"imsRecords"}) IN
  Page({"companies", "imsRecords", "gstr"},
       {GstinSetup,
        Offer("ims.sync", <<>>, {"period"}, {"imsRecords"}),
        row("ims.accept", {"action"}), row("ims.reject", {"action", "remarks"}), row("ims.pending", {"action"})})

\* The document that was acted upon is read again, and from then on shown in the place
\* of the one in the list.
DocumentsPage ==
  LET legible == {"extracted", "unread"} IN
  Page({"documents", "parties"},
       {Offer("doc.upload", <<>>, {"filename", "mimeType", "contentBase64"}, {"documents"}),
        Offer("doc.bill", [parties |-> {"active"}, documents |-> legible], {"partyId", "gstRate"}, {"documents"})})

\* What has lapsed is still stored as proposed.
CopilotPage ==
  LET row(route) == Offer(route, [proposals |-> {"proposed", "lapsed"}], {}, {"proposals"}) IN
  Page({"proposals"}, {row("proposal.confirm"), row("proposal.reject")})

-----------------------------------------------------------------------------
(* The company *)

MembersPage ==
  Page({"members"}, {Offer("member.invite", <<>>, {"email", "roleKey"}, {"members"})})

NotificationsPage ==
  Page({"notices", "preferences"},
       {Offer("notice.read", [notices |-> {"unread"}], {"ids"}, {"notices"}),
        Offer("prefs.update", [preferences |-> Statuses.prefs], {"channels"}, {"preferences"})})

\* Nothing is loaded again: the plan changes when Razorpay says so.
BillingPage == Page({"plans"}, {Offer("plan.subscribe", [plans |-> Statuses.plan], {"plan"}, {})})

\* What the first page reads in order to say what waits for somebody.
DashboardPage == Page({"invoices", "bills", "expenses", "imsRecords"}, {})

PAGES ==
  [dashboard |-> DashboardPage, invoices |-> InvoicesPage, bills |-> BillsPage, payments |-> PaymentsPage,
   banking |-> BankingPage, journal |-> JournalPage, accounts |-> AccountsPage, parties |-> PartiesPage,
   gst |-> GstPage, documents |-> DocumentsPage, copilot |-> CopilotPage, team |-> MembersPage,
   notifications |-> NotificationsPage, billing |-> BillingPage]

\* What the first page counts as waiting, when a list shows a status.
Attention ==
  [invoices |-> {"overdue", "late"}, bills |-> {"draft"}, expenses |-> {"submitted"}, imsRecords |-> {"no_action"}]
=============================================================================
