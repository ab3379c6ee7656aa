----------------------------- MODULE Settlement -----------------------------
(***************************************************************************)
(* Documents and money: invoices, bills, payments and what they post to    *)
(* the control accounts (invoiceService, billService, paymentService,      *)
(* razorpayService, and jobs/maintenance.ts for the overdue flip).         *)
(*                                                                         *)
(* Every mutation here but the overdue flip is one withTransaction that    *)
(* reads AND writes each document it decides on, and posts an entry.  Two  *)
(* that overlap on a document, an entry or a number conflict and the later *)
(* one is run again (module Ledger, SnapshotIsolation), so each is an      *)
(* atomic step.  What is read before the transaction starts is not         *)
(* protected: the webhook handler is two steps.                            *)
(*                                                                         *)
(* A request the code answers with an error changes nothing and is no      *)
(* step.  One party and one company; amounts are small numbers of paise.   *)
(***************************************************************************)
EXTENDS Integers, Sequences, FiniteSets, Functions

CONSTANTS
  Invoices, Bills,
  Totals,          \* grand totals documents may have
  Amounts,         \* amounts paid, allocated and refunded
  AdvanceRate,     \* advanceGstRate of an inflow, 0 when absent
  InterState,      \* is the party in another state: IGST, not CGST + SGST
  MaxPayments,     \* bound on the journal of payments for users to add to it
  ManualReversal,  \* does anybody reverse a document's entry as a journal?
  Captures,        \* razorpay payments: ids of captured events
  CapturedAmount, CapturedInvoice, \* what a captured event says
  Handlers,        \* webhook deliveries handled at the same time
  NoRef            \* the reference of a payment that is not razorpay's

ASSUME SettlementAssumption ==
  /\ Totals \subseteq Nat \ {0}
  /\ Amounts \subseteq Nat \ {0}
  /\ AdvanceRate \in Nat
  /\ MaxPayments \in Nat
  /\ ManualReversal \in BOOLEAN /\ InterState \in BOOLEAN
  /\ CapturedAmount \in [Captures -> Nat \ {0}]
  /\ CapturedInvoice \in [Captures -> Invoices]
  /\ NoRef \notin Captures
  /\ Invoices \cap Bills = {} /\ IsFiniteSet(Invoices) /\ IsFiniteSet(Bills)

Docs == Invoices \cup Bills
Control == {"bank", "receivable", "payable", "custAdvance", "suppAdvance", "gst"}
Components == {"cgst", "sgst", "igst"}

VARIABLES
  doc,      \* invoices and bills
  payments, \* payments, in the order they were recorded
  books,    \* debits minus credits of each control account
  captured, \* events razorpay has captured and delivers until acknowledged
  handler   \* what each delivery being handled has read

settlementVars == <<doc, payments, books, captured, handler>>

Absent == [status |-> "absent", total |-> 0, paid |-> 0, due |-> 0, entry |-> "none"]
IdleHandler == [event |-> NoRef, due |-> 0]

-----------------------------------------------------------------------------
(* Arithmetic *)

\* Math.round(a / b)
Round(a, b) == (2 * a + b) \div (2 * b)

\* splitTaxPaise of the tax contained in a gross, tax-inclusive advance
AdvanceTax(gross) ==
  LET taxable == Round(gross * 100, 100 + AdvanceRate)
      tax     == Round(taxable * AdvanceRate, 100)
      half    == tax \div 2
  IN  [cgst |-> IF InterState THEN 0 ELSE half,
       sgst |-> IF InterState THEN 0 ELSE tax - half,
       igst |-> IF InterState THEN tax ELSE 0]

TaxOf(t) == SumFunctionOnSet(t, Components)

\* share(): the part of each component that goes with part of the pool
Share(p, part) ==
  IF p.pool = 0 THEN [c \in Components |-> 0]
  ELSE [c \in Components |-> Round(p.tax[c] * part, p.pool)]

\* An entry is its debits minus credits by control account.  The lines of a
\* document's entry on other accounts (sales, costs, input tax) balance it.
Lines(l) == [a \in Control |-> IF a \in DOMAIN l THEN l[a] ELSE 0]
Post(l)  == books' = [a \in Control |-> books[a] + Lines(l)[a]]

-----------------------------------------------------------------------------
(* Settling documents *)

Allocated(p)   == SumFunctionOnSet(p.alloc, Docs)

Unallocated(p) == p.amount - Allocated(p) - p.refunded

\* settleDocument: its guards and its assignments
MaySettle(d, amount) ==
  IF d \in Invoices
  THEN /\ doc[d].status \in {"issued", "partially_paid", "overdue"}
       /\ amount <= doc[d].due
  ELSE /\ doc[d].status = "approved"
       /\ doc[d].paid + amount <= doc[d].total

Settled(d, amount) ==
  IF d \in Invoices
  THEN [doc[d] EXCEPT !.paid = @ + amount, !.due = @ - amount,
                      !.status = IF doc[d].due = amount THEN "paid" ELSE "partially_paid"]
  ELSE [doc[d] EXCEPT !.paid = @ + amount]

Paying(alloc) == {d \in Docs : alloc[d] > 0}

Settle(alloc) ==
  /\ \A d \in Paying(alloc) : MaySettle(d, alloc[d])
  /\ doc' = [d \in Docs |-> IF alloc[d] > 0 THEN Settled(d, alloc[d]) ELSE doc[d]]

\* Allocations a request may ask for.  The code checks neither the direction
\* of the payment nor the party against the document.
Allocations == [Docs -> Amounts \cup {0}]

-----------------------------------------------------------------------------
(* Invoices and bills *)

\* createDraft and billService.create
Draft(d) ==
  /\ doc[d].status = "absent"
  /\ \E t \in Totals :
       doc' = [doc EXCEPT ![d] = [@ EXCEPT !.status = "draft", !.total = t, !.due = t]]
  /\ UNCHANGED <<payments, books, captured, handler>>

\* invoiceService.issue and billService.approve
Issue(d) ==
  /\ doc[d].status = "draft"
  /\ doc' = [doc EXCEPT ![d].status = IF d \in Invoices THEN "issued" ELSE "approved",
                        ![d].entry = "posted"]
  /\ IF d \in Invoices THEN Post([receivable |-> doc[d].total])
                       ELSE Post([payable |-> 0 - doc[d].total])
  /\ UNCHANGED <<payments, captured, handler>>


\* invoiceService.cancel (exactly 'issued', so never overdue) and
\* billService.cancel.  GeneralLedger.reverse refuses a reversed entry.
Cancel(d) ==
  /\ doc[d].paid = 0
  /\ doc[d].status \in {"issued", "approved"}
  /\ doc[d].entry = "posted"
  /\ doc' = [doc EXCEPT ![d].status = "cancelled", ![d].entry = "reversed",
                        ![d].due = IF d \in Invoices THEN 0 ELSE @]
  /\ IF d \in Invoices THEN Post([receivable |-> 0 - doc[d].total])
                       ELSE Post([payable |-> doc[d].total])
  /\ UNCHANGED <<payments, captured, handler>>

\* journalService.reverse on the entry of a document: it does not look at
\* the source of the entry, and leaves the document as it is.
ReverseEntry(d) ==
  /\ ManualReversal
  /\ doc[d].entry = "posted"
  /\ doc' = [doc EXCEPT ![d].entry = "reversed"]
  /\ IF d \in Invoices THEN Post([receivable |-> 0 - doc[d].total])
                       ELSE Post([payable |-> doc[d].total])
  /\ UNCHANGED <<payments, captured, handler>>

\* flipOverdueInvoices, once the due date has passed
FlipOverdue(i) ==
  /\ doc[i].status = "issued"
  /\ doc' = [doc EXCEPT ![i].status = "overdue"]
  /\ UNCHANGED <<payments, books, captured, handler>>

-----------------------------------------------------------------------------
(* Payments *)

NoTax == [c \in Components |-> 0]

\* paymentService.create.  A zero or negative line is refused by the ledger.
Create(dir, amount, alloc, rated, ref) ==
  LET allocated == SumFunctionOnSet(alloc, Docs)
      advance   == amount - allocated
      tax == IF dir = "inflow" /\ advance > 0 /\ rated THEN AdvanceTax(advance) ELSE NoTax
      p == [dir |-> dir, amount |-> amount, alloc |-> alloc, refunded |-> 0,
            tax |-> tax, pool |-> advance, ref |-> ref]
  IN
  /\ advance >= 0
  /\ advance > 0 => advance - TaxOf(tax) > 0
  /\ Settle(alloc)
  /\ payments' = Append(payments, p)
  /\ IF dir = "inflow"
     THEN Post([bank |-> amount, receivable |-> 0 - allocated,
                custAdvance |-> TaxOf(tax) - advance, gst |-> 0 - TaxOf(tax)])
     ELSE Post([bank |-> 0 - amount, payable |-> allocated, suppAdvance |-> advance])

Pay(dir) ==
  /\ Len(payments) < MaxPayments
  /\ \E amount \in Amounts, alloc \in Allocations, rated \in {FALSE, AdvanceRate > 0} :
       Create(dir, amount, alloc, rated, NoRef)
  /\ UNCHANGED <<captured, handler>>

\* Mutant: the limit is the whole payment, not what is unallocated of it.
MayUseWhole(p, part) == part <= p.amount

\* "exceeds the unallocated balance"
MayUse(p, part) == part <= Unallocated(p)

Allocate(k) ==
  \E alloc \in Allocations :
    LET p   == payments[k]
        add == SumFunctionOnSet(alloc, Docs)
        tax == TaxOf(Share(p, add))
        more == [d \in Docs |-> p.alloc[d] + alloc[d]]
    IN
    /\ add > 0
    /\ MayUse(p, add)
    /\ Settle(alloc)
    /\ IF p.dir = "inflow"
       THEN /\ add - tax > 0
            /\ Post([custAdvance |-> add - tax, gst |-> tax, receivable |-> 0 - add])
       ELSE Post([payable |-> add, suppAdvance |-> 0 - add])
    /\ payments' = [payments EXCEPT ![k].alloc = more]
    /\ UNCHANGED <<captured, handler>>

Refund(k) ==
  \E part \in Amounts :
    LET p   == payments[k]
        tax == TaxOf(Share(p, part))
    IN
    /\ p.dir = "inflow"
    /\ MayUse(p, part)
    /\ part - tax > 0
    /\ Post([custAdvance |-> part - tax, gst |-> tax, bank |-> 0 - part])
    /\ payments' = [payments EXCEPT ![k].refunded = @ + part]
    /\ UNCHANGED <<doc, captured, handler>>

-----------------------------------------------------------------------------
(* The payment gateway's webhook *)

Recorded(e) == \E k \in DOMAIN payments : payments[k].ref = e

\* A customer pays an invoice that is open.  [external: razorpay]
Capture(e) ==
  /\ e \notin captured
  /\ doc[CapturedInvoice[e]].status \in {"issued", "partially_paid", "overdue"}
  /\ captured' = captured \cup {e}
  /\ UNCHANGED <<doc, payments, books, handler>>

\* handleRazorpayEvent up to the call of paymentService.create: it is a no-op
\* if the payment is recorded, and else reads what is due on the invoice.
Deliver(h) ==
  /\ handler[h] = IdleHandler
  /\ \E e \in captured :
       /\ ~Recorded(e)
       /\ handler' = [handler EXCEPT
                        ![h] = [event |-> e, due |-> doc[CapturedInvoice[e]].due]]
  /\ UNCHANGED <<doc, payments, books, captured>>

OneLess(a, b) == IF a <= b THEN a ELSE b

\* Mutant: all that was paid is allocated to the invoice.
HookAllocAll(h) ==
  LET e == handler[h].event
  IN [d \in Docs |-> IF d = CapturedInvoice[e] THEN CapturedAmount[e] ELSE 0]

\* What the handler asks paymentService.create for.
HookAlloc(h) ==
  LET e == handler[h].event
  IN [d \in Docs |-> IF d = CapturedInvoice[e]
                     THEN OneLess(CapturedAmount[e], handler[h].due) ELSE 0]

\* The transaction of paymentService.create; the unique index on (company,
\* reference) refuses a second payment for the same event.
RecordPayment(h) ==
  /\ handler[h] # IdleHandler
  /\ ~Recorded(handler[h].event)
  /\ Create("inflow", CapturedAmount[handler[h].event], HookAlloc(h), FALSE, handler[h].event)
  /\ handler' = [handler EXCEPT ![h] = IdleHandler]
  /\ UNCHANGED captured

\* The handler fails - a guard of create, the unique index, a crash - and
\* razorpay, not having its 200, will deliver the event again.
Fail(h) ==
  /\ handler[h] # IdleHandler
  /\ handler' = [handler EXCEPT ![h] = IdleHandler]
  /\ UNCHANGED <<doc, payments, books, captured>>

-----------------------------------------------------------------------------

SettlementInit ==
  /\ doc = [d \in Docs |-> Absent]
  /\ payments = <<>>
  /\ books = [a \in Control |-> 0]
  /\ captured = {}
  /\ handler = [h \in Handlers |-> IdleHandler]

SettlementNext ==
  \/ \E d \in Docs : Draft(d) \/ Issue(d) \/ Cancel(d) \/ ReverseEntry(d)
  \/ \E i \in Invoices : FlipOverdue(i)
  \/ \E dir \in {"inflow", "outflow"} : Pay(dir)
  \/ \E k \in DOMAIN payments : Allocate(k) \/ Refund(k)
  \/ \E e \in Captures : Capture(e)
  \/ \E h \in Handlers : Deliver(h) \/ RecordPayment(h) \/ Fail(h)

\* A delivery is retried until it is acknowledged, and a handler that can
\* record its event does so rather than fail for ever.
SettlementSpec ==
  /\ SettlementInit /\ [][SettlementNext]_settlementVars
  /\ \A h \in Handlers :
       /\ WF_settlementVars(Deliver(h)) /\ SF_settlementVars(RecordPayment(h))
       /\ WF_settlementVars(Fail(h))

-----------------------------------------------------------------------------
(* What the screens say is owed *)

\* Mutant: an invoice that became overdue is no longer open.
OpenInvoicesInTime == {i \in Invoices : doc[i].status \in {"issued", "partially_paid"}}

\* The documents that ageing, the forecast and the health score look at.
OpenInvoices == {i \in Invoices : doc[i].status \in {"issued", "partially_paid", "overdue"}}
OpenBills    == {b \in Bills : doc[b].status = "approved"}

\* ageDocuments leaves out documents on which nothing is due; the total of its rows.
AgedReceivables ==
  SumFunction([i \in {i \in OpenInvoices : doc[i].due > 0} |-> doc[i].due])
AgedPayables ==
  SumFunction([b \in {b \in OpenBills : doc[b].total - doc[b].paid > 0} |->
                 doc[b].total - doc[b].paid])

\* healthScore leaves out none.
openArPaise == SumFunction([i \in OpenInvoices |-> doc[i].due])
apDuePaise  == SumFunction([b \in OpenBills |-> doc[b].total - doc[b].paid])

\* The thirteen weeks of cashFlow together, of documents due in them or before.
inflowDuePaise(soon)  == SumFunction([i \in OpenInvoices \cap soon |-> doc[i].due])
outflowDuePaise(soon) ==
  SumFunction([b \in {b \in OpenBills \cap soon : doc[b].total - doc[b].paid > 0} |->
                 doc[b].total - doc[b].paid])

\* partyService.list: what the party owes, and is owed.
ListedReceivable ==
  SumFunction([i \in {i \in Invoices : doc[i].status \notin {"absent", "draft", "cancelled"}} |->
                 doc[i].due])
ListedPayable == SumFunction([b \in OpenBills |-> doc[b].total - doc[b].paid])

\* partyService.statement: every document that is no draft, and the difference of
\* the totals of its amounts and of what was paid.
StatementDue(D) ==
  SumFunction([d \in {d \in D : doc[d].status \notin {"absent", "draft"}} |->
                 doc[d].total - doc[d].paid])

-----------------------------------------------------------------------------
(* Properties *)

Outstanding(d) ==
  IF doc[d].status \in {"absent", "draft"} \/ (d \in Bills /\ doc[d].status = "cancelled") THEN 0
  ELSE IF d \in Invoices THEN doc[d].due ELSE doc[d].total - doc[d].paid

\* What documents of which only the entry was reversed still say they are due.
Disowned(D) ==
  SumFunction([d \in {d \in D : doc[d].entry = "reversed" /\ doc[d].status # "cancelled"} |->
                 doc[d].total])

Of(dir) == {k \in DOMAIN payments : payments[k].dir = dir}

\* What payments of one direction were allocated to documents D.
Allotted(dir, D) ==
  SumFunction([k \in Of(dir) |-> SumFunctionOnSet(payments[k].alloc, D)])

\* What all of them say is due.
Due(D) == SumFunction([d \in D |-> Outstanding(d)])

\* What is unallocated of the payments of one direction.
Advances(dir) == SumFunction([k \in Of(dir) |-> Unallocated(payments[k])])

\* "Invoice.amountDuePaise [is] derived from the ledger": the receivable and the
\* payable control account hold exactly what invoices and bills say is due,
\* although the code never derives one from the other, and keeps both by hand in
\* seven handlers.  They part by the entries reversed behind a document's back
\* and by money allocated across - received but put on a bill, paid but put on
\* an invoice - and by nothing else.  The advances' liability, with the GST on it,
\* is what is unallocated and not refunded of the money received, whatever the
\* tax shares were rounded to; advances to suppliers are what is unallocated of
\* the money paid.
ControlAccountsFollowDocuments ==
  LET across == Allotted("outflow", Invoices) - Allotted("inflow", Bills) IN
  /\ books["receivable"] = Due(Invoices) - Disowned(Invoices) + across
  /\ books["payable"] = Disowned(Bills) - Due(Bills) + across
  /\ books["custAdvance"] + books["gst"] = 0 - Advances("inflow")
  /\ books["suppAdvance"] = Advances("outflow")

\* The totals of those that were cancelled.
Cancelled(D) == SumFunction([d \in {d \in D : doc[d].status = "cancelled"} |-> doc[d].total])

\* What is due of open documents that are due after the thirteen weeks.
LaterReceivable(soon) == SumFunction([i \in OpenInvoices \ soon |-> doc[i].due])
LaterPayable(soon)    == SumFunction([b \in OpenBills \ soon |-> doc[b].total - doc[b].paid])

\* Screens add up what is owed, each from its own choice of documents and columns:
\* ageing, the list of parties and the health score say the same, at any moment of
\* whatever life documents have; the weeks of the forecast together say so but for
\* what is due after them, whichever documents these are; and so does the statement of
\* a party, which "reads the same rows" as the list, but for the documents that were
\* cancelled, which it still counts.
ScreensAgree ==
  /\ AgedReceivables = ListedReceivable /\ openArPaise = ListedReceivable
  /\ AgedPayables = ListedPayable /\ apDuePaise = ListedPayable
  /\ \A soon \in SUBSET Docs :
       /\ inflowDuePaise(soon) = AgedReceivables - LaterReceivable(soon)
       /\ outflowDuePaise(soon) = AgedPayables - LaterPayable(soon)
  /\ StatementDue(Invoices) = ListedReceivable + Cancelled(Invoices)
  /\ StatementDue(Bills) = ListedPayable + Cancelled(Bills)

\* A document was paid what payments were allocated to it, never more than its
\* total; it is paid exactly if nothing is due, and money is never stuck on a
\* cancelled document.  sum(allocations) + refunded <= amount, always: a payment
\* is not spent twice, by whatever mixture of allocations and refunds.
DocumentsAgreeWithPayments ==
  /\ \A k \in DOMAIN payments : Unallocated(payments[k]) >= 0
  /\ \A d \in Docs :
       /\ doc[d].paid = SumFunction([k \in DOMAIN payments |-> payments[k].alloc[d]])
       /\ doc[d].paid <= doc[d].total
       /\ doc[d].status = "cancelled" => doc[d].paid = 0
       /\ d \in Invoices /\ doc[d].status # "cancelled" =>
            /\ doc[d].due = doc[d].total - doc[d].paid
            /\ doc[d].status \notin {"absent", "draft"} =>
                 /\ (doc[d].status = "paid") = (doc[d].due = 0)
                 /\ doc[d].paid > 0 => doc[d].status \in {"partially_paid", "paid"}

\* No two payments are of one capture, however often and however concurrently its
\* event is delivered: each handler has looked for the payment before another
\* recorded it.
RecordedOnce ==
  \A k, m \in DOMAIN payments :
    payments[k].ref # NoRef /\ payments[k].ref = payments[m].ref => k = m

\* The books say what documents say, documents what payments say, and payments
\* what was captured, whatever sequence of the seven handlers brought them there.
DocumentsMatchBooks == ControlAccountsFollowDocuments /\ DocumentsAgreeWithPayments /\ RecordedOnce

\* A captured payment enters the books, whatever users do to its invoice in the
\* meantime - pay it otherwise, cancel it, let it become overdue.
CapturedIsRecorded == \A e \in Captures : e \in captured ~> Recorded(e)
=============================================================================
