----------------------------- MODULE Invoicing ------------------------------
(***************************************************************************)
(* Documents and tax: how an invoice is drafted, edited, issued and        *)
(* cancelled, what a bill posts, how payments received in advance are      *)
(* taxed, and the GST returns that are drawn up from the documents         *)
(* (invoiceService, billService, paymentService, packages/shared money.ts  *)
(* and constants/gst.ts, engines/gst/GstEngine.ts).                        *)
(*                                                                         *)
(* Editing a draft is not a transaction: the invoice, its party and the    *)
(* company are read, the totals computed, and the result is written where  *)
(* the status is still 'draft'.  Issuing, approving, cancelling, reversing *)
(* and paying are transactions (module Ledger) and one step here.          *)
(* Payments made, and what else payments do, are module Settlement's.      *)
(* Amounts are paise.                                                      *)
(***************************************************************************)
EXTENDS Integers, FiniteSets, Sequences, Functions

CONSTANTS
  SalesInvoices, Bills,
  Receipts,     \* payments received
  Editors,      \* requests editing drafts at the same time
  Parties,      \* customers and suppliers
  StateOf,      \* the state a party's GSTIN or place of supply names
  Registered,   \* parties with a GSTIN
  HomeState,    \* company.stateCode
  States,       \* state codes
  Places,       \* those users give as place of supply
  Incomes,      \* the accounts of the chart that items are sold under
  LineSets,     \* the sets of lines users put on documents
  Months,       \* return periods, 1..n
  Amounts,      \* what is received
  Shares,       \* what of it goes to an invoice, or back
  AdvanceRates, \* GST rates given for advances
  MaxDocuments, \* bound: documents and payments entered
  MaxEdits,     \* bound: edits of drafts begun and reversals by hand
  NoParty       \* no snapshot, no place of supply

\* A line: quantity in tenths, rate and discount as the schema takes them, the
\* GST and cess rates, the income account, and (bills) ITC eligibility.
LineType == [ qty : Nat, rate : Nat, discount : 0..100, gst : Nat, cess : Nat,
              account : Incomes, itc : BOOLEAN ]

\* Receivables, payables, costs, the round-off, advances and money, beside the
\* incomes.
Fixed == {"receivable", "payable", "cost", "roundOff", "advance", "bank"}

ASSUME InvoicingAssumption ==
  /\ StateOf \in [Parties -> States]
  /\ Registered \subseteq Parties
  /\ HomeState \in States /\ Places \subseteq States
  /\ \A L \in LineSets : L # {} /\ L \subseteq LineType /\ IsFiniteSet(L)
  /\ Months \subseteq Nat \ {0}
  /\ NoParty \notin Parties \cup States
  /\ IsFiniteSet(SalesInvoices) /\ IsFiniteSet(Bills) /\ SalesInvoices \cap Bills = {}
  /\ IsFiniteSet(Incomes) /\ Incomes \cap Fixed = {}
  /\ IsFiniteSet(Receipts) /\ Receipts \cap (SalesInvoices \cup Bills) = {}
  /\ Amounts \subseteq Nat /\ Shares \subseteq Nat \ {0} /\ AdvanceRates \subseteq Nat

VARIABLES
  invoice, \* invoices
  bill,    \* bills
  payment, \* payments received
  editor,  \* what each updateDraft is about to write
  journal, \* entries posted
  month,   \* the wall clock, as a return period
  edits    \* edits begun and reversals by hand

invoicingVars == <<invoice, bill, payment, editor, journal, month, edits>>

Components == {"cgst", "sgst", "igst", "cess"}
Accounts   == Fixed \cup Incomes

-----------------------------------------------------------------------------
(* Money *)

\* Math.round(a / b), for a >= 0
Round(a, b) == (2 * a + b) \div (2 * b)

\* splitTaxPaise: the odd paise lands on SGST.
SplitTax(taxable, rate, inter) ==
  LET tax == Round(taxable * rate, 100)
  IN  IF inter THEN [cgst |-> 0, sgst |-> 0, igst |-> tax]
      ELSE [cgst |-> tax \div 2, sgst |-> tax - tax \div 2, igst |-> 0]

Gross(l)    == Round(l.qty * l.rate, 10)
Discount(l) == Round(Gross(l) * l.discount, 100)
Taxable(l)  == Gross(l) - Discount(l)

LineTax(l, inter) ==
  LET split == SplitTax(Taxable(l), l.gst, inter)
      cess  == Round(Taxable(l) * l.cess, 100)
  IN  [c \in Components |-> IF c = "cess" THEN cess ELSE split[c]]

\* The sum of the components of a tax
TaxOf(tax) == SumFunctionOnSet(tax, Components)

TaxableOf(L) == SumFunction([l \in L |-> Taxable(l)])

TaxTotals(L, inter) == [c \in Components |-> SumFunction([l \in L |-> LineTax(l, inter)[c]])]

\* supplyTypeFor, for parties neither overseas nor in a special zone
InterState(a, b) == a # b

\* computeTotals: everything derived is computed from the lines, and the total
\* rounded to the nearest rupee.
Totals(L, inter) ==
  LET taxable == TaxableOf(L)
      tax     == TaxTotals(L, inter)
      raw     == taxable + TaxOf(tax)
      grand   == Round(raw, 100) * 100
  IN  [taxable |-> taxable, tax |-> tax, roundOff |-> grand - raw, grand |-> grand]

NoTotals == [taxable |-> 0, tax |-> [c \in Components |-> 0], roundOff |-> 0, grand |-> 0]

-----------------------------------------------------------------------------
(* What documents post *)

NoTax == [c \in Components |-> 0]

\* What is on an account's lines
Value(L, a) == TaxableOf({l \in L : l.account = a})

\* An entry is its debits minus credits: by account, output tax, input tax.
\* glLinesFor: the receivable, the income by account, each tax, the round-off.
InvoiceEntry(i) ==
  [book |-> [a \in Accounts |-> CASE a = "receivable" -> i.totals.grand
                                  [] a = "roundOff"   -> 0 - i.totals.roundOff
                                  [] a \in Incomes    -> 0 - Value(i.lines, a)
                                  [] OTHER            -> 0],
   out |-> [c \in Components |-> 0 - i.totals.tax[c]],
   itc |-> NoTax]

Eligible(L) == {l \in L : l.itc}

\* The tax of a line that is not eligible for credit is part of the cost.
LineCost(l, inter) == Taxable(l) + IF l.itc THEN 0 ELSE TaxOf(LineTax(l, inter))

\* billService.approve: the costs, the input tax, the payable.
BillEntry(b) ==
  [book |-> [a \in Accounts |-> CASE a = "cost"    -> SumFunction([l \in b.lines |-> LineCost(l, b.inter)])
                                  [] a = "payable" -> 0 - b.totals.grand
                                  [] OTHER         -> 0],
   out |-> NoTax,
   itc |-> TaxTotals(Eligible(b.lines), b.inter)]

Balanced(e) == SumFunction(e.book) + TaxOf(e.out) + TaxOf(e.itc) = 0

\* GeneralLedger.post refuses a line of zero: an account with nothing on it.
Postable(e, used) == Balanced(e) /\ \A a \in used : e.book[a] # 0

\* An entry is of a document, or the nth of a payment; by whom it was made, and how
\* many entries it reverses in a row.
Post(e, date, doc, n, by) ==
  journal' = journal \cup {[lines |-> e, month |-> date, doc |-> doc, part |-> n, undoes |-> 0, by |-> by]}

Negated(e) == [book |-> [a \in Accounts |-> 0 - e.book[a]],
               out |-> [c \in Components |-> 0 - e.out[c]],
               itc |-> [c \in Components |-> 0 - e.itc[c]]]

\* GeneralLedger.reverse: any entry, a reversal too, once; dated today.
Reversal(k, by) ==
  [k EXCEPT !.lines = Negated(k.lines), !.month = month, !.undoes = k.undoes + 1, !.by = by]

Reversed(k) == \E n \in journal : n.doc = k.doc /\ n.part = k.part /\ n.undoes = k.undoes + 1

Reverse(k, by) == ~Reversed(k) /\ journal' = journal \cup {Reversal(k, by)}

\* What a document posted itself
OwnEntry(k, doc) == k.doc = doc /\ k.undoes = 0

-----------------------------------------------------------------------------
(* Invoices *)

NoInvoice == [status |-> "absent", paid |-> 0, party |-> NoParty, snapshot |-> NoParty,
              month |-> 0, pos |-> NoParty, lines |-> {}, inter |-> FALSE, totals |-> NoTotals]

\* The place of supply given, or else the party's.
PlaceOf(given, p) == IF given # NoParty THEN given ELSE StateOf[p]

NoPayment == [month |-> 0, pool |-> 0, left |-> 0, tax |-> NoTax, uses |-> <<>>]

Entered == {i \in SalesInvoices : invoice[i] # NoInvoice} \cup {b \in Bills : bill[b].status # "absent"}
             \cup {p \in Receipts : payment[p] # NoPayment}

\* invoiceService.createDraft
Draft(i) ==
  /\ invoice[i].status = "absent"
  /\ Cardinality(Entered) < MaxDocuments
  /\ \E p \in Parties, L \in LineSets, m \in Months, given \in Places \cup {NoParty} :
       LET pos   == PlaceOf(given, p)
           inter == InterState(HomeState, pos)
       IN invoice' = [invoice EXCEPT ![i] =
                    [status |-> "draft", paid |-> 0, party |-> p, snapshot |-> p, month |-> m, pos |-> pos,
                     lines |-> L, inter |-> inter, totals |-> Totals(L, inter)]]
  /\ UNCHANGED <<bill, payment, editor, journal, month, edits>>

Resting == [on |-> NoParty, write |-> NoInvoice]

\* What updateDraft may make of a draft, one field at a time: fields not patched
\* keep their value, the place of supply and the snapshot of the party among them...
Patched(old) ==
       {[old EXCEPT !.party = p] : p \in Parties} \cup {[old EXCEPT !.lines = L] : L \in LineSets}
  \cup {[old EXCEPT !.month = m] : m \in Months} \cup {[old EXCEPT !.pos = place] : place \in Places}

\* ... and the totals are computed anew.
Merged(new) ==
  LET inter == InterState(HomeState, PlaceOf(new.pos, new.party))
  IN  [new EXCEPT !.inter = inter, !.totals = Totals(new.lines, inter)]

\* updateDraft up to its write
ReadDraft(e, i) ==
  /\ editor[e] = Resting
  /\ invoice[i].status = "draft"
  /\ edits < MaxEdits
  /\ edits' = edits + 1
  /\ \E new \in Patched(invoice[i]) :
       editor' = [editor EXCEPT ![e] = [on |-> i, write |-> Merged(new)]]
  /\ UNCHANGED <<invoice, bill, payment, journal, month>>

\* Mutant: the totals are left as they are.
WriteWithoutTotals(e) ==
  LET i == editor[e].on IN
  /\ editor[e] # Resting
  /\ invoice' = IF invoice[i].status = "draft"
            THEN [invoice EXCEPT ![i] = [editor[e].write EXCEPT !.totals = invoice[i].totals]] ELSE invoice
  /\ editor' = [editor EXCEPT ![e] = Resting]
  /\ UNCHANGED <<bill, payment, journal, month, edits>>

\* findOneAndUpdate({ _id, status: 'draft' }); the answer may be null.
WriteDraft(e) ==
  LET i == editor[e].on IN
  /\ editor[e] # Resting
  /\ invoice' = IF invoice[i].status = "draft" THEN [invoice EXCEPT ![i] = editor[e].write] ELSE invoice
  /\ editor' = [editor EXCEPT ![e] = Resting]
  /\ UNCHANGED <<bill, payment, journal, month, edits>>

Used(L) == {l.account : l \in L}

\* invoiceService.issue, dated by the invoice
IssueInvoice(i) ==
  /\ invoice[i].status = "draft"
  /\ LET e == InvoiceEntry(invoice[i]) IN
     /\ Postable(e, Used(invoice[i].lines) \cup {"receivable"})
     /\ Post(e, invoice[i].month, i, 0, "document")
  /\ invoice' = [invoice EXCEPT ![i].status = "issued"]
  /\ UNCHANGED <<bill, payment, editor, month, edits>>

\* invoiceService.cancel, of an invoice not paid in any part; the reversal is
\* dated today.
CancelInvoice(i) ==
  /\ invoice[i].status = "issued" /\ invoice[i].paid = 0
  /\ \E k \in journal : OwnEntry(k, i) /\ Reverse(k, "document")
  /\ invoice' = [invoice EXCEPT ![i].status = "cancelled"]
  /\ UNCHANGED <<bill, payment, editor, month, edits>>

-----------------------------------------------------------------------------
(* Bills *)

NoBill == [status |-> "absent", month |-> 0, lines |-> {}, inter |-> FALSE, totals |-> NoTotals]

\* Bills know no discounts, and nothing is rounded.
Plain(L) == {[l EXCEPT !.discount = 0] : l \in L}

BillTotals(L, inter) ==
  LET tax == TaxTotals(L, inter)
  IN  [taxable |-> TaxableOf(L), tax |-> tax, roundOff |-> 0, grand |-> TaxableOf(L) + TaxOf(tax)]

\* billService.create; the supplier's state decides.
Enter(b) ==
  /\ bill[b].status = "absent"
  /\ Cardinality(Entered) < MaxDocuments
  /\ \E p \in Parties, L \in LineSets, m \in Months :
       LET inter == InterState(StateOf[p], HomeState)
       IN bill' = [bill EXCEPT ![b] =
                     [status |-> "draft", month |-> m, lines |-> Plain(L), inter |-> inter,
                      totals |-> BillTotals(Plain(L), inter)]]
  /\ UNCHANGED <<invoice, payment, editor, journal, month, edits>>

Approve(b) ==
  /\ bill[b].status = "draft"
  /\ Postable(BillEntry(bill[b]), {"cost", "payable"})
  /\ Post(BillEntry(bill[b]), bill[b].month, b, 0, "document")
  /\ bill' = [bill EXCEPT ![b].status = "approved"]
  /\ UNCHANGED <<invoice, payment, editor, month, edits>>

CancelBill(b) ==
  /\ bill[b].status = "approved"
  /\ \E k \in journal : OwnEntry(k, b) /\ Reverse(k, "document")
  /\ bill' = [bill EXCEPT ![b].status = "cancelled"]
  /\ UNCHANGED <<invoice, payment, editor, month, edits>>

-----------------------------------------------------------------------------
(* Payments received *)

\* flipOverdueInvoices; an invoice that is overdue is not cancelled any more.
Overdue(i) ==
  /\ invoice[i].status = "issued"
  /\ invoice' = [invoice EXCEPT ![i].status = "overdue"]
  /\ UNCHANGED <<bill, payment, editor, journal, month, edits>>

\* settleDocument
Due(i) == invoice[i].totals.grand - invoice[i].paid

Settle(i, part) ==
  /\ invoice[i].status \in {"issued", "partially_paid", "overdue"} /\ part <= Due(i)
  /\ invoice' = [invoice EXCEPT ![i].paid = @ + part,
                               ![i].status = IF part = Due(i) THEN "paid" ELSE "partially_paid"]

\* An advance includes its tax.
AdvanceTax(advance, rate, inter) ==
  LET split == SplitTax(Round(advance * 100, 100 + rate), rate, inter)
  IN  [c \in Components |-> IF c = "cess" THEN 0 ELSE split[c]]

\* Debits to the money, the receivable, the advances and the output tax.
MoneyEntry(bank, receivable, advance, tax) ==
  [book |-> [a \in Accounts |-> CASE a = "bank"       -> bank
                                  [] a = "receivable" -> receivable
                                  [] a = "advance"    -> advance
                                  [] OTHER            -> 0],
   out |-> tax, itc |-> NoTax]

\* paymentService.create: part of what comes in may settle an invoice; the rest is
\* an advance, and taxed.
Receive(p) ==
  /\ payment[p] = NoPayment
  /\ Cardinality(Entered) < MaxDocuments
  /\ \E amount \in Amounts, part \in Shares \cup {0}, rate \in AdvanceRates, from \in Parties, m \in Months :
       LET rest == amount - part
           tax  == AdvanceTax(rest, rate, InterState(StateOf[from], HomeState))
           e    == MoneyEntry(amount, 0 - part, TaxOf(tax) - rest, [c \in Components |-> 0 - tax[c]])
       IN /\ part <= amount
          /\ IF part = 0 THEN UNCHANGED invoice ELSE \E i \in SalesInvoices : Settle(i, part)
          /\ Postable(e, {"bank"})
          /\ Post(e, m, p, 0, "payment")
          /\ payment' = [payment EXCEPT ![p] =
                            [month |-> m, pool |-> rest, left |-> rest, tax |-> tax, uses |-> <<>>]]
  /\ UNCHANGED <<bill, editor, month, edits>>

\* The share of an advance's tax in a part of it
ShareOf(v, part) ==
  [c \in Components |-> IF v.pool = 0 THEN 0 ELSE Round(v.tax[c] * part, v.pool)]

\* A part of what is left is used, and its share of the tax reversed, today.
Use(p, part, bank, receivable) ==
  LET share == ShareOf(payment[p], part)
      e     == MoneyEntry(bank, receivable, part - TaxOf(share), share)
  IN /\ part <= payment[p].left
     /\ Postable(e, {"advance"})
     /\ Post(e, month, p, Len(payment[p].uses) + 1, "payment")
     /\ payment' = [payment EXCEPT ![p].left = @ - part,
                                   ![p].uses = Append(@, [part |-> part, month |-> month])]
     /\ UNCHANGED <<bill, editor, month, edits>>

\* paymentService.allocate and refund
Allocate(p) ==
  \E part \in Shares : Use(p, part, 0, 0 - part) /\ \E i \in SalesInvoices : Settle(i, part)

Refund(p) == \E part \in Shares : Use(p, part, 0 - part, 0) /\ UNCHANGED invoice

-----------------------------------------------------------------------------
(* By hand, and time *)

\* journalService.reverse: no document or payment learns of it.
ReverseByHand ==
  /\ edits < MaxEdits
  /\ edits' = edits + 1
  /\ \E k \in journal : Reverse(k, "hand")
  /\ UNCHANGED <<invoice, bill, payment, editor, month>>

NextMonth ==
  /\ month + 1 \in Months
  /\ month' = month + 1
  /\ UNCHANGED <<invoice, bill, payment, editor, journal, edits>>

InvoicingInit ==
  /\ invoice = [i \in SalesInvoices |-> NoInvoice]
  /\ bill = [b \in Bills |-> NoBill]
  /\ payment = [p \in Receipts |-> NoPayment]
  /\ editor = [e \in Editors |-> Resting]
  /\ journal = {}
  /\ month = 1
  /\ edits = 0

InvoicingNext ==
  \/ \E i \in SalesInvoices : Draft(i) \/ IssueInvoice(i) \/ CancelInvoice(i) \/ Overdue(i)
  \/ \E e \in Editors : WriteDraft(e) \/ \E i \in SalesInvoices : ReadDraft(e, i)
  \/ \E b \in Bills : Enter(b) \/ Approve(b) \/ CancelBill(b)
  \/ \E p \in Receipts : Receive(p) \/ Allocate(p) \/ Refund(p)
  \/ ReverseByHand
  \/ NextMonth

InvoicingSpec == InvoicingInit /\ [][InvoicingNext]_invoicingVars

-----------------------------------------------------------------------------
(* GST returns: what generating them for a period now would give *)

\* Mutant: cancelled invoices stay in the return.
FiledEver(m) == {i \in SalesInvoices : invoice[i].status \notin {"absent", "draft"} /\ invoice[i].month = m}

Standing == {"issued", "partially_paid", "paid", "overdue"}

Filed(m)   == {i \in SalesInvoices : invoice[i].status \in Standing /\ invoice[i].month = m}
Claimed(m) == {b \in Bills : bill[b].status = "approved" /\ bill[b].month = m}

RateGroup(i, r) == {l \in invoice[i].lines : l.gst = r}
Rates(i) == {l.gst : l \in invoice[i].lines}

\* GSTR-1: a row per invoice and rate of a registered customer (by snapshot)...
B2b(m) == {row \in Filed(m) \X UNION {Rates(i) : i \in Filed(m)} :
             invoice[row[1]].snapshot \in Registered /\ row[2] \in Rates(row[1])}

B2bTax(i, r) == TaxTotals(RateGroup(i, r), invoice[i].inter)

\* ... and for the others a row per kind of supply, place and rate.
Small(m) == {i \in Filed(m) : invoice[i].snapshot \notin Registered}

B2cKey(i, r) == [inter |-> invoice[i].inter, pos |-> invoice[i].pos, rate |-> r]

B2cKeys(m) == UNION {{B2cKey(i, r) : r \in Rates(i)} : i \in Small(m)}

B2cInvoices(m, key) == {i \in Small(m) : \E r \in Rates(i) : B2cKey(i, r) = key}

B2cTax(m, key) ==
  [c \in Components |->
     SumFunction([i \in B2cInvoices(m, key) |-> TaxTotals(RateGroup(i, key.rate), key.inter)[c]])]

Gstr1(m, c) == SumFunction([row \in B2b(m) |-> B2bTax(row[1], row[2])[c]])
                 + SumFunction([key \in B2cKeys(m) |-> B2cTax(m, key)[c]])

\* GSTR-3B: outward supplies from the invoices' totals, credit from the lines.
Outward(m, c) == SumFunction([i \in Filed(m) |-> invoice[i].totals.tax[c]])
Credit(m, c)  ==
  SumFunction([b \in Claimed(m) |-> TaxTotals(Eligible(bill[b].lines), bill[b].inter)[c]])

-----------------------------------------------------------------------------
(* Properties *)

\* I5: an invoice's totals are those of its own lines and place of supply,
\* however edits of the draft overlap; the tax is the same to the paisa whether
\* the supply crosses a state border or not ("never totalTax / 2 twice"); and
\* ("I2 by design") the entry it posts balances, whatever the lines, discounts,
\* splits and rounding, with at most half a rupee of round-off.  So does a bill's.
\* And what is issued stays what was issued: no edit, not one that began before
\* either, and no payment changes its lines, totals, party or place.
TotalsFollowLines ==
  /\ [](/\ \A i \in SalesInvoices :
            invoice[i].status # "absent" =>
              /\ invoice[i].totals = Totals(invoice[i].lines, invoice[i].inter)
              /\ invoice[i].inter = InterState(HomeState, invoice[i].pos)
              /\ TaxOf(invoice[i].totals.tax) = TaxOf(TaxTotals(invoice[i].lines, ~invoice[i].inter))
              /\ Balanced(InvoiceEntry(invoice[i])) /\ invoice[i].totals.roundOff \in -49..50
        /\ \A b \in Bills : bill[b].status # "absent" => Balanced(BillEntry(bill[b])))
  /\ [][ \A i \in SalesInvoices :
           invoice[i].status \notin {"absent", "draft"} =>
             [invoice'[i] EXCEPT !.status = invoice[i].status, !.paid = invoice[i].paid] = invoice[i] ]_invoice

\* Documents cancelled in another month than they were posted in
Straddling == {k \in journal : k.by = "document" /\
                 \E n \in journal : n.by = "document" /\ n.doc = k.doc /\ n.month # k.month}

\* The movement of the tax accounts in a month, but for those documents and for
\* reversals by hand.
Kept(m)         == {k \in journal \ Straddling : k.month = m /\ k.by # "hand"}
OutputTax(m, c) == SumFunction([k \in Kept(m) |-> k.lines.out[c]])
InputTax(m, c)  == SumFunction([k \in Kept(m) |-> k.lines.itc[c]])

\* By the payments' own records: the tax on what they brought in advance in a month,
\* less the shares of what was applied to invoices or given back in it.
UsedIn(v, m)      == {n \in DOMAIN v.uses : v.uses[n].month = m}
Released(v, m, c) == SumFunction([n \in UsedIn(v, m) |-> ShareOf(v, v.uses[n].part)[c]])
HeldOn(v, m, c)   == (IF v.month = m THEN v.tax[c] ELSE 0) - Released(v, m, c)
OnAdvances(m, c)  == SumFunction([p \in Receipts |-> HeldOn(payment[p], m, c)])

\* GSTR-1 and GSTR-3B, one built from lines and the other from totals, declare one
\* tax, whatever was paid, turned overdue or cancelled.  "Every table must sum to
\* the trial balance's tax accounts" (GstEngine): for the credit so it is, and for
\* the output tax up to three things of which the returns know nothing - GST on
\* advances, by which the books move as the payments' records say and no more;
\* documents cancelled in another month than their own; and entries reversed by
\* hand, whose documents stay in the returns.
ReturnsMatchBooks ==
  \A m \in Months, c \in Components :
    /\ Gstr1(m, c) = Outward(m, c)
    /\ Outward(m, c) + OnAdvances(m, c) = 0 - OutputTax(m, c)
    /\ Credit(m, c) = InputTax(m, c)
=============================================================================
