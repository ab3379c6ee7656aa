----------------------------- MODULE MoneyProofs -----------------------------
(***************************************************************************)
(* That what is owed and what is paid stay in step, for any number of      *)
(* documents, payments and deliveries of any amounts (Settlement); that a  *)
(* bank line is imported, marked and matched once, for any number of       *)
(* uploads, requests, lines and crashes (Reconciliation); and that what    *)
(* is read of papers is true, for any papers and faults (Recognition,      *)
(* Scan).                                                                  *)
(*                                                                         *)
(* The books never say by themselves what is due.  What is invariant is    *)
(* that each control account is a sum over the documents of what each      *)
(* still claims of it and over the payments of what was allocated across   *)
(* (BooksFit), and that each document's status, amounts and entry fit      *)
(* (Fits): an action changes one summand, or by as much as it allocates.   *)
(*                                                                         *)
(* What the tables of the bank say only ever grows (Grows), so whatever a  *)
(* request has seen to be there stays; and what it has yet to do it finds  *)
(* out by the unique indexes, not from what it saw.                        *)
(*                                                                         *)
(* A page at the recogniser is that of the upload whose turn it is; a mean *)
(* of equal confidences is that confidence.  A row between two balances    *)
(* that were read right has one amount and one direction left.             *)
(***************************************************************************)
EXTENDS Settlement, Reconciliation, Scan, FiniteSetTheorems, SequenceTheorems, SumTheorems, TLAPS

-----------------------------------------------------------------------------
(* Settlement: what is well typed, and the invariant *)

Statuses == {"absent", "draft", "issued", "partially_paid", "overdue", "paid", "approved",
             "cancelled"}
Document == [status : Statuses, total : Nat, paid : Nat, due : Nat,
             entry : {"none", "posted", "reversed"}]
Payment  == [dir : {"inflow", "outflow"}, amount : Nat, alloc : [Docs -> Nat],
             refunded : Nat, tax : [Components -> Int], pool : Nat,
             ref : Captures \cup {NoRef}]
Handling == [event : Captures, due : Nat] \cup {IdleHandler}

SettlementTypeOK ==
  /\ doc \in [Docs -> Document]
  /\ payments \in Seq(Payment)
  /\ books \in [Control -> Int]
  /\ captured \subseteq Captures
  /\ handler \in [Handlers -> Handling]

\* A document's status, amounts and entry fit each other.
FitsAs(d, r) ==
  /\ r.status = "absent" => r.total = 0 /\ r.paid = 0 /\ r.due = 0
  /\ r.status # "absent" => r.total > 0
  /\ r.status = "draft" => r.paid = 0 /\ r.due = r.total
  /\ r.entry = "none" <=> r.status \in {"absent", "draft"}
  /\ r.status = "cancelled" => r.paid = 0 /\ r.entry = "reversed"
  /\ r.paid <= r.total
  /\ d \in Invoices =>
       /\ r.status # "approved"
       /\ r.due = IF r.status = "cancelled" THEN 0 ELSE r.total - r.paid
       /\ r.status \notin {"absent", "draft", "cancelled"} => (r.status = "paid" <=> r.due = 0)
       /\ r.paid > 0 => r.status \in {"partially_paid", "paid"}
  /\ d \in Bills => r.status \in {"absent", "draft", "approved", "cancelled"}
Fits(d) == FitsAs(d, doc[d])

\* What a document still claims of the control account: what is due, less what
\* was taken out behind its back.
ClaimAs(d, r) ==
  (IF r.status \in {"absent", "draft"} \/ (d \in Bills /\ r.status = "cancelled") THEN 0
   ELSE IF d \in Invoices THEN r.due ELSE r.total - r.paid)
  - (IF r.entry = "reversed" /\ r.status # "cancelled" THEN r.total ELSE 0)
Claim(d)  == ClaimAs(d, doc[d])
Claims(D) == SumFunctionOnSet([d \in D |-> Claim(d)], D)

\* What a payment was allocated to the documents of the other side.
Across(p) == IF p.dir = "outflow" THEN SumFunctionOnSet(p.alloc, Invoices)
             ELSE 0 - SumFunctionOnSet(p.alloc, Bills)
Crossed == SumFunctionOnSet([k \in DOMAIN payments |-> Across(payments[k])], DOMAIN payments)

LeftOf(dir, p) == IF p.dir = dir THEN Unallocated(p) ELSE 0
Left(dir) ==
  SumFunctionOnSet([k \in DOMAIN payments |-> LeftOf(dir, payments[k])], DOMAIN payments)

PaidTo(d) == SumFunctionOnSet([k \in DOMAIN payments |-> payments[k].alloc[d]], DOMAIN payments)

BooksFit ==
  /\ books["receivable"] = Claims(Invoices) + Crossed
  /\ books["payable"] = Crossed - Claims(Bills)
  /\ books["custAdvance"] + books["gst"] = 0 - Left("inflow")
  /\ books["suppAdvance"] = Left("outflow")

SettlementInv ==
  /\ SettlementTypeOK
  /\ \A d \in Docs : Fits(d) /\ doc[d].paid = PaidTo(d)
  /\ \A k \in DOMAIN payments : Unallocated(payments[k]) >= 0
  /\ BooksFit

-----------------------------------------------------------------------------
(* Arithmetic *)

LEMMA DocsFinite ==
  /\ IsFiniteSet(Docs) /\ IsFiniteSet(Invoices) /\ IsFiniteSet(Bills)
  /\ Docs = Invoices \cup Bills /\ Invoices \cap Bills = {}
<1>1. IsFiniteSet(Invoices) /\ IsFiniteSet(Bills) BY SettlementAssumption
<1>2. IsFiniteSet(Invoices \cup Bills) BY <1>1, FS_Union
<1> QED BY <1>1, <1>2, SettlementAssumption DEF Docs

LEMMA ComponentsFinite == IsFiniteSet(Components)
<1>1. Components = {"cgst"} \cup {"sgst"} \cup {"igst"} BY DEF Components
<1> QED BY <1>1, FS_Singleton, FS_Union

\* A sum over documents is that over invoices and that over bills.
LEMMA AllocationSums ==
  ASSUME NEW alloc \in [Docs -> Nat]
  PROVE  /\ SumFunctionOnSet(alloc, Docs) \in Nat
         /\ SumFunctionOnSet(alloc, Invoices) \in Int /\ SumFunctionOnSet(alloc, Bills) \in Int
         /\ SumFunctionOnSet(alloc, Docs)
              = SumFunctionOnSet(alloc, Invoices) + SumFunctionOnSet(alloc, Bills)
<1>1. \A d \in Docs : alloc[d] \in Int /\ alloc[d] >= 0 OBVIOUS
<1>2. /\ \A d \in Invoices : alloc[d] \in Int
      /\ \A d \in Bills : alloc[d] \in Int
  BY DocsFinite
<1>3. SumFunctionOnSet(alloc, Invoices) \in Int /\ SumFunctionOnSet(alloc, Bills) \in Int
      /\ SumFunctionOnSet(alloc, Docs) \in Int
  BY <1>1, <1>2, DocsFinite, SumType
<1>4. SumFunctionOnSet(alloc, Invoices \cup Bills)
        = SumFunctionOnSet(alloc, Invoices) + SumFunctionOnSet(alloc, Bills)
  <2>1. \A d \in Invoices \cup Bills : alloc[d] \in Int BY <1>2
  <2> QED BY <2>1, DocsFinite, SumUnion
<1>5. SumFunctionOnSet(alloc, Docs) >= 0 BY <1>1, DocsFinite, SumNotNegative
<1>6. SumFunctionOnSet(alloc, Docs) = SumFunctionOnSet(alloc, Invoices \cup Bills)
  BY DocsFinite
<1> QED BY <1>3, <1>4, <1>5, <1>6

LEMMA RoundType ==
  ASSUME NEW a \in Int, NEW b \in Int, b > 0
  PROVE  Round(a, b) \in Int
<1>1. 2 * a + b \in Int /\ 2 * b \in Int /\ 2 * b > 0 OBVIOUS
<1>2. \A x, y \in Int : y > 0 => x \div y \in Int OBVIOUS
<1> QED BY <1>1, <1>2 DEF Round

LEMMA TaxType ==
  ASSUME NEW t \in [Components -> Int]
  PROVE  TaxOf(t) \in Int
<1>1. \A c \in Components : t[c] \in Int OBVIOUS
<1> QED BY <1>1, ComponentsFinite, SumType DEF TaxOf

LEMMA AdvanceTaxType ==
  ASSUME NEW gross \in Nat
  PROVE  AdvanceTax(gross) \in [Components -> Int]
<1> DEFINE taxable == Round(gross * 100, 100 + AdvanceRate)
           tax == Round(taxable * AdvanceRate, 100)
<1>1. AdvanceRate \in Nat BY SettlementAssumption
<1>2. taxable \in Int
  <2>1. gross * 100 \in Int /\ 100 + AdvanceRate \in Int /\ 100 + AdvanceRate > 0 BY <1>1
  <2> QED BY <2>1, RoundType
<1>3. tax \in Int
  <2>1. taxable * AdvanceRate \in Int
    <3> HIDE DEF taxable
    <3> QED BY <1>1, <1>2
  <2> HIDE DEF taxable
  <2> QED BY <2>1, RoundType
<1>4. tax \div 2 \in Int /\ tax - (tax \div 2) \in Int
  <2> HIDE DEF tax
  <2> QED BY <1>3
<1>5. AdvanceTax(gross) = [cgst |-> IF InterState THEN 0 ELSE tax \div 2,
                           sgst |-> IF InterState THEN 0 ELSE tax - (tax \div 2),
                           igst |-> IF InterState THEN tax ELSE 0]
  BY DEF AdvanceTax
<1> HIDE DEF tax
<1> QED BY <1>3, <1>4, <1>5 DEF Components

LEMMA ShareType ==
  ASSUME NEW p \in Payment, NEW part \in Int
  PROVE  Share(p, part) \in [Components -> Int]
<1>1. CASE p.pool = 0 BY <1>1 DEF Share
<1>2. CASE p.pool # 0
  <2>1. p.pool \in Int /\ p.pool > 0 BY <1>2 DEF Payment
  <2>2. ASSUME NEW c \in Components PROVE Round(p.tax[c] * part, p.pool) \in Int
    <3>1. p.tax[c] \in Int BY DEF Payment
    <3>2. p.tax[c] * part \in Int BY <3>1
    <3> QED BY <2>1, <3>2, RoundType
  <2>3. Share(p, part) = [c \in Components |-> Round(p.tax[c] * part, p.pool)]
    BY <1>2 DEF Share
  <2> QED BY <2>2, <2>3
<1> QED BY <1>1, <1>2

-----------------------------------------------------------------------------
(* What the screens add up *)

LEMMA DocTypes ==
  ASSUME SettlementTypeOK, NEW d \in Docs
  PROVE  /\ doc[d] \in Document
         /\ doc[d].total \in Nat /\ doc[d].paid \in Nat /\ doc[d].due \in Nat
         /\ doc[d].status \in Statuses /\ doc[d].entry \in {"none", "posted", "reversed"}
         /\ Outstanding(d) \in Int /\ Claim(d) \in Int
<1>1. doc[d] \in Document BY DEF SettlementTypeOK
<1>2. /\ doc[d].total \in Nat /\ doc[d].paid \in Nat /\ doc[d].due \in Nat
      /\ doc[d].status \in Statuses /\ doc[d].entry \in {"none", "posted", "reversed"}
  BY <1>1 DEF Document
<1>3. Outstanding(d) \in Int BY <1>2 DEF Outstanding
<1>4. Claim(d) \in Int BY <1>2 DEF Claim, ClaimAs
<1> QED BY <1>1, <1>2, <1>3, <1>4

LEMMA InvoiceScreens ==
  ASSUME SettlementTypeOK, \A d \in Docs : Fits(d)
  PROVE  /\ AgedReceivables = ListedReceivable
         /\ StatementDue(Invoices) = ListedReceivable + Cancelled(Invoices)
<1> DEFINE aged == {i \in OpenInvoices : doc[i].due > 0}
           listed == {i \in Invoices : doc[i].status \notin {"absent", "draft", "cancelled"}}
           stated == {d \in Invoices : doc[d].status \notin {"absent", "draft"}}
           gone == {d \in Invoices : doc[d].status = "cancelled"}
           due == [i \in Invoices |-> IF i \in listed THEN doc[i].due ELSE 0]
           lost == [i \in Invoices |-> IF i \in gone THEN doc[i].total ELSE 0]
           said == [i \in Invoices |-> IF i \in stated THEN doc[i].total - doc[i].paid ELSE 0]
<1>1. \A i \in Invoices : /\ i \in Docs /\ Fits(i)
                          /\ doc[i].total \in Nat /\ doc[i].paid \in Nat /\ doc[i].due \in Nat
                          /\ doc[i].status \in Statuses
  BY DocsFinite, DocTypes
<1>2. /\ aged \in SUBSET Invoices /\ listed \in SUBSET Invoices
      /\ stated \in SUBSET Invoices /\ gone \in SUBSET Invoices
  BY DEF OpenInvoices
<1>3. \A i \in Invoices : due[i] = IF i \in aged THEN doc[i].due ELSE 0
  BY <1>1 DEF OpenInvoices, Fits, FitsAs, Statuses
<1>4. \A i \in Invoices : due[i] \in Int /\ lost[i] \in Int /\ said[i] = due[i] + lost[i]
  BY <1>1 DEF Fits, FitsAs, Statuses
<1>5. AgedReceivables = SumFunctionOnSet([i \in aged |-> doc[i].due], aged)
  BY DEF AgedReceivables, SumFunction
<1>6. ListedReceivable = SumFunctionOnSet([i \in listed |-> doc[i].due], listed)
  BY DEF ListedReceivable, SumFunction
<1>7. StatementDue(Invoices) = SumFunctionOnSet([i \in stated |-> doc[i].total - doc[i].paid], stated)
  BY DEF StatementDue, SumFunction
<1>8. Cancelled(Invoices) = SumFunctionOnSet([i \in gone |-> doc[i].total], gone)
  BY DEF Cancelled, SumFunction
<1>9. SumFunctionOnSet([i \in aged |-> doc[i].due], aged) = SumFunctionOnSet(due, Invoices)
  <2> DEFINE f == [i \in aged |-> doc[i].due]
  <2>1. /\ \A i \in aged : f[i] \in Int
        /\ \A i \in Invoices : due[i] = IF i \in aged THEN f[i] ELSE 0
    BY <1>1, <1>2, <1>3
  <2> HIDE DEF f, due, aged
  <2> QED BY <1>2, <2>1, DocsFinite, SumOfPart DEF f
<1>10. SumFunctionOnSet([i \in listed |-> doc[i].due], listed) = SumFunctionOnSet(due, Invoices)
  <2> DEFINE f == [i \in listed |-> doc[i].due]
  <2>1. /\ \A i \in listed : f[i] \in Int
        /\ \A i \in Invoices : due[i] = IF i \in listed THEN f[i] ELSE 0
    BY <1>1, <1>2
  <2> HIDE DEF f, due, listed
  <2> QED BY <1>2, <2>1, DocsFinite, SumOfPart DEF f
<1>11. SumFunctionOnSet([i \in stated |-> doc[i].total - doc[i].paid], stated)
         = SumFunctionOnSet(said, Invoices)
  <2> DEFINE f == [i \in stated |-> doc[i].total - doc[i].paid]
  <2>1. /\ \A i \in stated : f[i] \in Int
        /\ \A i \in Invoices : said[i] = IF i \in stated THEN f[i] ELSE 0
    BY <1>1, <1>2
  <2> HIDE DEF f, said, stated
  <2> QED BY <1>2, <2>1, DocsFinite, SumOfPart DEF f
<1>12. SumFunctionOnSet([i \in gone |-> doc[i].total], gone) = SumFunctionOnSet(lost, Invoices)
  <2> DEFINE f == [i \in gone |-> doc[i].total]
  <2>1. /\ \A i \in gone : f[i] \in Int
        /\ \A i \in Invoices : lost[i] = IF i \in gone THEN f[i] ELSE 0
    BY <1>1, <1>2
  <2> HIDE DEF f, lost, gone
  <2> QED BY <1>2, <2>1, DocsFinite, SumOfPart DEF f
<1> HIDE DEF due, lost, said, aged, listed, stated, gone
<1>13. SumFunctionOnSet(said, Invoices)
         = SumFunctionOnSet(due, Invoices) + SumFunctionOnSet(lost, Invoices)
  BY <1>4, DocsFinite, SumPlus
<1> QED BY <1>5, <1>6, <1>7, <1>8, <1>9, <1>10, <1>11, <1>12, <1>13
          DEF due, lost, said, aged, listed, stated, gone

LEMMA BillScreens ==
  ASSUME SettlementTypeOK, \A d \in Docs : Fits(d)
  PROVE  /\ AgedPayables = ListedPayable
         /\ StatementDue(Bills) = ListedPayable + Cancelled(Bills)
<1> DEFINE aged == {b \in OpenBills : doc[b].total - doc[b].paid > 0}
           listed == OpenBills
           stated == {d \in Bills : doc[d].status \notin {"absent", "draft"}}
           gone == {d \in Bills : doc[d].status = "cancelled"}
           due == [i \in Bills |-> IF i \in listed THEN doc[i].total - doc[i].paid ELSE 0]
           lost == [i \in Bills |-> IF i \in gone THEN doc[i].total ELSE 0]
           said == [i \in Bills |-> IF i \in stated THEN doc[i].total - doc[i].paid ELSE 0]
<1>1. \A i \in Bills : /\ i \in Docs /\ Fits(i)
                       /\ doc[i].total \in Nat /\ doc[i].paid \in Nat
                       /\ doc[i].status \in Statuses
  BY DocsFinite, DocTypes
<1>2. /\ aged \in SUBSET Bills /\ listed \in SUBSET Bills
      /\ stated \in SUBSET Bills /\ gone \in SUBSET Bills
  BY DEF OpenBills
<1>3. \A i \in Bills : due[i] = IF i \in aged THEN doc[i].total - doc[i].paid ELSE 0
  BY <1>1 DEF OpenBills, Fits, FitsAs, Statuses
<1>4. \A i \in Bills : due[i] \in Int /\ lost[i] \in Int /\ said[i] = due[i] + lost[i]
  BY <1>1 DEF Fits, FitsAs, Statuses, OpenBills
<1>5. AgedPayables = SumFunctionOnSet([i \in aged |-> doc[i].total - doc[i].paid], aged)
  BY DEF AgedPayables, SumFunction
<1>6. ListedPayable = SumFunctionOnSet([i \in listed |-> doc[i].total - doc[i].paid], listed)
  BY DEF ListedPayable, SumFunction
<1>7. StatementDue(Bills) = SumFunctionOnSet([i \in stated |-> doc[i].total - doc[i].paid], stated)
  BY DEF StatementDue, SumFunction
<1>8. Cancelled(Bills) = SumFunctionOnSet([i \in gone |-> doc[i].total], gone)
  BY DEF Cancelled, SumFunction
<1>9. SumFunctionOnSet([i \in aged |-> doc[i].total - doc[i].paid], aged) = SumFunctionOnSet(due, Bills)
  <2> DEFINE f == [i \in aged |-> doc[i].total - doc[i].paid]
  <2>1. /\ \A i \in aged : f[i] \in Int
        /\ \A i \in Bills : due[i] = IF i \in aged THEN f[i] ELSE 0
    BY <1>1, <1>2, <1>3
  <2> HIDE DEF f, due, aged
  <2> QED BY <1>2, <2>1, DocsFinite, SumOfPart DEF f
<1>10. SumFunctionOnSet([i \in listed |-> doc[i].total - doc[i].paid], listed) = SumFunctionOnSet(due, Bills)
  <2> DEFINE f == [i \in listed |-> doc[i].total - doc[i].paid]
  <2>1. /\ \A i \in listed : f[i] \in Int
        /\ \A i \in Bills : due[i] = IF i \in listed THEN f[i] ELSE 0
    BY <1>1, <1>2
  <2> HIDE DEF f, due, listed
  <2> QED BY <1>2, <2>1, DocsFinite, SumOfPart DEF f
<1>11. SumFunctionOnSet([i \in stated |-> doc[i].total - doc[i].paid], stated)
         = SumFunctionOnSet(said, Bills)
  <2> DEFINE f == [i \in stated |-> doc[i].total - doc[i].paid]
  <2>1. /\ \A i \in stated : f[i] \in Int
        /\ \A i \in Bills : said[i] = IF i \in stated THEN f[i] ELSE 0
    BY <1>1, <1>2
  <2> HIDE DEF f, said, stated
  <2> QED BY <1>2, <2>1, DocsFinite, SumOfPart DEF f
<1>12. SumFunctionOnSet([i \in gone |-> doc[i].total], gone) = SumFunctionOnSet(lost, Bills)
  <2> DEFINE f == [i \in gone |-> doc[i].total]
  <2>1. /\ \A i \in gone : f[i] \in Int
        /\ \A i \in Bills : lost[i] = IF i \in gone THEN f[i] ELSE 0
    BY <1>1, <1>2
  <2> HIDE DEF f, lost, gone
  <2> QED BY <1>2, <2>1, DocsFinite, SumOfPart DEF f
<1> HIDE DEF due, lost, said, aged, listed, stated, gone
<1>13. SumFunctionOnSet(said, Bills)
         = SumFunctionOnSet(due, Bills) + SumFunctionOnSet(lost, Bills)
  BY <1>4, DocsFinite, SumPlus
<1> QED BY <1>5, <1>6, <1>7, <1>8, <1>9, <1>10, <1>11, <1>12, <1>13
          DEF due, lost, said, aged, listed, stated, gone

-----------------------------------------------------------------------------
(* The control accounts, as sums over constant sets *)

LEMMA ClaimsAre ==
  ASSUME SettlementTypeOK, NEW D \in SUBSET Docs
  PROVE  Due(D) - Disowned(D) = Claims(D) /\ Claims(D) \in Int
<1> DEFINE own == {d \in D : doc[d].entry = "reversed" /\ doc[d].status # "cancelled"}
           due == [d \in D |-> Outstanding(d)]
           gone == [d \in D |-> IF d \in own THEN doc[d].total ELSE 0]
           claim == [d \in D |-> Claim(d)]
           f == [d \in own |-> doc[d].total]
<1>1. IsFiniteSet(D) BY DocsFinite, FS_Subset
<1>2. \A d \in D : doc[d].total \in Nat /\ Outstanding(d) \in Int /\ Claim(d) \in Int BY DocTypes
<1>3. \A d \in D : due[d] \in Int /\ gone[d] \in Int /\ claim[d] = due[d] - gone[d]
  BY <1>2 DEF Claim, ClaimAs, Outstanding
<1>4. /\ own \in SUBSET D /\ \A d \in own : f[d] \in Int
      /\ \A d \in D : gone[d] = IF d \in own THEN f[d] ELSE 0
  BY <1>2
<1>5. Due(D) = SumFunctionOnSet(due, D) BY DEF Due, SumFunction
<1>6. Disowned(D) = SumFunctionOnSet(f, own) BY DEF Disowned, SumFunction
<1>7. Claims(D) = SumFunctionOnSet(claim, D) BY DEF Claims
<1>8. \A d \in D : claim[d] \in Int BY <1>2
<1> HIDE DEF own, due, gone, claim, f
<1>9. SumFunctionOnSet(f, own) = SumFunctionOnSet(gone, D) BY <1>1, <1>4, SumOfPart
<1>10. SumFunctionOnSet(claim, D) = SumFunctionOnSet(due, D) - SumFunctionOnSet(gone, D)
  BY <1>1, <1>3, SumMinus
<1>11. SumFunctionOnSet(claim, D) \in Int BY <1>1, <1>8, SumType
<1> QED BY <1>5, <1>6, <1>7, <1>9, <1>10, <1>11

LEMMA TermTypes ==
  ASSUME SettlementTypeOK, NEW D \in SUBSET Docs
  PROVE  Due(D) \in Int /\ Disowned(D) \in Int
<1> DEFINE own == {d \in D : doc[d].entry = "reversed" /\ doc[d].status # "cancelled"}
           due == [d \in D |-> Outstanding(d)]
           f == [d \in own |-> doc[d].total]
<1>1. IsFiniteSet(D) /\ IsFiniteSet(own) BY DocsFinite, FS_Subset, own \subseteq D
<1>2. (\A d \in D : due[d] \in Int) /\ \A d \in own : f[d] \in Int BY DocTypes
<1>3. Due(D) = SumFunctionOnSet(due, D) BY DEF Due, SumFunction
<1>4. Disowned(D) = SumFunctionOnSet(f, own) BY DEF Disowned, SumFunction
<1> HIDE DEF own, due, f
<1> QED BY <1>1, <1>2, <1>3, <1>4, SumType

LEMMA PaymentSums ==
  ASSUME NEW p \in Payment
  PROVE  /\ SumFunctionOnSet(p.alloc, Invoices) \in Int /\ SumFunctionOnSet(p.alloc, Bills) \in Int
         /\ Across(p) \in Int /\ Unallocated(p) \in Int
         /\ \A dir : LeftOf(dir, p) \in Int
         /\ \A d \in Docs : p.alloc[d] \in Nat
<1>1. p.alloc \in [Docs -> Nat] /\ p.amount \in Nat /\ p.refunded \in Nat BY DEF Payment
<1>2. /\ SumFunctionOnSet(p.alloc, Docs) \in Nat
      /\ SumFunctionOnSet(p.alloc, Invoices) \in Int /\ SumFunctionOnSet(p.alloc, Bills) \in Int
  BY <1>1, AllocationSums
<1>3. Unallocated(p) \in Int BY <1>1, <1>2 DEF Unallocated, Allocated
<1> QED BY <1>1, <1>2, <1>3 DEF Across, LeftOf

LEMMA PaymentsAre ==
  ASSUME SettlementTypeOK
  PROVE  /\ Len(payments) \in Nat /\ DOMAIN payments = 1..Len(payments)
         /\ IsFiniteSet(DOMAIN payments)
         /\ \A k \in DOMAIN payments : payments[k] \in Payment
<1>1. payments \in Seq(Payment) BY DEF SettlementTypeOK
<1>2. Len(payments) \in Nat /\ DOMAIN payments = 1..Len(payments) BY <1>1
<1>3. IsFiniteSet(1..Len(payments)) BY <1>2, FS_Interval
<1> QED BY <1>1, <1>2, <1>3

LEMMA AdvancesAre ==
  ASSUME SettlementTypeOK, NEW dir
  PROVE  Advances(dir) = Left(dir) /\ Left(dir) \in Int
<1> DEFINE S == DOMAIN payments
           f == [k \in Of(dir) |-> Unallocated(payments[k])]
           g == [k \in S |-> LeftOf(dir, payments[k])]
<1>1. IsFiniteSet(S) /\ Of(dir) \in SUBSET S BY PaymentsAre DEF Of
<1>2. /\ \A k \in Of(dir) : f[k] \in Int
      /\ \A k \in S : g[k] \in Int
      /\ \A k \in S : g[k] = IF k \in Of(dir) THEN f[k] ELSE 0
  BY PaymentsAre, PaymentSums DEF LeftOf, Of
<1>3. Advances(dir) = SumFunctionOnSet(f, Of(dir)) BY DEF Advances, SumFunction
<1>4. Left(dir) = SumFunctionOnSet(g, S) BY DEF Left
<1> HIDE DEF S, f, g
<1> QED BY <1>1, <1>2, <1>3, <1>4, SumOfPart, SumType

LEMMA AllottedAre ==
  ASSUME SettlementTypeOK
  PROVE  /\ Allotted("outflow", Invoices) - Allotted("inflow", Bills) = Crossed
         /\ Crossed \in Int
<1> DEFINE S == DOMAIN payments
           out == Of("outflow")
           in == Of("inflow")
           f == [k \in out |-> SumFunctionOnSet(payments[k].alloc, Invoices)]
           g == [k \in in |-> SumFunctionOnSet(payments[k].alloc, Bills)]
           fs == [k \in S |-> IF k \in out THEN SumFunctionOnSet(payments[k].alloc, Invoices) ELSE 0]
           gs == [k \in S |-> IF k \in in THEN SumFunctionOnSet(payments[k].alloc, Bills) ELSE 0]
           h == [k \in S |-> Across(payments[k])]
<1>1. IsFiniteSet(S) /\ out \in SUBSET S /\ in \in SUBSET S BY PaymentsAre DEF Of
<1>2. \A k \in S : /\ SumFunctionOnSet(payments[k].alloc, Invoices) \in Int
                   /\ SumFunctionOnSet(payments[k].alloc, Bills) \in Int
                   /\ payments[k].dir \in {"inflow", "outflow"}
  BY PaymentsAre, PaymentSums DEF Payment
<1>3. /\ \A k \in out : f[k] \in Int
      /\ \A k \in in : g[k] \in Int
      /\ \A k \in S : fs[k] = IF k \in out THEN f[k] ELSE 0
      /\ \A k \in S : gs[k] = IF k \in in THEN g[k] ELSE 0
  BY <1>1, <1>2
<1>4. \A k \in S : fs[k] \in Int /\ gs[k] \in Int /\ h[k] = fs[k] - gs[k] /\ h[k] \in Int
  BY <1>2 DEF Across, Of
<1>5. /\ Allotted("outflow", Invoices) = SumFunctionOnSet(f, out)
      /\ Allotted("inflow", Bills) = SumFunctionOnSet(g, in)
  BY DEF Allotted, SumFunction
<1>6. Crossed = SumFunctionOnSet(h, S) BY DEF Crossed
<1> HIDE DEF S, out, in, f, g, fs, gs, h
<1>7. SumFunctionOnSet(f, out) = SumFunctionOnSet(fs, S) BY <1>1, <1>3, SumOfPart
<1>8. SumFunctionOnSet(g, in) = SumFunctionOnSet(gs, S) BY <1>1, <1>3, SumOfPart
<1>9. SumFunctionOnSet(h, S) = SumFunctionOnSet(fs, S) - SumFunctionOnSet(gs, S)
  BY <1>1, <1>4, SumMinus
<1>10. SumFunctionOnSet(h, S) \in Int BY <1>1, <1>4, SumType
<1> QED BY <1>5, <1>6, <1>7, <1>8, <1>9, <1>10

\* The properties, from the sums over constant sets.
LEMMA InvMatches == SettlementInv => ControlAccountsFollowDocuments /\ DocumentsAgreeWithPayments
<1> SUFFICES ASSUME SettlementInv PROVE ControlAccountsFollowDocuments /\ DocumentsAgreeWithPayments OBVIOUS
<1>1. SettlementTypeOK /\ BooksFit BY DEF SettlementInv
<1>2. \A d \in Docs : Fits(d) /\ doc[d].paid = PaidTo(d) BY DEF SettlementInv
<1>3. ControlAccountsFollowDocuments
  <2>1. Invoices \in SUBSET Docs /\ Bills \in SUBSET Docs BY DocsFinite
  <2>2. /\ Due(Invoices) - Disowned(Invoices) = Claims(Invoices)
        /\ Due(Bills) - Disowned(Bills) = Claims(Bills)
    BY <1>1, <2>1, ClaimsAre
  <2>3. Allotted("outflow", Invoices) - Allotted("inflow", Bills) = Crossed
    BY <1>1, AllottedAre
  <2>4. Advances("inflow") = Left("inflow") /\ Advances("outflow") = Left("outflow")
    BY <1>1, AdvancesAre
  <2>5. /\ Due(Invoices) \in Int /\ Disowned(Invoices) \in Int
        /\ Due(Bills) \in Int /\ Disowned(Bills) \in Int /\ Crossed \in Int
    BY <1>1, <2>1, AllottedAre, TermTypes
  <2> QED BY <1>1, <2>2, <2>3, <2>4, <2>5 DEF ControlAccountsFollowDocuments, BooksFit
<1>4. DocumentsAgreeWithPayments
  <2>1. \A k \in DOMAIN payments : Unallocated(payments[k]) >= 0 BY DEF SettlementInv
  <2>2. ASSUME NEW d \in Docs
        PROVE  /\ doc[d].paid = SumFunction([k \in DOMAIN payments |-> payments[k].alloc[d]])
               /\ doc[d].paid <= doc[d].total
               /\ doc[d].status = "cancelled" => doc[d].paid = 0
               /\ d \in Invoices /\ doc[d].status # "cancelled" =>
                    /\ doc[d].due = doc[d].total - doc[d].paid
                    /\ doc[d].status \notin {"absent", "draft"} =>
                         /\ (doc[d].status = "paid") = (doc[d].due = 0)
                         /\ doc[d].paid > 0 => doc[d].status \in {"partially_paid", "paid"}
    <3>1. doc[d].paid = SumFunction([k \in DOMAIN payments |-> payments[k].alloc[d]])
      BY <1>2 DEF PaidTo, SumFunction
    <3> QED BY <1>2, <3>1 DEF Fits, FitsAs
  <2> QED BY <2>1, <2>2 DEF DocumentsAgreeWithPayments
<1> QED BY <1>3, <1>4

\* The health score adds up the same summands, and the forecast those of a part of the
\* invoices.
LEMMA InvoicesAhead ==
  ASSUME SettlementTypeOK, \A d \in Docs : Fits(d), NEW soon
  PROVE  /\ openArPaise = AgedReceivables
         /\ inflowDuePaise(soon) = AgedReceivables - LaterReceivable(soon)
<1> DEFINE open == OpenInvoices
           aged == {i \in OpenInvoices : doc[i].due > 0}
           near == OpenInvoices \cap soon
           later == OpenInvoices \ soon
           due == [i \in open |-> doc[i].due]
<1>1. IsFiniteSet(open) /\ aged \in SUBSET open /\ near \in SUBSET open /\ later \in SUBSET open
      /\ near = open \cap soon /\ later = open \ soon
  BY DocsFinite, FS_Subset DEF OpenInvoices
<1>2. \A i \in open : due[i] \in Int /\ (i \notin aged => due[i] = 0)
  <2> SUFFICES ASSUME NEW i \in open PROVE due[i] \in Int /\ (i \notin aged => due[i] = 0) OBVIOUS
  <2>1. doc[i].due \in Nat BY DocsFinite, DocTypes DEF OpenInvoices
  <2> QED BY <2>1
<1>3. openArPaise = SumFunctionOnSet(due, open) BY DEF openArPaise, SumFunction
<1>4. AgedReceivables = SumFunctionOnSet(due, aged)
  <2> DEFINE f == [i \in aged |-> doc[i].due]
  <2>1. AgedReceivables = SumFunctionOnSet(f, aged) BY DEF AgedReceivables, SumFunction
  <2>2. IsFiniteSet(aged) /\ \A i \in aged : f[i] = due[i] BY <1>1, FS_Subset
  <2> HIDE DEF f, aged, due
  <2> QED BY <2>1, <2>2, SumSame
<1>5. inflowDuePaise(soon) = SumFunctionOnSet(due, near)
  <2> DEFINE f == [i \in near |-> doc[i].due]
  <2>1. inflowDuePaise(soon) = SumFunctionOnSet(f, near) BY DEF inflowDuePaise, SumFunction
  <2>2. IsFiniteSet(near) /\ \A i \in near : f[i] = due[i] BY <1>1, FS_Subset
  <2> HIDE DEF f, near, due
  <2> QED BY <2>1, <2>2, SumSame
<1>6. LaterReceivable(soon) = SumFunctionOnSet(due, later)
  <2> DEFINE f == [i \in later |-> doc[i].due]
  <2>1. LaterReceivable(soon) = SumFunctionOnSet(f, later) BY DEF LaterReceivable, SumFunction
  <2>2. IsFiniteSet(later) /\ \A i \in later : f[i] = due[i] BY <1>1, FS_Subset
  <2> HIDE DEF f, later, due
  <2> QED BY <2>1, <2>2, SumSame
<1> HIDE DEF open, aged, near, later, due
<1>7. SumFunctionOnSet(due, aged) = SumFunctionOnSet(due, open)
  BY <1>1, <1>2, SumOfPart
<1>8. SumFunctionOnSet(due, open) = SumFunctionOnSet(due, near) + SumFunctionOnSet(due, later)
  BY <1>1, <1>2, SumSplit
<1>9. SumFunctionOnSet(due, near) \in Int /\ SumFunctionOnSet(due, later) \in Int
  BY <1>1, <1>2, FS_Subset, SumType
<1> QED BY <1>3, <1>4, <1>5, <1>6, <1>7, <1>8, <1>9

\* The same of the bills.
LEMMA BillsAhead ==
  ASSUME SettlementTypeOK, \A d \in Docs : Fits(d), NEW soon
  PROVE  /\ apDuePaise = AgedPayables
         /\ outflowDuePaise(soon) = AgedPayables - LaterPayable(soon)
<1> DEFINE open == OpenBills
           aged == {b \in OpenBills : doc[b].total - doc[b].paid > 0}
           near == {b \in OpenBills \cap soon : doc[b].total - doc[b].paid > 0}
           within == OpenBills \cap soon
           later == OpenBills \ soon
           due == [b \in open |-> doc[b].total - doc[b].paid]
<1>1. IsFiniteSet(open) /\ aged \in SUBSET open /\ near \in SUBSET within
      /\ within \in SUBSET open /\ later \in SUBSET open
      /\ within = open \cap soon /\ later = open \ soon
  BY DocsFinite, FS_Subset DEF OpenBills
<1>2. \A b \in open : /\ due[b] \in Int /\ (b \notin aged => due[b] = 0)
                      /\ b \in within /\ b \notin near => due[b] = 0
  <2> SUFFICES ASSUME NEW b \in open
               PROVE  /\ due[b] \in Int /\ (b \notin aged => due[b] = 0)
                      /\ b \in within /\ b \notin near => due[b] = 0
    OBVIOUS
  <2>1. b \in Bills /\ b \in Docs /\ Fits(b) /\ doc[b].total \in Nat /\ doc[b].paid \in Nat
    BY DocsFinite, DocTypes DEF OpenBills
  <2>2. doc[b].total - doc[b].paid >= 0 BY <2>1 DEF Fits, FitsAs, OpenBills
  <2> QED BY <2>1, <2>2
<1>3. apDuePaise = SumFunctionOnSet(due, open) BY DEF apDuePaise, SumFunction
<1>4. AgedPayables = SumFunctionOnSet(due, aged)
  <2> DEFINE f == [b \in aged |-> doc[b].total - doc[b].paid]
  <2>1. AgedPayables = SumFunctionOnSet(f, aged) BY DEF AgedPayables, SumFunction
  <2>2. IsFiniteSet(aged) /\ \A b \in aged : f[b] = due[b] BY <1>1, FS_Subset
  <2> HIDE DEF f, aged, due
  <2> QED BY <2>1, <2>2, SumSame
<1>5. outflowDuePaise(soon) = SumFunctionOnSet(due, near)
  <2> DEFINE f == [b \in near |-> doc[b].total - doc[b].paid]
  <2>1. outflowDuePaise(soon) = SumFunctionOnSet(f, near) BY DEF outflowDuePaise, SumFunction
  <2>2. IsFiniteSet(near) /\ \A b \in near : f[b] = due[b] BY <1>1, FS_Subset
  <2> HIDE DEF f, near, due
  <2> QED BY <2>1, <2>2, SumSame
<1>6. LaterPayable(soon) = SumFunctionOnSet(due, later)
  <2> DEFINE f == [b \in later |-> doc[b].total - doc[b].paid]
  <2>1. LaterPayable(soon) = SumFunctionOnSet(f, later) BY DEF LaterPayable, SumFunction
  <2>2. IsFiniteSet(later) /\ \A b \in later : f[b] = due[b] BY <1>1, FS_Subset
  <2> HIDE DEF f, later, due
  <2> QED BY <2>1, <2>2, SumSame
<1> HIDE DEF open, aged, near, within, later, due
<1>7. SumFunctionOnSet(due, aged) = SumFunctionOnSet(due, open) BY <1>1, <1>2, SumOfPart
<1>8. SumFunctionOnSet(due, near) = SumFunctionOnSet(due, within)
  <2>1. IsFiniteSet(within) BY <1>1, FS_Subset
  <2> QED BY <1>1, <1>2, <2>1, SumOfPart
<1>9. SumFunctionOnSet(due, open) = SumFunctionOnSet(due, within) + SumFunctionOnSet(due, later)
  BY <1>1, <1>2, SumSplit
<1>10. SumFunctionOnSet(due, within) \in Int /\ SumFunctionOnSet(due, later) \in Int
  BY <1>1, <1>2, FS_Subset, SumType
<1> QED BY <1>3, <1>4, <1>5, <1>6, <1>7, <1>8, <1>9, <1>10

LEMMA InvScreens == SettlementInv => ScreensAgree
<1> SUFFICES ASSUME SettlementInv PROVE ScreensAgree OBVIOUS
<1>1. SettlementTypeOK /\ \A d \in Docs : Fits(d) BY DEF SettlementInv
<1>2. \A soon \in SUBSET Docs :
        /\ inflowDuePaise(soon) = AgedReceivables - LaterReceivable(soon)
        /\ outflowDuePaise(soon) = AgedPayables - LaterPayable(soon)
  BY <1>1, InvoicesAhead, BillsAhead
<1> QED BY <1>1, <1>2, InvoicesAhead, BillsAhead, InvoiceScreens, BillScreens DEF ScreensAgree

-----------------------------------------------------------------------------
(* What a step does to the sums *)

\* A payment more.
LEMMA Added ==
  ASSUME SettlementTypeOK, NEW p \in Payment, payments' = Append(payments, p)
  PROVE  /\ payments' \in Seq(Payment)
         /\ \A j \in DOMAIN payments' :
              payments'[j] = p \/ (j \in DOMAIN payments /\ payments'[j] = payments[j])
         /\ Crossed' = Crossed + Across(p)
         /\ \A dir : Left(dir)' = Left(dir) + LeftOf(dir, p)
         /\ \A d \in Docs : PaidTo(d)' = PaidTo(d) + p.alloc[d]
<1>1. PICK n \in Nat : /\ n = Len(payments) /\ DOMAIN payments = 1..n
                       /\ \A j \in 1..n : payments[j] \in Payment
  BY PaymentsAre
<1>2. /\ payments' \in Seq(Payment) /\ DOMAIN payments' = 1..n + 1 /\ payments'[n + 1] = p
      /\ \A j \in 1..n : payments'[j] = payments[j]
  <2>1. payments \in Seq(Payment) BY DEF SettlementTypeOK
  <2> QED BY <1>1, <2>1
<1>3. Crossed' = Crossed + Across(p)
  <2> DEFINE f == [j \in 1..n |-> Across(payments[j])]
             g == [j \in 1..n + 1 |-> Across(payments'[j])]
  <2>6. \A x \in Payment : Across(x) \in Int BY PaymentSums
  <2>1. \A j \in 1..n : f[j] \in Int /\ g[j] = f[j] BY <1>1, <1>2, <2>6
  <2>2. g[n + 1] = Across(p) /\ Across(p) \in Int BY <1>1, <1>2, <2>6
  <2>3. Crossed' = SumFunctionOnSet(g, 1..n + 1) BY <1>2 DEF Crossed, Across
  <2>4. Crossed = SumFunctionOnSet(f, 1..n) BY <1>1 DEF Crossed, Across
  <2> HIDE DEF f, g
  <2>5. SumFunctionOnSet(g, 1..n + 1) = SumFunctionOnSet(f, 1..n) + g[n + 1]
    BY <1>1, <2>1, <2>2, SumAppended
  <2> QED BY <2>2, <2>3, <2>4, <2>5
<1>4. ASSUME NEW dir PROVE Left(dir)' = Left(dir) + LeftOf(dir, p)
  <2> DEFINE f == [j \in 1..n |-> LeftOf(dir, payments[j])]
             g == [j \in 1..n + 1 |-> LeftOf(dir, payments'[j])]
  <2>6. \A x \in Payment : LeftOf(dir, x) \in Int BY PaymentSums
  <2>1. \A j \in 1..n : f[j] \in Int /\ g[j] = f[j] BY <1>1, <1>2, <2>6
  <2>2. g[n + 1] = LeftOf(dir, p) /\ LeftOf(dir, p) \in Int BY <1>1, <1>2, <2>6
  <2>3. Left(dir)' = SumFunctionOnSet(g, 1..n + 1) BY <1>2 DEF Left, LeftOf, Unallocated, Allocated
  <2>4. Left(dir) = SumFunctionOnSet(f, 1..n) BY <1>1 DEF Left, LeftOf, Unallocated, Allocated
  <2> HIDE DEF f, g
  <2>5. SumFunctionOnSet(g, 1..n + 1) = SumFunctionOnSet(f, 1..n) + g[n + 1]
    BY <1>1, <2>1, <2>2, SumAppended
  <2> QED BY <2>2, <2>3, <2>4, <2>5
<1>5. ASSUME NEW d \in Docs PROVE PaidTo(d)' = PaidTo(d) + p.alloc[d]
  <2> DEFINE f == [j \in 1..n |-> payments[j].alloc[d]]
             g == [j \in 1..n + 1 |-> payments'[j].alloc[d]]
  <2>6. \A x \in Payment : x.alloc[d] \in Int BY PaymentSums
  <2>1. \A j \in 1..n : f[j] \in Int /\ g[j] = f[j] BY <1>1, <1>2, <2>6
  <2>2. g[n + 1] = p.alloc[d] /\ p.alloc[d] \in Int BY <1>1, <1>2, <2>6
  <2>3. PaidTo(d)' = SumFunctionOnSet(g, 1..n + 1) BY <1>2 DEF PaidTo
  <2>4. PaidTo(d) = SumFunctionOnSet(f, 1..n) BY <1>1 DEF PaidTo
  <2> HIDE DEF f, g
  <2>5. SumFunctionOnSet(g, 1..n + 1) = SumFunctionOnSet(f, 1..n) + g[n + 1]
    BY <1>1, <2>1, <2>2, SumAppended
  <2> QED BY <2>2, <2>3, <2>4, <2>5
<1>6. \A j \in 1..n + 1 : j = n + 1 \/ j \in 1..n BY <1>1
<1> QED BY <1>1, <1>2, <1>3, <1>4, <1>5, <1>6

\* A payment changed.
LEMMA Changed ==
  ASSUME SettlementTypeOK, NEW k \in DOMAIN payments, NEW q \in Payment,
         payments' = [payments EXCEPT ![k] = q]
  PROVE  /\ payments' \in Seq(Payment)
         /\ DOMAIN payments' = DOMAIN payments /\ payments'[k] = q
         /\ \A j \in DOMAIN payments : j # k => payments'[j] = payments[j]
         /\ Crossed' = Crossed - Across(payments[k]) + Across(q)
         /\ \A dir : Left(dir)' = Left(dir) - LeftOf(dir, payments[k]) + LeftOf(dir, q)
         /\ \A d \in Docs : PaidTo(d)' = PaidTo(d) - payments[k].alloc[d] + q.alloc[d]
<1> DEFINE S == DOMAIN payments
<1>1. IsFiniteSet(S) /\ k \in S /\ \A j \in S : payments[j] \in Payment BY PaymentsAre
<1>2. /\ payments' \in Seq(Payment) /\ DOMAIN payments' = S /\ payments'[k] = q
      /\ \A j \in S : (j # k => payments'[j] = payments[j]) /\ payments'[j] \in Payment
  <2>1. payments \in Seq(Payment) BY DEF SettlementTypeOK
  <2> QED BY <1>1, <2>1
<1>3. Crossed' = Crossed - Across(payments[k]) + Across(q)
  <2> DEFINE f == [j \in S |-> Across(payments[j])]
             g == [j \in S |-> Across(payments'[j])]
  <2>6. \A x \in Payment : Across(x) \in Int BY PaymentSums
  <2>1. \A j \in S : f[j] \in Int /\ g[j] \in Int BY <1>1, <1>2, <2>6
  <2>8. \A j \in S : j # k => g[j] = f[j] BY <1>2
  <2>2. f[k] = Across(payments[k]) /\ g[k] = Across(q) BY <1>1, <1>2
  <2>3. Crossed' = SumFunctionOnSet(g, S) BY <1>2 DEF Crossed, Across
  <2>4. Crossed = SumFunctionOnSet(f, S) BY DEF Crossed, Across
  <2> HIDE DEF f, g, S
  <2>7. IsFiniteSet(S) /\ k \in S BY <1>1
  <2>5. SumFunctionOnSet(g, S) = SumFunctionOnSet(f, S) - f[k] + g[k]
    BY ONLY <2>1, <2>7, <2>8, SumChange
  <2> QED BY <2>2, <2>3, <2>4, <2>5
<1>4. ASSUME NEW dir PROVE Left(dir)' = Left(dir) - LeftOf(dir, payments[k]) + LeftOf(dir, q)
  <2> DEFINE f == [j \in S |-> LeftOf(dir, payments[j])]
             g == [j \in S |-> LeftOf(dir, payments'[j])]
  <2>6. \A x \in Payment : LeftOf(dir, x) \in Int BY PaymentSums
  <2>1. \A j \in S : f[j] \in Int /\ g[j] \in Int BY <1>1, <1>2, <2>6
  <2>8. \A j \in S : j # k => g[j] = f[j] BY <1>2
  <2>2. f[k] = LeftOf(dir, payments[k]) /\ g[k] = LeftOf(dir, q) BY <1>1, <1>2
  <2>3. Left(dir)' = SumFunctionOnSet(g, S) BY <1>2 DEF Left, LeftOf, Unallocated, Allocated
  <2>4. Left(dir) = SumFunctionOnSet(f, S) BY DEF Left, LeftOf, Unallocated, Allocated
  <2> HIDE DEF f, g, S
  <2>7. IsFiniteSet(S) /\ k \in S BY <1>1
  <2>5. SumFunctionOnSet(g, S) = SumFunctionOnSet(f, S) - f[k] + g[k]
    BY ONLY <2>1, <2>7, <2>8, SumChange
  <2> QED BY <2>2, <2>3, <2>4, <2>5
<1>5. ASSUME NEW d \in Docs PROVE PaidTo(d)' = PaidTo(d) - payments[k].alloc[d] + q.alloc[d]
  <2> DEFINE f == [j \in S |-> payments[j].alloc[d]]
             g == [j \in S |-> payments'[j].alloc[d]]
  <2>6. \A x \in Payment : x.alloc[d] \in Int BY PaymentSums
  <2>1. \A j \in S : f[j] \in Int /\ g[j] \in Int BY <1>1, <1>2, <2>6
  <2>8. \A j \in S : j # k => g[j] = f[j] BY <1>2
  <2>2. f[k] = payments[k].alloc[d] /\ g[k] = q.alloc[d] BY <1>1, <1>2
  <2>3. PaidTo(d)' = SumFunctionOnSet(g, S) BY <1>2 DEF PaidTo
  <2>4. PaidTo(d) = SumFunctionOnSet(f, S) BY DEF PaidTo
  <2> HIDE DEF f, g, S
  <2>7. IsFiniteSet(S) /\ k \in S BY <1>1
  <2>5. SumFunctionOnSet(g, S) = SumFunctionOnSet(f, S) - f[k] + g[k]
    <3>1. PICK old, new : /\ old = f /\ new = g
                          /\ \A j \in S : old[j] \in Int /\ new[j] \in Int
                          /\ \A j \in S : j # k => new[j] = old[j]
      BY <2>1, <2>8
    <3>2. /\ \A j \in S : old[j] \in Int /\ new[j] \in Int
          /\ \A j \in S : j # k => new[j] = old[j]
      BY ONLY <3>1
    <3>3. SumFunctionOnSet(new, S) = SumFunctionOnSet(old, S) - old[k] + new[k]
      BY ONLY <2>7, <3>2, SumChange
    <3> QED BY <3>1, <3>3
  <2> QED BY <2>2, <2>3, <2>4, <2>5
<1> QED BY <1>2, <1>3, <1>4, <1>5

LEMMA SamePayments ==
  ASSUME payments' = payments
  PROVE  /\ Crossed' = Crossed /\ Left("inflow")' = Left("inflow")
         /\ Left("outflow")' = Left("outflow")
         /\ \A d \in Docs : PaidTo(d)' = PaidTo(d)
         /\ (\A k \in DOMAIN payments : Unallocated(payments[k]) >= 0)'
              <=> (\A k \in DOMAIN payments : Unallocated(payments[k]) >= 0)
BY DEF Crossed, Across, Left, LeftOf, Unallocated, Allocated, PaidTo

LEMMA SameDocs ==
  ASSUME doc' = doc
  PROVE  /\ Claims(Invoices)' = Claims(Invoices) /\ Claims(Bills)' = Claims(Bills)
         /\ \A d \in Docs : Fits(d) => Fits(d)'
<1>1. \A d \in Docs : (Fits(d) => Fits(d)') /\ Claim(d)' = Claim(d) BY DEF Fits, Claim, ClaimAs, FitsAs
<1>2. Claims(Invoices)' = Claims(Invoices) BY DEF Claims, Claim, ClaimAs
<1>3. Claims(Bills)' = Claims(Bills) BY DEF Claims, Claim, ClaimAs
<1> QED BY <1>1, <1>2, <1>3

LEMMA ClaimType ==
  ASSUME NEW d \in Docs, NEW r \in Document
  PROVE  ClaimAs(d, r) \in Int
<1>1. r.total \in Nat /\ r.paid \in Nat /\ r.due \in Nat BY DEF Document
<1> QED BY <1>1 DEF ClaimAs

\* Documents that claim less.
LEMMA LessClaimed ==
  ASSUME SettlementTypeOK, doc' \in [Docs -> Document], NEW D \in SUBSET Docs,
         NEW part, \A d \in D : part[d] \in Int,
         \A d \in D : ClaimAs(d, doc'[d]) = ClaimAs(d, doc[d]) - part[d]
  PROVE  Claims(D)' = Claims(D) - SumFunctionOnSet(part, D)
<1> DEFINE f == [d \in D |-> ClaimAs(d, doc[d])]
           g == [d \in D |-> ClaimAs(d, doc'[d])]
<1>1. IsFiniteSet(D) BY DocsFinite, FS_Subset
<1>2. \A d \in D : doc[d] \in Document BY DEF SettlementTypeOK
<1>3. \A d \in D : f[d] \in Int /\ part[d] \in Int /\ g[d] = f[d] - part[d]
  BY <1>2, ClaimType
<1>4. Claims(D) = SumFunctionOnSet(f, D) BY DEF Claims, Claim
<1>5. Claims(D)' = SumFunctionOnSet(g, D) BY DEF Claims, Claim
<1> HIDE DEF f, g
<1> QED BY <1>1, <1>3, <1>4, <1>5, SumMinus

\* One document changes.
LEMMA OneDoc ==
  ASSUME SettlementTypeOK, NEW d \in Docs, NEW r \in Document, doc' = [doc EXCEPT ![d] = r]
  PROVE  /\ doc' \in [Docs -> Document] /\ doc'[d] = r
         /\ \A e \in Docs : e # d => doc'[e] = doc[e]
         /\ ClaimAs(d, r) \in Int /\ ClaimAs(d, doc[d]) \in Int
         /\ d \in Invoices => /\ Claims(Invoices)' = Claims(Invoices) - ClaimAs(d, doc[d]) + ClaimAs(d, r)
                              /\ Claims(Bills)' = Claims(Bills)
         /\ d \in Bills => /\ Claims(Bills)' = Claims(Bills) - ClaimAs(d, doc[d]) + ClaimAs(d, r)
                           /\ Claims(Invoices)' = Claims(Invoices)
<1>1. /\ doc' \in [Docs -> Document] /\ doc'[d] = r
      /\ \A e \in Docs : e # d => doc'[e] = doc[e]
  BY DEF SettlementTypeOK
<1>2. \A e \in Docs : ClaimAs(e, doc[e]) \in Int /\ ClaimAs(e, doc'[e]) \in Int
  BY <1>1, ClaimType DEF SettlementTypeOK
<1>3. ASSUME NEW D \in SUBSET Docs, d \in D
      PROVE  Claims(D)' = Claims(D) - ClaimAs(d, doc[d]) + ClaimAs(d, r)
  <2> DEFINE f == [e \in D |-> ClaimAs(e, doc[e])]
             g == [e \in D |-> ClaimAs(e, doc'[e])]
  <2>1. IsFiniteSet(D) BY DocsFinite, FS_Subset
  <2>2. /\ \A e \in D : f[e] \in Int /\ g[e] \in Int
        /\ \A e \in D : e # d => g[e] = f[e]
    BY <1>1, <1>2
  <2>3. Claims(D) = SumFunctionOnSet(f, D) BY DEF Claims, Claim
  <2>4. Claims(D)' = SumFunctionOnSet(g, D) BY DEF Claims, Claim
  <2>5. f[d] = ClaimAs(d, doc[d]) /\ g[d] = ClaimAs(d, r) BY <1>1, <1>3
  <2>6. d \in D BY <1>3
  <2> HIDE DEF f, g
  <2>7. SumFunctionOnSet(g, D) = SumFunctionOnSet(f, D) - f[d] + g[d]
    <3>1. PICK old, new : /\ old = f /\ new = g
                          /\ \A e \in D : old[e] \in Int /\ new[e] \in Int
                          /\ \A e \in D : e # d => new[e] = old[e]
      BY <2>2
    <3>2. /\ \A e \in D : old[e] \in Int /\ new[e] \in Int
          /\ \A e \in D : e # d => new[e] = old[e]
      BY ONLY <3>1
    <3>3. SumFunctionOnSet(new, D) = SumFunctionOnSet(old, D) - old[d] + new[d]
      BY ONLY <2>1, <2>6, <3>2, SumChange
    <3> QED BY <3>1, <3>3
  <2> QED BY <2>3, <2>4, <2>5, <2>7
<1>4. ASSUME NEW D \in SUBSET Docs, d \notin D PROVE Claims(D)' = Claims(D)
  <2>1. \A e \in D : ClaimAs(e, doc'[e]) = ClaimAs(e, doc[e]) BY <1>1, <1>4
  <2>2. [e \in D |-> ClaimAs(e, doc'[e])] = [e \in D |-> ClaimAs(e, doc[e])] BY <2>1
  <2>3. Claims(D) = SumFunctionOnSet([e \in D |-> ClaimAs(e, doc[e])], D) BY DEF Claims, Claim
  <2>4. Claims(D)' = SumFunctionOnSet([e \in D |-> ClaimAs(e, doc'[e])], D) BY DEF Claims, Claim
  <2> QED BY <2>2, <2>3, <2>4
<1>5. Invoices \in SUBSET Docs /\ Bills \in SUBSET Docs BY DocsFinite
<1>6. ClaimAs(d, r) \in Int /\ ClaimAs(d, doc[d]) \in Int BY <1>1, <1>2
<1>7. CASE d \in Invoices
  <2>1. d \notin Bills BY <1>7, DocsFinite
  <2> QED BY <1>1, <1>3, <1>4, <1>5, <1>6, <1>7, <2>1
<1>8. CASE d \in Bills
  <2>1. d \notin Invoices BY <1>8, DocsFinite
  <2> QED BY <1>1, <1>3, <1>4, <1>5, <1>6, <1>8, <2>1
<1> QED BY <1>7, <1>8, DocsFinite

LEMMA Posted ==
  ASSUME SettlementTypeOK, NEW l, \A a \in DOMAIN l : l[a] \in Int, Post(l)
  PROVE  /\ books' \in [Control -> Int]
         /\ \A a \in Control :
              books'[a] = books[a] + (IF a \in DOMAIN l THEN l[a] ELSE 0) /\ books[a] \in Int
BY DEF SettlementTypeOK, Post, Lines

\* The entry of a document, or its reversal.
LEMMA DocPosted ==
  ASSUME SettlementTypeOK, NEW n \in Int, NEW m, m = 0 - n, NEW d \in Docs,
         IF d \in Invoices THEN Post([receivable |-> n]) ELSE Post([payable |-> m])
  PROVE  /\ books' \in [Control -> Int]
         /\ d \in Invoices => books'["receivable"] = books["receivable"] + n
                              /\ books'["payable"] = books["payable"]
         /\ d \notin Invoices => books'["receivable"] = books["receivable"]
                                 /\ books'["payable"] = books["payable"] - n
         /\ books'["custAdvance"] = books["custAdvance"] /\ books'["gst"] = books["gst"]
         /\ books'["suppAdvance"] = books["suppAdvance"]
         /\ \A a \in Control : books[a] \in Int
<1>1. CASE d \in Invoices
  <2> DEFINE l == [receivable |-> n]
  <2>1. Post(l) /\ DOMAIN l = {"receivable"} /\ l["receivable"] = n BY <1>1
  <2> HIDE DEF l
  <2>2. \A a \in DOMAIN l : l[a] \in Int BY <2>1
  <2>3. /\ books' \in [Control -> Int]
        /\ \A a \in Control :
             books'[a] = books[a] + (IF a \in DOMAIN l THEN l[a] ELSE 0) /\ books[a] \in Int
    BY <2>1, <2>2, Posted
  <2> QED BY <1>1, <2>1, <2>3 DEF Control
<1>2. CASE d \notin Invoices
  <2> DEFINE l == [payable |-> m]
  <2>1. Post(l) /\ DOMAIN l = {"payable"} /\ l["payable"] = m BY <1>2
  <2> HIDE DEF l
  <2>2. \A a \in DOMAIN l : l[a] \in Int BY <2>1
  <2>3. /\ books' \in [Control -> Int]
        /\ \A a \in Control :
             books'[a] = books[a] + (IF a \in DOMAIN l THEN l[a] ELSE 0) /\ books[a] \in Int
    BY <2>1, <2>2, Posted
  <2> QED BY <1>2, <2>1, <2>3 DEF Control
<1> QED BY <1>1, <1>2

\* What settling does to the documents.
LEMMA Settles ==
  ASSUME SettlementTypeOK, \A d \in Docs : Fits(d), NEW alloc \in [Docs -> Nat], Settle(alloc)
  PROVE  /\ doc' \in [Docs -> Document]
         /\ \A d \in Docs : Fits(d)' /\ doc'[d].paid = doc[d].paid + alloc[d]
         /\ Claims(Invoices)' = Claims(Invoices) - SumFunctionOnSet(alloc, Invoices)
         /\ Claims(Bills)' = Claims(Bills) - SumFunctionOnSet(alloc, Bills)
<1>1. ASSUME NEW d \in Docs
      PROVE  /\ doc'[d] \in Document /\ FitsAs(d, doc'[d])
             /\ doc'[d].paid = doc[d].paid + alloc[d]
             /\ ClaimAs(d, doc'[d]) = ClaimAs(d, doc[d]) - alloc[d]
  <2>1. /\ alloc[d] \in Nat /\ FitsAs(d, doc[d])
        /\ doc'[d] = IF alloc[d] > 0 THEN Settled(d, alloc[d]) ELSE doc[d]
    BY DEF Settle, Fits
  <2>2. /\ doc[d].total \in Nat /\ doc[d].paid \in Nat /\ doc[d].due \in Nat
        /\ doc[d].status \in Statuses /\ doc[d].entry \in {"none", "posted", "reversed"}
        /\ doc[d] \in Document
        /\ doc[d] = [status |-> doc[d].status, total |-> doc[d].total, paid |-> doc[d].paid,
                     due |-> doc[d].due, entry |-> doc[d].entry]
    BY DocTypes DEF Document
  <2>3. CASE alloc[d] = 0
    <3>1. doc'[d] = doc[d] BY <2>1, <2>3
    <3>2. ClaimAs(d, doc[d]) \in Int BY <2>2, ClaimType
    <3> QED BY <2>1, <2>2, <2>3, <3>1, <3>2
  <2>4. CASE alloc[d] > 0 /\ d \in Invoices
    <3> DEFINE st == IF doc[d].due = alloc[d] THEN "paid" ELSE "partially_paid"
    <3>1. d \in Paying(alloc) BY <2>4 DEF Paying
    <3>2. /\ doc[d].status \in {"issued", "partially_paid", "overdue"}
          /\ alloc[d] <= doc[d].due
      BY <2>4, <3>1 DEF Settle, MaySettle
    <3>3. PICK a, b : a = doc[d].paid + alloc[d] /\ b = doc[d].due - alloc[d] OBVIOUS
    <3>4. doc'[d] = [status |-> st, total |-> doc[d].total, paid |-> a, due |-> b,
                     entry |-> doc[d].entry]
      <4>1. PICK r0 : r0 = doc[d] OBVIOUS
      <4>2. doc'[d] = [r0 EXCEPT !.paid = a, !.due = b, !.status = st]
        BY <2>1, <2>4, <3>3, <4>1 DEF Settled
      <4> HIDE DEF st
      <4>3. PICK r1 : r1 = [r0 EXCEPT !.paid = a] OBVIOUS
      <4>4. PICK r2 : r2 = [r1 EXCEPT !.due = b] OBVIOUS
      <4>5. PICK r3 : r3 = [r2 EXCEPT !.status = st] OBVIOUS
      <4>6. doc'[d] = r3 BY ONLY <4>2, <4>3, <4>4, <4>5
      <4>7. r1 = [status |-> doc[d].status, total |-> doc[d].total, paid |-> a,
                  due |-> doc[d].due, entry |-> doc[d].entry]
        BY <2>2, <4>1, <4>3
      <4>8. r2 = [status |-> doc[d].status, total |-> doc[d].total, paid |-> a,
                  due |-> b, entry |-> doc[d].entry]
        BY ONLY <4>4, <4>7
      <4>9. r3 = [status |-> st, total |-> doc[d].total, paid |-> a,
                  due |-> b, entry |-> doc[d].entry]
        BY ONLY <4>5, <4>8
      <4> QED BY <4>6, <4>9
    <3>5. PICK r : r = doc'[d] OBVIOUS
    <3>6. /\ r.status = st /\ r.total = doc[d].total /\ r.paid = doc[d].paid + alloc[d]
          /\ r.due = doc[d].due - alloc[d] /\ r.entry = doc[d].entry
      BY <3>3, <3>4, <3>5
    <3>7. st \in {"paid", "partially_paid"} OBVIOUS
    <3>8. r \in Document BY <2>1, <2>2, <3>2, <3>3, <3>4, <3>5, <3>7 DEF Document, Statuses
    <3>11. /\ r.status = "paid" \/ r.status = "partially_paid"
           /\ r.status = "paid" <=> r.due = 0
           /\ r.due = r.total - r.paid /\ r.paid <= r.total
           /\ r.total > 0 /\ r.entry # "none"
      <4>1. doc[d].due = doc[d].total - doc[d].paid /\ doc[d].total > 0 /\ doc[d].entry # "none"
        BY <2>1, <2>4, <3>2 DEF FitsAs
      <4>2. /\ r.due = r.total - r.paid /\ r.paid <= r.total
            /\ r.total > 0 /\ r.entry # "none"
        BY <2>1, <2>2, <3>2, <3>6, <4>1
      <4>3. doc[d].due = alloc[d] <=> r.due = 0 BY <2>1, <2>2, <3>6
      <4> HIDE DEF st
      <4>4. r.status = "paid" \/ r.status = "partially_paid" BY <3>6, <3>7
      <4>5. r.status = "paid" <=> doc[d].due = alloc[d] BY <3>6 DEF st
      <4> QED BY <4>2, <4>3, <4>4, <4>5
    <3>9. FitsAs(d, r) BY <2>4, <3>11, DocsFinite DEF FitsAs
    <3>10. ClaimAs(d, r) = ClaimAs(d, doc[d]) - alloc[d]
      <4>1. d \notin Bills BY <2>4, DocsFinite
      <4>2. ClaimAs(d, r) = r.due - (IF r.entry = "reversed" THEN r.total ELSE 0)
        BY <2>4, <3>11, <4>1 DEF ClaimAs
      <4>3. ClaimAs(d, doc[d]) = doc[d].due - (IF doc[d].entry = "reversed" THEN doc[d].total ELSE 0)
        BY <2>4, <3>2, <4>1 DEF ClaimAs
      <4> QED BY <2>1, <2>2, <3>6, <4>2, <4>3
    <3> QED BY <3>5, <3>6, <3>8, <3>9, <3>10
  <2>5. CASE alloc[d] > 0 /\ d \notin Invoices
    <3>1. d \in Paying(alloc) BY <2>5 DEF Paying
    <3>2. doc[d].status = "approved" /\ doc[d].paid + alloc[d] <= doc[d].total
      BY <2>5, <3>1 DEF Settle, MaySettle
    <3>3. [doc[d] EXCEPT !.paid = @ + alloc[d]]
            = [status |-> doc[d].status, total |-> doc[d].total, paid |-> doc[d].paid + alloc[d],
               due |-> doc[d].due, entry |-> doc[d].entry]
      BY <2>2
    <3>4. doc'[d] = [status |-> doc[d].status, total |-> doc[d].total,
                     paid |-> doc[d].paid + alloc[d], due |-> doc[d].due, entry |-> doc[d].entry]
      BY <2>1, <2>5, <3>3 DEF Settled
    <3>5. PICK r : r = doc'[d] OBVIOUS
    <3>6. /\ r.status = "approved" /\ r.total = doc[d].total /\ r.paid = doc[d].paid + alloc[d]
          /\ r.due = doc[d].due /\ r.entry = doc[d].entry
      BY <3>2, <3>4, <3>5
    <3>8. r \in Document BY <2>1, <2>2, <3>4, <3>5 DEF Document
    <3>9. FitsAs(d, r) BY <2>1, <2>2, <2>5, <3>2, <3>6, DocsFinite DEF FitsAs
    <3>10. ClaimAs(d, r) = ClaimAs(d, doc[d]) - alloc[d]
      BY <2>1, <2>2, <2>5, <3>2, <3>6, DocsFinite DEF ClaimAs
    <3> QED BY <3>5, <3>6, <3>8, <3>9, <3>10
  <2> QED BY <2>1, <2>3, <2>4, <2>5
<1>2. doc' \in [Docs -> Document]
  <2>1. doc' = [d \in Docs |-> IF alloc[d] > 0 THEN Settled(d, alloc[d]) ELSE doc[d]]
    BY DEF Settle
  <2>2. DOMAIN doc' = Docs /\ doc' = [d \in DOMAIN doc' |-> doc'[d]] BY <2>1
  <2> QED BY <1>1, <2>2
<1>3. /\ Invoices \in SUBSET Docs /\ Bills \in SUBSET Docs
      /\ \A d \in Docs : alloc[d] \in Int
  BY DocsFinite
<1>4. Claims(Invoices)' = Claims(Invoices) - SumFunctionOnSet(alloc, Invoices)
  BY <1>1, <1>2, <1>3, LessClaimed
<1>5. Claims(Bills)' = Claims(Bills) - SumFunctionOnSet(alloc, Bills)
  BY <1>1, <1>2, <1>3, LessClaimed
<1> QED BY <1>1, <1>2, <1>4, <1>5 DEF Fits

-----------------------------------------------------------------------------
(* Every step keeps the invariant *)

\* One document changes, and the books by as much as it claims.
LEMMA DocStep ==
  ASSUME SettlementInv, NEW d \in Docs, NEW r \in Document, doc' = [doc EXCEPT ![d] = r],
         FitsAs(d, r), r.paid = doc[d].paid,
         NEW n, n = ClaimAs(d, r) - ClaimAs(d, doc[d]), NEW m, m = 0 - n,
         IF d \in Invoices THEN Post([receivable |-> n]) ELSE Post([payable |-> m]),
         UNCHANGED <<payments, captured, handler>>
  PROVE  SettlementInv'
<1>1. SettlementTypeOK /\ BooksFit /\ \A e \in Docs : Fits(e) /\ doc[e].paid = PaidTo(e)
  BY DEF SettlementInv
<1>2. /\ doc' \in [Docs -> Document] /\ doc'[d] = r
      /\ \A e \in Docs : e # d => doc'[e] = doc[e]
      /\ ClaimAs(d, r) \in Int /\ ClaimAs(d, doc[d]) \in Int
      /\ d \in Invoices => /\ Claims(Invoices)' = Claims(Invoices) - ClaimAs(d, doc[d]) + ClaimAs(d, r)
                           /\ Claims(Bills)' = Claims(Bills)
      /\ d \in Bills => /\ Claims(Bills)' = Claims(Bills) - ClaimAs(d, doc[d]) + ClaimAs(d, r)
                        /\ Claims(Invoices)' = Claims(Invoices)
  BY <1>1, OneDoc
<1>3. n \in Int BY <1>2
<1>4. /\ books' \in [Control -> Int]
      /\ d \in Invoices => books'["receivable"] = books["receivable"] + n
                           /\ books'["payable"] = books["payable"]
      /\ d \notin Invoices => books'["receivable"] = books["receivable"]
                              /\ books'["payable"] = books["payable"] - n
      /\ books'["custAdvance"] = books["custAdvance"] /\ books'["gst"] = books["gst"]
      /\ books'["suppAdvance"] = books["suppAdvance"]
      /\ \A a \in Control : books[a] \in Int
  BY <1>1, <1>3, DocPosted
<1>5. /\ Crossed' = Crossed /\ Left("inflow")' = Left("inflow")
      /\ Left("outflow")' = Left("outflow")
      /\ \A e \in Docs : PaidTo(e)' = PaidTo(e)
      /\ (\A k \in DOMAIN payments : Unallocated(payments[k]) >= 0)'
           <=> (\A k \in DOMAIN payments : Unallocated(payments[k]) >= 0)
  BY SamePayments
<1>6. SettlementTypeOK' BY <1>1, <1>2, <1>4 DEF SettlementTypeOK
<1>7. ASSUME NEW e \in Docs PROVE Fits(e)' /\ doc'[e].paid = PaidTo(e)'
  BY <1>1, <1>2, <1>5 DEF Fits
<1>8. BooksFit'
  <2>1. /\ Claims(Invoices) \in Int /\ Claims(Bills) \in Int /\ Crossed \in Int
        /\ d \in Bills <=> d \notin Invoices
    BY <1>1, ClaimsAre, AllottedAre, DocsFinite
  <2>2. {"receivable", "payable"} \subseteq Control BY DEF Control
  <2>3. /\ books["receivable"] = Claims(Invoices) + Crossed
        /\ books["payable"] = Crossed - Claims(Bills)
        /\ books["custAdvance"] + books["gst"] = 0 - Left("inflow")
        /\ books["suppAdvance"] = Left("outflow")
    BY <1>1 DEF BooksFit
  <2>4. books'["receivable"] = Claims(Invoices)' + Crossed'
    BY <1>2, <1>4, <1>5, <2>1, <2>3
  <2>5. books'["payable"] = Crossed' - Claims(Bills)'
    BY <1>2, <1>4, <1>5, <2>1, <2>3
  <2>6. /\ books'["custAdvance"] + books'["gst"] = 0 - Left("inflow")'
        /\ books'["suppAdvance"] = Left("outflow")'
    BY <1>4, <1>5, <2>3
  <2> QED BY <2>4, <2>5, <2>6 DEF BooksFit
<1> QED BY <1>5, <1>6, <1>7, <1>8 DEF SettlementInv

LEMMA NothingPosted ==
  ASSUME SettlementTypeOK, UNCHANGED books
  PROVE  /\ Post([receivable |-> 0]) /\ Post([payable |-> 0])
<1>1. books \in [Control -> Int] BY DEF SettlementTypeOK
<1> QED BY <1>1 DEF Post, Lines

\* What a document is, in one fact for each step below.
LEMMA DocIs ==
  ASSUME SettlementInv, NEW d \in Docs
  PROVE  /\ doc[d] \in Document /\ FitsAs(d, doc[d]) /\ DOMAIN doc = Docs
         /\ doc[d].total \in Nat /\ doc[d].paid \in Nat /\ doc[d].due \in Nat
         /\ doc[d].status \in Statuses /\ doc[d].entry \in {"none", "posted", "reversed"}
         /\ doc[d] = [status |-> doc[d].status, total |-> doc[d].total, paid |-> doc[d].paid,
                      due |-> doc[d].due, entry |-> doc[d].entry]
         /\ d \in Bills <=> d \notin Invoices
<1>1. SettlementTypeOK /\ Fits(d) BY DEF SettlementInv
<1>2. doc \in [Docs -> Document] BY <1>1 DEF SettlementTypeOK
<1> QED BY <1>1, <1>2, DocTypes, DocsFinite DEF Fits, Document

LEMMA DraftStep ==
  ASSUME SettlementInv, NEW d \in Docs, Draft(d)
  PROVE  SettlementInv'
<1>0. /\ doc[d] \in Document /\ FitsAs(d, doc[d]) /\ DOMAIN doc = Docs
      /\ doc[d].total \in Nat /\ doc[d].paid \in Nat /\ doc[d].due \in Nat
      /\ doc[d].status \in Statuses /\ doc[d].entry \in {"none", "posted", "reversed"}
      /\ doc[d] = [status |-> doc[d].status, total |-> doc[d].total, paid |-> doc[d].paid,
                   due |-> doc[d].due, entry |-> doc[d].entry]
      /\ d \in Bills <=> d \notin Invoices
  BY DocIs
<1>1. PICK t \in Totals :
        doc' = [doc EXCEPT ![d] = [@ EXCEPT !.status = "draft", !.total = t, !.due = t]]
  BY DEF Draft
<1>2. doc[d].status = "absent" /\ UNCHANGED <<payments, books, captured, handler>> BY DEF Draft
<1>3. t \in Nat /\ t > 0 BY SettlementAssumption
<1>4. PICK r0 : r0 = doc[d] OBVIOUS
<1>5. PICK r1 : r1 = [r0 EXCEPT !.status = "draft"] OBVIOUS
<1>6. PICK r2 : r2 = [r1 EXCEPT !.total = t] OBVIOUS
<1>7. PICK r3 : r3 = [r2 EXCEPT !.due = t] OBVIOUS
<1>8. doc' = [doc EXCEPT ![d] = r3] BY <1>1, <1>4, <1>5, <1>6, <1>7
<1>9. r3 = [status |-> "draft", total |-> t, paid |-> doc[d].paid, due |-> t, entry |-> doc[d].entry]
  <2>1. r1 = [status |-> "draft", total |-> doc[d].total, paid |-> doc[d].paid,
              due |-> doc[d].due, entry |-> doc[d].entry]
    BY <1>4, <1>5, <1>0
  <2>2. r2 = [status |-> "draft", total |-> t, paid |-> doc[d].paid,
              due |-> doc[d].due, entry |-> doc[d].entry]
    BY <1>6, <2>1
  <2> QED BY <1>7, <2>2
<1>10. /\ r3.status = "draft" /\ r3.total = t /\ r3.paid = doc[d].paid /\ r3.due = t
       /\ r3.entry = doc[d].entry
  BY <1>9
<1>11. r3 \in Document BY <1>3, <1>9, <1>0 DEF Document, Statuses
<1>12. FitsAs(d, r3) BY <1>2, <1>3, <1>10, <1>0 DEF FitsAs
<1>13. ClaimAs(d, r3) = 0 /\ ClaimAs(d, doc[d]) = 0
  <2>1. doc[d].entry = "none" BY <1>0, <1>2 DEF FitsAs
  <2>2. r3.entry = "none" /\ r3.status = "draft" BY <1>10, <2>1
  <2>5. r3.total \in Nat /\ r3.paid \in Nat /\ r3.due \in Nat BY <1>0, <1>3, <1>10
  <2>3. ClaimAs(d, r3) = 0 BY <2>2, <2>5 DEF ClaimAs
  <2>4. ClaimAs(d, doc[d]) = 0 BY <1>0, <1>2, <2>1 DEF ClaimAs
  <2> QED BY <2>3, <2>4
<1>14. PICK n, m : n = 0 /\ m = 0 OBVIOUS
<1>15. n = ClaimAs(d, r3) - ClaimAs(d, doc[d]) /\ m = 0 - n BY <1>13, <1>14
<1>16. IF d \in Invoices THEN Post([receivable |-> n]) ELSE Post([payable |-> m])
  <2>1. SettlementTypeOK /\ UNCHANGED books BY <1>2 DEF SettlementInv
  <2>2. Post([receivable |-> 0]) /\ Post([payable |-> 0]) BY <2>1, NothingPosted
  <2> QED BY <1>14, <2>2
<1>17. UNCHANGED <<payments, captured, handler>> BY <1>2
<1> QED BY <1>8, <1>10, <1>11, <1>12, <1>15, <1>16, <1>17, DocStep

LEMMA IssueStep ==
  ASSUME SettlementInv, NEW d \in Docs, Issue(d)
  PROVE  SettlementInv'
<1>0. /\ doc[d] \in Document /\ FitsAs(d, doc[d]) /\ DOMAIN doc = Docs
      /\ doc[d].total \in Nat /\ doc[d].paid \in Nat /\ doc[d].due \in Nat
      /\ doc[d].status \in Statuses /\ doc[d].entry \in {"none", "posted", "reversed"}
      /\ doc[d] = [status |-> doc[d].status, total |-> doc[d].total, paid |-> doc[d].paid,
                   due |-> doc[d].due, entry |-> doc[d].entry]
      /\ d \in Bills <=> d \notin Invoices
  BY DocIs
<1> DEFINE st == IF d \in Invoices THEN "issued" ELSE "approved"
<1>1. /\ doc' = [doc EXCEPT ![d].status = st, ![d].entry = "posted"]
      /\ doc[d].status = "draft" /\ UNCHANGED <<payments, captured, handler>>
      /\ IF d \in Invoices THEN Post([receivable |-> doc[d].total])
                           ELSE Post([payable |-> 0 - doc[d].total])
  BY DEF Issue
<1>2. /\ st \in {"issued", "approved"}
      /\ d \in Invoices => st = "issued"
      /\ d \notin Invoices => st = "approved"
  OBVIOUS
<1> HIDE DEF st
<1>3. PICK r0 : r0 = doc[d] OBVIOUS
<1>4. PICK r1 : r1 = [r0 EXCEPT !.status = st] OBVIOUS
<1>5. PICK r2 : r2 = [r1 EXCEPT !.entry = "posted"] OBVIOUS
<1>6. doc' = [doc EXCEPT ![d] = r2] BY <1>1, <1>3, <1>4, <1>5, <1>0
<1>7. r2 = [status |-> st, total |-> doc[d].total, paid |-> doc[d].paid, due |-> doc[d].due,
            entry |-> "posted"]
  <2>1. r1 = [status |-> st, total |-> doc[d].total, paid |-> doc[d].paid,
              due |-> doc[d].due, entry |-> doc[d].entry]
    BY <1>3, <1>4, <1>0
  <2> QED BY <1>5, <2>1
<1>8. /\ r2.status = st /\ r2.total = doc[d].total /\ r2.paid = doc[d].paid
      /\ r2.due = doc[d].due /\ r2.entry = "posted"
  BY <1>7
<1>9. r2 \in Document
  <2>1. st \in Statuses BY <1>2 DEF Statuses
  <2> QED BY <1>7, <1>0, <2>1 DEF Document
<1>10. FitsAs(d, r2) BY <1>1, <1>2, <1>8, <1>0 DEF FitsAs
<1>11. doc[d].total = ClaimAs(d, r2) - ClaimAs(d, doc[d])
  BY <1>1, <1>2, <1>8, <1>0 DEF ClaimAs, FitsAs
<1>12. PICK n, m : n = doc[d].total /\ m = 0 - n OBVIOUS
<1>13. IF d \in Invoices THEN Post([receivable |-> n]) ELSE Post([payable |-> m])
  BY <1>1, <1>12
<1>14. n = ClaimAs(d, r2) - ClaimAs(d, doc[d]) BY <1>11, <1>12
<1> QED BY <1>1, <1>6, <1>8, <1>9, <1>10, <1>12, <1>13, <1>14, DocStep

LEMMA CancelStep ==
  ASSUME SettlementInv, NEW d \in Docs, Cancel(d)
  PROVE  SettlementInv'
<1>0. /\ doc[d] \in Document /\ FitsAs(d, doc[d]) /\ DOMAIN doc = Docs
      /\ doc[d].total \in Nat /\ doc[d].paid \in Nat /\ doc[d].due \in Nat
      /\ doc[d].status \in Statuses /\ doc[d].entry \in {"none", "posted", "reversed"}
      /\ doc[d] = [status |-> doc[d].status, total |-> doc[d].total, paid |-> doc[d].paid,
                   due |-> doc[d].due, entry |-> doc[d].entry]
      /\ d \in Bills <=> d \notin Invoices
  BY DocIs
<1>1. /\ doc' = [doc EXCEPT ![d].status = "cancelled", ![d].entry = "reversed",
                            ![d].due = IF d \in Invoices THEN 0 ELSE @]
      /\ doc[d].paid = 0 /\ doc[d].status \in {"issued", "approved"} /\ doc[d].entry = "posted"
      /\ UNCHANGED <<payments, captured, handler>>
      /\ IF d \in Invoices THEN Post([receivable |-> 0 - doc[d].total])
                           ELSE Post([payable |-> doc[d].total])
  BY DEF Cancel
<1>2. PICK due : due = IF d \in Invoices THEN 0 ELSE doc[d].due OBVIOUS
<1>3. PICK r0 : r0 = doc[d] OBVIOUS
<1>4. PICK r1 : r1 = [r0 EXCEPT !.status = "cancelled"] OBVIOUS
<1>5. PICK r2 : r2 = [r1 EXCEPT !.entry = "reversed"] OBVIOUS
<1>6. PICK r3 : r3 = [r2 EXCEPT !.due = due] OBVIOUS
<1>7. r1 = [status |-> "cancelled", total |-> doc[d].total, paid |-> doc[d].paid,
            due |-> doc[d].due, entry |-> doc[d].entry]
  BY <1>3, <1>4, <1>0
<1>8. r2 = [status |-> "cancelled", total |-> doc[d].total, paid |-> doc[d].paid,
            due |-> doc[d].due, entry |-> "reversed"]
  BY <1>5, <1>7
<1>9. r3 = [status |-> "cancelled", total |-> doc[d].total, paid |-> doc[d].paid,
            due |-> due, entry |-> "reversed"]
  BY <1>6, <1>8
<1>10. doc' = [doc EXCEPT ![d] = r3]
  <2>1. PICK d1 : d1 = [doc EXCEPT ![d].status = "cancelled"] OBVIOUS
  <2>2. PICK d2 : d2 = [d1 EXCEPT ![d].entry = "reversed"] OBVIOUS
  <2>3. d1 = [doc EXCEPT ![d] = r1] BY <1>3, <1>4, <2>1, <1>0
  <2>4. d2 = [doc EXCEPT ![d] = r2] BY <1>5, <2>2, <2>3, <1>0
  <2>5. d2[d].due = doc[d].due BY <1>8, <2>4, <1>0
  <2>6. doc' = [d2 EXCEPT ![d].due = due] BY <1>1, <1>2, <2>1, <2>2, <2>5
  <2> QED BY <1>6, <2>4, <2>6, <1>0
<1>11. /\ r3.status = "cancelled" /\ r3.total = doc[d].total /\ r3.paid = doc[d].paid
       /\ r3.due = due /\ r3.entry = "reversed"
  BY <1>9
<1>12. r3 \in Document BY <1>2, <1>9, <1>0 DEF Document, Statuses
<1>13. FitsAs(d, r3) BY <1>1, <1>2, <1>11, <1>0 DEF FitsAs
<1>14. PICK n, m : n = 0 - doc[d].total /\ m = doc[d].total OBVIOUS
<1>15. IF d \in Invoices THEN Post([receivable |-> n]) ELSE Post([payable |-> m])
  BY <1>1, <1>14
<1>16. n = ClaimAs(d, r3) - ClaimAs(d, doc[d]) /\ m = 0 - n
  BY <1>1, <1>2, <1>11, <1>14, <1>0 DEF ClaimAs, FitsAs
<1> QED BY <1>1, <1>10, <1>11, <1>12, <1>13, <1>15, <1>16, DocStep

LEMMA ReverseStep ==
  ASSUME SettlementInv, NEW d \in Docs, ReverseEntry(d)
  PROVE  SettlementInv'
<1>0. /\ doc[d] \in Document /\ FitsAs(d, doc[d]) /\ DOMAIN doc = Docs
      /\ doc[d].total \in Nat /\ doc[d].paid \in Nat /\ doc[d].due \in Nat
      /\ doc[d].status \in Statuses /\ doc[d].entry \in {"none", "posted", "reversed"}
      /\ doc[d] = [status |-> doc[d].status, total |-> doc[d].total, paid |-> doc[d].paid,
                   due |-> doc[d].due, entry |-> doc[d].entry]
      /\ d \in Bills <=> d \notin Invoices
  BY DocIs
<1>1. /\ doc' = [doc EXCEPT ![d].entry = "reversed"]
      /\ doc[d].entry = "posted" /\ UNCHANGED <<payments, captured, handler>>
      /\ IF d \in Invoices THEN Post([receivable |-> 0 - doc[d].total])
                           ELSE Post([payable |-> doc[d].total])
  BY DEF ReverseEntry
<1>2. PICK r0 : r0 = doc[d] OBVIOUS
<1>3. PICK r1 : r1 = [r0 EXCEPT !.entry = "reversed"] OBVIOUS
<1>4. r1 = [status |-> doc[d].status, total |-> doc[d].total, paid |-> doc[d].paid,
            due |-> doc[d].due, entry |-> "reversed"]
  BY <1>0, <1>2, <1>3
<1>5. doc' = [doc EXCEPT ![d] = r1] BY <1>0, <1>1, <1>2, <1>3
<1>6. /\ r1.status = doc[d].status /\ r1.total = doc[d].total /\ r1.paid = doc[d].paid
      /\ r1.due = doc[d].due /\ r1.entry = "reversed"
  BY <1>4
<1>7. r1 \in Document BY <1>0, <1>4 DEF Document
<1>8. doc[d].status \notin {"absent", "draft", "cancelled"} BY <1>0, <1>1 DEF FitsAs
<1>9. FitsAs(d, r1) BY <1>0, <1>6, <1>8 DEF FitsAs
<1>10. PICK n, m : n = 0 - doc[d].total /\ m = doc[d].total OBVIOUS
<1>11. IF d \in Invoices THEN Post([receivable |-> n]) ELSE Post([payable |-> m])
  BY <1>1, <1>10
<1>12. n = ClaimAs(d, r1) - ClaimAs(d, doc[d]) /\ m = 0 - n
  BY <1>0, <1>1, <1>6, <1>8, <1>10 DEF ClaimAs
<1> QED BY <1>1, <1>5, <1>6, <1>7, <1>9, <1>11, <1>12, DocStep

LEMMA FlipStep ==
  ASSUME SettlementInv, NEW d \in Invoices, FlipOverdue(d)
  PROVE  SettlementInv'
<1>a. d \in Docs BY DocsFinite
<1>0. /\ doc[d] \in Document /\ FitsAs(d, doc[d]) /\ DOMAIN doc = Docs
      /\ doc[d].total \in Nat /\ doc[d].paid \in Nat /\ doc[d].due \in Nat
      /\ doc[d].status \in Statuses /\ doc[d].entry \in {"none", "posted", "reversed"}
      /\ doc[d] = [status |-> doc[d].status, total |-> doc[d].total, paid |-> doc[d].paid,
                   due |-> doc[d].due, entry |-> doc[d].entry]
      /\ d \in Bills <=> d \notin Invoices
  BY <1>a, DocIs
<1>1. /\ doc' = [doc EXCEPT ![d].status = "overdue"]
      /\ doc[d].status = "issued" /\ UNCHANGED <<payments, books, captured, handler>>
  BY DEF FlipOverdue
<1>2. PICK r0 : r0 = doc[d] OBVIOUS
<1>3. PICK r1 : r1 = [r0 EXCEPT !.status = "overdue"] OBVIOUS
<1>4. r1 = [status |-> "overdue", total |-> doc[d].total, paid |-> doc[d].paid,
            due |-> doc[d].due, entry |-> doc[d].entry]
  BY <1>0, <1>2, <1>3
<1>5. doc' = [doc EXCEPT ![d] = r1] BY <1>a, <1>0, <1>1, <1>2, <1>3
<1>6. /\ r1.status = "overdue" /\ r1.total = doc[d].total /\ r1.paid = doc[d].paid
      /\ r1.due = doc[d].due /\ r1.entry = doc[d].entry
  BY <1>4
<1>7. r1 \in Document BY <1>0, <1>4 DEF Document, Statuses
<1>8. FitsAs(d, r1) BY <1>0, <1>1, <1>6 DEF FitsAs
<1>9. ClaimAs(d, r1) = ClaimAs(d, doc[d]) BY <1>0, <1>1, <1>6 DEF ClaimAs
<1>10. ClaimAs(d, r1) \in Int BY <1>a, <1>7, ClaimType
<1>11. PICK n, m : n = 0 /\ m = 0 OBVIOUS
<1>12. n = ClaimAs(d, r1) - ClaimAs(d, doc[d]) /\ m = 0 - n BY <1>9, <1>10, <1>11
<1>13. IF d \in Invoices THEN Post([receivable |-> n]) ELSE Post([payable |-> m])
  <2>1. SettlementTypeOK /\ UNCHANGED books BY <1>1 DEF SettlementInv
  <2>2. Post([receivable |-> 0]) /\ Post([payable |-> 0]) BY <2>1, NothingPosted
  <2> QED BY <1>11, <2>2
<1>14. UNCHANGED <<payments, captured, handler>> BY <1>1
<1> QED BY <1>a, <1>5, <1>6, <1>7, <1>8, <1>12, <1>13, <1>14, DocStep

\* Steps that leave documents, payments and books alone.
LEMMA HandlerStep ==
  ASSUME SettlementInv, UNCHANGED <<doc, payments, books>>, captured' \subseteq Captures,
         handler' \in [Handlers -> Handling]
  PROVE  SettlementInv'
<1>1. /\ Crossed' = Crossed /\ Left("inflow")' = Left("inflow")
      /\ Left("outflow")' = Left("outflow")
      /\ \A e \in Docs : PaidTo(e)' = PaidTo(e)
      /\ (\A k \in DOMAIN payments : Unallocated(payments[k]) >= 0)'
           <=> (\A k \in DOMAIN payments : Unallocated(payments[k]) >= 0)
  BY SamePayments
<1>2. /\ Claims(Invoices)' = Claims(Invoices) /\ Claims(Bills)' = Claims(Bills)
      /\ \A d \in Docs : Fits(d) => Fits(d)'
  BY SameDocs
<1>3. SettlementTypeOK' BY DEF SettlementInv, SettlementTypeOK
<1>4. BooksFit' BY <1>1, <1>2 DEF SettlementInv, BooksFit
<1>5. \A d \in Docs : Fits(d)' /\ doc'[d].paid = PaidTo(d)' BY <1>1, <1>2 DEF SettlementInv
<1> QED BY <1>1, <1>3, <1>4, <1>5 DEF SettlementInv

LEMMA CaptureStep ==
  ASSUME SettlementInv, NEW e \in Captures, Capture(e)
  PROVE  SettlementInv'
BY HandlerStep DEF Capture, SettlementInv, SettlementTypeOK

LEMMA DeliverStep ==
  ASSUME SettlementInv, NEW h \in Handlers, Deliver(h)
  PROVE  SettlementInv'
<1>1. PICK e \in captured : handler' = [handler EXCEPT
                                 ![h] = [event |-> e, due |-> doc[CapturedInvoice[e]].due]]
  BY DEF Deliver
<1>2. SettlementTypeOK /\ UNCHANGED <<doc, payments, books, captured>> BY DEF Deliver, SettlementInv
<1>3. e \in Captures /\ CapturedInvoice[e] \in Docs
  BY <1>2, SettlementAssumption DEF SettlementTypeOK, Docs
<1>4. doc[CapturedInvoice[e]].due \in Nat BY <1>2, <1>3, DocTypes
<1>5. /\ captured' \subseteq Captures
      /\ handler' \in [Handlers -> Handling]
  BY <1>1, <1>2, <1>3, <1>4 DEF SettlementTypeOK, Handling
<1> QED BY <1>2, <1>5, HandlerStep

LEMMA FailStep ==
  ASSUME SettlementInv, NEW h \in Handlers, Fail(h)
  PROVE  SettlementInv'
<1>1. handler' \in [Handlers -> Handling]
      /\ captured' \subseteq Captures
  BY DEF Fail, SettlementInv, SettlementTypeOK, Handling
<1> QED BY <1>1, HandlerStep DEF Fail

\* What the books of an earlier state hold, as arithmetic.
LEMMA BooksAre ==
  ASSUME SettlementInv
  PROVE  /\ Claims(Invoices) \in Int /\ Claims(Bills) \in Int /\ Crossed \in Int
         /\ Left("inflow") \in Int /\ Left("outflow") \in Int
         /\ books["receivable"] = Claims(Invoices) + Crossed
         /\ books["payable"] = Crossed - Claims(Bills)
         /\ books["custAdvance"] + books["gst"] = 0 - Left("inflow")
         /\ books["suppAdvance"] = Left("outflow")
         /\ \A a \in Control : books[a] \in Int
<1>1. SettlementTypeOK /\ BooksFit BY DEF SettlementInv
<1>2. Invoices \in SUBSET Docs /\ Bills \in SUBSET Docs BY DocsFinite
<1>3. Claims(Invoices) \in Int /\ Claims(Bills) \in Int BY <1>1, <1>2, ClaimsAre
<1>4. Crossed \in Int BY <1>1, AllottedAre
<1>5. Left("inflow") \in Int /\ Left("outflow") \in Int BY <1>1, AdvancesAre
<1>6. \A a \in Control : books[a] \in Int BY <1>1 DEF SettlementTypeOK
<1> QED BY <1>1, <1>3, <1>4, <1>5, <1>6 DEF BooksFit

LEMMA CreateStep ==
  ASSUME SettlementInv, NEW dir \in {"inflow", "outflow"}, NEW amount \in Nat,
         NEW alloc \in [Docs -> Nat], NEW rated \in BOOLEAN, NEW ref \in Captures \cup {NoRef},
         Create(dir, amount, alloc, rated, ref), captured' \subseteq Captures,
         handler' \in [Handlers -> Handling]
  PROVE  SettlementInv'
<1> DEFINE allocated == SumFunctionOnSet(alloc, Docs)
           advance == amount - allocated
           tax == IF dir = "inflow" /\ advance > 0 /\ rated THEN AdvanceTax(advance) ELSE NoTax
           p == [dir |-> dir, amount |-> amount, alloc |-> alloc, refunded |-> 0,
                 tax |-> tax, pool |-> advance, ref |-> ref]
           t == TaxOf(tax)
           si == SumFunctionOnSet(alloc, Invoices)
           sb == SumFunctionOnSet(alloc, Bills)
<1>1. /\ SettlementTypeOK /\ \A d \in Docs : Fits(d) /\ doc[d].paid = PaidTo(d)
      /\ \A k \in DOMAIN payments : Unallocated(payments[k]) >= 0
  BY DEF SettlementInv
<1>2. /\ advance >= 0 /\ Settle(alloc) /\ payments' = Append(payments, p)
      /\ IF dir = "inflow"
         THEN Post([bank |-> amount, receivable |-> 0 - allocated,
                    custAdvance |-> t - advance, gst |-> 0 - t])
         ELSE Post([bank |-> 0 - amount, payable |-> allocated, suppAdvance |-> advance])
  BY DEF Create
<1>3. allocated \in Nat /\ si \in Int /\ sb \in Int /\ allocated = si + sb BY AllocationSums
<1>4. advance \in Nat BY <1>2, <1>3
<1>5. tax \in [Components -> Int]
  <2>1. AdvanceTax(advance) \in [Components -> Int] BY <1>4, AdvanceTaxType
  <2>2. NoTax \in [Components -> Int] BY DEF NoTax
  <2> QED BY <2>1, <2>2
<1>6. t \in Int
  <2> HIDE DEF tax
  <2> QED BY <1>5, TaxType
<1>7. p \in Payment
  <2> HIDE DEF tax, advance
  <2> QED BY <1>4, <1>5 DEF Payment
<1>8. p.dir = dir /\ p.alloc = alloc /\ p.amount = amount /\ p.refunded = 0 OBVIOUS
<1> HIDE DEF p, tax, t
<1>9. Unallocated(p) = advance BY <1>3, <1>4, <1>8 DEF Unallocated, Allocated
<1>10. /\ payments' \in Seq(Payment)
       /\ \A j \in DOMAIN payments' :
            payments'[j] = p \/ (j \in DOMAIN payments /\ payments'[j] = payments[j])
       /\ Crossed' = Crossed + Across(p)
       /\ \A x : Left(x)' = Left(x) + LeftOf(x, p)
       /\ \A d \in Docs : PaidTo(d)' = PaidTo(d) + p.alloc[d]
  BY <1>1, <1>2, <1>7, Added
<1>11. /\ doc' \in [Docs -> Document]
       /\ \A d \in Docs : Fits(d)' /\ doc'[d].paid = doc[d].paid + alloc[d]
       /\ Claims(Invoices)' = Claims(Invoices) - si
       /\ Claims(Bills)' = Claims(Bills) - sb
  BY <1>1, <1>2, Settles
<1>12. Across(p) = IF dir = "outflow" THEN si ELSE 0 - sb BY <1>8 DEF Across
<1>13. \A x : LeftOf(x, p) = IF dir = x THEN advance ELSE 0 BY <1>8, <1>9 DEF LeftOf
<1>14. \A d \in Docs : Fits(d)' /\ doc'[d].paid = PaidTo(d)' BY <1>1, <1>8, <1>10, <1>11
<1>15. (\A k \in DOMAIN payments : Unallocated(payments[k]) >= 0)'
  <2>1. \A k \in DOMAIN payments' : Unallocated(payments'[k]) >= 0 BY <1>1, <1>2, <1>9, <1>10
  <2> QED BY <2>1 DEF Unallocated, Allocated
<1>16. books' \in [Control -> Int] /\ BooksFit'
  <2> HIDE DEF allocated, advance, si, sb
  <2>1. PICK al \in Int, ad \in Int, tt \in Int, i \in Int, b \in Int, am \in Int :
          /\ al = allocated /\ ad = advance /\ tt = t /\ i = si /\ b = sb /\ am = amount
          /\ al = i + b
    BY <1>3, <1>4, <1>6
  <2>2. CASE dir = "inflow"
    <3>1. PICK l : l = [bank |-> am, receivable |-> 0 - al, custAdvance |-> tt - ad, gst |-> 0 - tt]
      OBVIOUS
    <3>2. Post(l)
      <4>1. l = [bank |-> amount, receivable |-> 0 - allocated,
                 custAdvance |-> t - advance, gst |-> 0 - t]
        BY <2>1, <3>1
      <4> QED BY <1>2, <2>2, <4>1
    <3>3. /\ DOMAIN l = {"bank", "receivable", "custAdvance", "gst"}
          /\ l["receivable"] = 0 - al /\ l["custAdvance"] = tt - ad /\ l["gst"] = 0 - tt
          /\ \A a \in DOMAIN l : l[a] \in Int
      BY <3>1
    <3>4. /\ books' \in [Control -> Int]
          /\ \A a \in Control :
               books'[a] = books[a] + (IF a \in DOMAIN l THEN l[a] ELSE 0) /\ books[a] \in Int
      BY <1>1, <3>2, <3>3, Posted
    <3>5. /\ books'["receivable"] = books["receivable"] - al
          /\ books'["payable"] = books["payable"]
          /\ books'["custAdvance"] = books["custAdvance"] + tt - ad
          /\ books'["gst"] = books["gst"] - tt
          /\ books'["suppAdvance"] = books["suppAdvance"]
          /\ books["custAdvance"] \in Int /\ books["gst"] \in Int
      BY <3>3, <3>4 DEF Control
    <3>6. /\ Crossed' = Crossed - b
          /\ Left("inflow")' = Left("inflow") + ad /\ Left("outflow")' = Left("outflow")
          /\ Claims(Invoices)' = Claims(Invoices) - i /\ Claims(Bills)' = Claims(Bills) - b
      <4>1. Across(p) = 0 - b BY <1>12, <2>1, <2>2
      <4>2. LeftOf("inflow", p) = ad /\ LeftOf("outflow", p) = 0 BY <1>13, <2>1, <2>2
      <4>3. /\ Left("inflow")' = Left("inflow") + LeftOf("inflow", p)
            /\ Left("outflow")' = Left("outflow") + LeftOf("outflow", p)
        BY <1>10
      <4>4. Crossed' = Crossed + Across(p) BY <1>10
      <4>5. Claims(Invoices)' = Claims(Invoices) - i /\ Claims(Bills)' = Claims(Bills) - b
        BY <1>11, <2>1
      <4> QED BY <2>1, <4>1, <4>2, <4>3, <4>4, <4>5, BooksAre
    <3>7. /\ books'["receivable"] = Claims(Invoices)' + Crossed'
          /\ books'["payable"] = Crossed' - Claims(Bills)'
          /\ books'["custAdvance"] + books'["gst"] = 0 - Left("inflow")'
          /\ books'["suppAdvance"] = Left("outflow")'
      BY <2>1, <3>5, <3>6, BooksAre
    <3> QED BY <3>4, <3>7 DEF BooksFit
  <2>3. CASE dir = "outflow"
    <3>1. PICK l : l = [bank |-> 0 - am, payable |-> al, suppAdvance |-> ad] OBVIOUS
    <3>2. Post(l)
      <4>1. l = [bank |-> 0 - amount, payable |-> allocated, suppAdvance |-> advance]
        BY <2>1, <3>1
      <4> QED BY <1>2, <2>3, <4>1
    <3>3. /\ DOMAIN l = {"bank", "payable", "suppAdvance"}
          /\ l["payable"] = al /\ l["suppAdvance"] = ad
          /\ \A a \in DOMAIN l : l[a] \in Int
      BY <3>1
    <3>4. /\ books' \in [Control -> Int]
          /\ \A a \in Control :
               books'[a] = books[a] + (IF a \in DOMAIN l THEN l[a] ELSE 0) /\ books[a] \in Int
      BY <1>1, <3>2, <3>3, Posted
    <3>5. /\ books'["receivable"] = books["receivable"]
          /\ books'["payable"] = books["payable"] + al
          /\ books'["custAdvance"] = books["custAdvance"] /\ books'["gst"] = books["gst"]
          /\ books'["suppAdvance"] = books["suppAdvance"] + ad
      BY <3>3, <3>4 DEF Control
    <3>6. /\ Crossed' = Crossed + i
          /\ Left("inflow")' = Left("inflow") /\ Left("outflow")' = Left("outflow") + ad
          /\ Claims(Invoices)' = Claims(Invoices) - i /\ Claims(Bills)' = Claims(Bills) - b
      <4>1. Across(p) = i BY <1>12, <2>1, <2>3
      <4>2. LeftOf("inflow", p) = 0 /\ LeftOf("outflow", p) = ad BY <1>13, <2>1, <2>3
      <4>3. /\ Left("inflow")' = Left("inflow") + LeftOf("inflow", p)
            /\ Left("outflow")' = Left("outflow") + LeftOf("outflow", p)
        BY <1>10
      <4>4. Crossed' = Crossed + Across(p) BY <1>10
      <4>5. Claims(Invoices)' = Claims(Invoices) - i /\ Claims(Bills)' = Claims(Bills) - b
        BY <1>11, <2>1
      <4> QED BY <2>1, <4>1, <4>2, <4>3, <4>4, <4>5, BooksAre
    <3>7. /\ books'["receivable"] = Claims(Invoices)' + Crossed'
          /\ books'["payable"] = Crossed' - Claims(Bills)'
          /\ books'["custAdvance"] + books'["gst"] = 0 - Left("inflow")'
          /\ books'["suppAdvance"] = Left("outflow")'
      BY <2>1, <3>5, <3>6, BooksAre
    <3> QED BY <3>4, <3>7 DEF BooksFit
  <2> QED BY <2>2, <2>3
<1>17. SettlementTypeOK' BY <1>10, <1>11, <1>16 DEF SettlementTypeOK
<1> QED BY <1>14, <1>15, <1>16, <1>17 DEF SettlementInv

LEMMA PayStep ==
  ASSUME SettlementInv, NEW dir \in {"inflow", "outflow"}, Pay(dir)
  PROVE  SettlementInv'
<1>1. PICK amount \in Amounts, alloc \in Allocations, rated \in {FALSE, AdvanceRate > 0} :
        Create(dir, amount, alloc, rated, NoRef)
  BY DEF Pay
<1>2. /\ captured' \subseteq Captures
      /\ handler' \in [Handlers -> Handling]
  BY DEF Pay, SettlementInv, SettlementTypeOK
<1>3. amount \in Nat BY SettlementAssumption
<1>4. alloc \in [Docs -> Nat]
  <2>1. Amounts \cup {0} \subseteq Nat BY SettlementAssumption
  <2> QED BY <2>1 DEF Allocations
<1>5. rated \in BOOLEAN
  <2>1. (AdvanceRate > 0) \in BOOLEAN BY SettlementAssumption
  <2> QED BY <2>1
<1> QED BY <1>1, <1>2, <1>3, <1>4, <1>5, CreateStep

LEMMA RecordStep ==
  ASSUME SettlementInv, NEW h \in Handlers, RecordPayment(h)
  PROVE  SettlementInv'
<1> DEFINE e == handler[h].event
<1>1. /\ handler[h] # IdleHandler
      /\ Create("inflow", CapturedAmount[e], HookAlloc(h), FALSE, e)
      /\ handler' = [handler EXCEPT ![h] = IdleHandler] /\ UNCHANGED captured
  BY DEF RecordPayment
<1>2. SettlementTypeOK BY DEF SettlementInv
<1>3. captured' \subseteq Captures /\ handler' \in [Handlers -> Handling]
  BY <1>1, <1>2 DEF SettlementTypeOK, Handling
<1>4. e \in Captures /\ handler[h].due \in Nat
  BY <1>1, <1>2 DEF SettlementTypeOK, Handling
<1>5. CapturedAmount[e] \in Nat BY <1>4, SettlementAssumption
<1>6. HookAlloc(h) \in [Docs -> Nat] BY <1>4, <1>5 DEF HookAlloc, OneLess
<1> HIDE DEF e
<1> QED BY <1>1, <1>3, <1>4, <1>5, <1>6, CreateStep

LEMMA AllocateStep ==
  ASSUME SettlementInv, NEW k \in DOMAIN payments, Allocate(k)
  PROVE  SettlementInv'
<1>1. /\ SettlementTypeOK /\ \A d \in Docs : Fits(d) /\ doc[d].paid = PaidTo(d)
      /\ \A j \in DOMAIN payments : Unallocated(payments[j]) >= 0
  BY DEF SettlementInv
<1>2. PICK p \in Payment : p = payments[k] BY <1>1, PaymentsAre
<1>3. PICK alloc \in Allocations :
        LET add == SumFunctionOnSet(alloc, Docs)
            tax == TaxOf(Share(p, add))
        IN /\ add <= Unallocated(p)
           /\ Settle(alloc)
           /\ IF p.dir = "inflow"
              THEN Post([custAdvance |-> add - tax, gst |-> tax, receivable |-> 0 - add])
              ELSE Post([payable |-> add, suppAdvance |-> 0 - add])
           /\ payments' = [payments EXCEPT ![k].alloc = [d \in Docs |-> p.alloc[d] + alloc[d]]]
  BY <1>2 DEF Allocate, MayUse
<1>4. UNCHANGED <<captured, handler>> BY DEF Allocate
<1> DEFINE add == SumFunctionOnSet(alloc, Docs)
           tax == TaxOf(Share(p, add))
           more == [d \in Docs |-> p.alloc[d] + alloc[d]]
           si == SumFunctionOnSet(alloc, Invoices)
           sb == SumFunctionOnSet(alloc, Bills)
<1>5. alloc \in [Docs -> Nat]
  <2>1. Amounts \cup {0} \subseteq Nat BY SettlementAssumption
  <2> QED BY <2>1 DEF Allocations
<1>6. add \in Nat /\ si \in Int /\ sb \in Int /\ add = si + sb BY <1>5, AllocationSums
<1>7. tax \in Int
  <2> HIDE DEF add
  <2> QED BY <1>6, ShareType, TaxType
<1>8. /\ p.alloc \in [Docs -> Nat] /\ p.amount \in Nat /\ p.refunded \in Nat
      /\ p.dir \in {"inflow", "outflow"}
      /\ p = [dir |-> p.dir, amount |-> p.amount, alloc |-> p.alloc, refunded |-> p.refunded,
              tax |-> p.tax, pool |-> p.pool, ref |-> p.ref]
  BY DEF Payment
<1>9. more \in [Docs -> Nat] /\ \A d \in Docs : more[d] = p.alloc[d] + alloc[d] BY <1>5, <1>8
<1>10. PICK q : q = [p EXCEPT !.alloc = more] OBVIOUS
<1> HIDE DEF more
<1>11. q = [dir |-> p.dir, amount |-> p.amount, alloc |-> more, refunded |-> p.refunded,
            tax |-> p.tax, pool |-> p.pool, ref |-> p.ref]
  BY <1>8, <1>10
<1>12. q \in Payment BY <1>9, <1>11 DEF Payment
<1>13. /\ q.dir = p.dir /\ q.amount = p.amount /\ q.alloc = more /\ q.refunded = p.refunded
  BY <1>11
<1>14. payments' = [payments EXCEPT ![k] = q]
  BY <1>2, <1>3, <1>10 DEF more
<1>15. ASSUME NEW D \in SUBSET Docs
       PROVE  SumFunctionOnSet(more, D) = SumFunctionOnSet(p.alloc, D) + SumFunctionOnSet(alloc, D)
  <2>1. PICK f, g, h : f = p.alloc /\ g = alloc /\ h = more OBVIOUS
  <2>2. /\ IsFiniteSet(D)
        /\ \A d \in D : f[d] \in Int /\ g[d] \in Int /\ h[d] = f[d] + g[d]
    BY <1>5, <1>8, <1>9, <2>1, DocsFinite, FS_Subset
  <2>3. SumFunctionOnSet(h, D) = SumFunctionOnSet(f, D) + SumFunctionOnSet(g, D)
    BY ONLY <2>2, SumPlus
  <2> QED BY <2>1, <2>3
<1>16. /\ SumFunctionOnSet(more, Docs) = SumFunctionOnSet(p.alloc, Docs) + add
       /\ SumFunctionOnSet(more, Invoices) = SumFunctionOnSet(p.alloc, Invoices) + si
       /\ SumFunctionOnSet(more, Bills) = SumFunctionOnSet(p.alloc, Bills) + sb
  BY <1>15, DocsFinite
<1>17. /\ SumFunctionOnSet(p.alloc, Docs) \in Nat
       /\ SumFunctionOnSet(p.alloc, Invoices) \in Int /\ SumFunctionOnSet(p.alloc, Bills) \in Int
  BY <1>8, AllocationSums
<1> HIDE DEF add, tax, si, sb
<1>18. PICK a \in Int, t \in Int, i \in Int, b \in Int :
         a = add /\ t = tax /\ i = si /\ b = sb /\ a = i + b
  BY <1>6, <1>7
<1>19. Unallocated(q) = Unallocated(p) - a /\ Unallocated(p) \in Int
  BY <1>8, <1>13, <1>16, <1>17, <1>18 DEF Unallocated, Allocated
<1>20. a <= Unallocated(p) BY <1>3, <1>18 DEF add
<1>21. /\ payments' \in Seq(Payment)
       /\ DOMAIN payments' = DOMAIN payments /\ payments'[k] = q
       /\ \A j \in DOMAIN payments : j # k => payments'[j] = payments[j]
       /\ Crossed' = Crossed - Across(p) + Across(q)
       /\ \A x : Left(x)' = Left(x) - LeftOf(x, p) + LeftOf(x, q)
       /\ \A d \in Docs : PaidTo(d)' = PaidTo(d) - p.alloc[d] + q.alloc[d]
  <2>1. /\ payments' \in Seq(Payment)
        /\ DOMAIN payments' = DOMAIN payments /\ payments'[k] = q
        /\ \A j \in DOMAIN payments : j # k => payments'[j] = payments[j]
        /\ Crossed' = Crossed - Across(payments[k]) + Across(q)
        /\ \A x : Left(x)' = Left(x) - LeftOf(x, payments[k]) + LeftOf(x, q)
        /\ \A d \in Docs : PaidTo(d)' = PaidTo(d) - payments[k].alloc[d] + q.alloc[d]
    BY <1>1, <1>12, <1>14, Changed
  <2>2. p = payments[k] BY <1>2
  <2> QED BY <2>1, <2>2
<1>22. /\ doc' \in [Docs -> Document]
       /\ \A d \in Docs : Fits(d)' /\ doc'[d].paid = doc[d].paid + alloc[d]
       /\ Claims(Invoices)' = Claims(Invoices) - i
       /\ Claims(Bills)' = Claims(Bills) - b
  <2>1. Settle(alloc) BY <1>3
  <2> QED BY <1>1, <1>5, <1>18, <2>1, Settles DEF si, sb
<1>23. ASSUME NEW d \in Docs PROVE Fits(d)' /\ doc'[d].paid = PaidTo(d)'
  <2>1. PaidTo(d)' = PaidTo(d) - p.alloc[d] + more[d] BY <1>13, <1>21
  <2>2. doc[d].paid = PaidTo(d) /\ doc[d].paid \in Nat BY <1>1, DocTypes
  <2>3. p.alloc[d] \in Nat /\ alloc[d] \in Nat /\ more[d] = p.alloc[d] + alloc[d]
    BY <1>5, <1>8, <1>9
  <2>4. PaidTo(d)' = doc[d].paid + alloc[d] BY <2>1, <2>2, <2>3
  <2> QED BY <1>22, <2>4
<1>24. (\A j \in DOMAIN payments : Unallocated(payments[j]) >= 0)'
  <2>1. \A j \in DOMAIN payments' : Unallocated(payments'[j]) >= 0
    BY <1>1, <1>19, <1>20, <1>21
  <2> QED BY <2>1 DEF Unallocated, Allocated
<1>25. books' \in [Control -> Int] /\ BooksFit'
  <2>1. CASE p.dir = "inflow"
    <3>1. PICK l : l = [custAdvance |-> a - t, gst |-> t, receivable |-> 0 - a] OBVIOUS
    <3>2. Post(l)
      <4>1. l = [custAdvance |-> add - tax, gst |-> tax, receivable |-> 0 - add] BY <1>18, <3>1
      <4> QED BY <1>3, <2>1, <4>1 DEF add, tax
    <3>3. /\ DOMAIN l = {"custAdvance", "gst", "receivable"}
          /\ l["receivable"] = 0 - a /\ l["custAdvance"] = a - t /\ l["gst"] = t
          /\ \A x \in DOMAIN l : l[x] \in Int
      BY <3>1
    <3>4. /\ books' \in [Control -> Int]
          /\ \A x \in Control :
               books'[x] = books[x] + (IF x \in DOMAIN l THEN l[x] ELSE 0) /\ books[x] \in Int
      BY <1>1, <3>2, <3>3, Posted
    <3>5. /\ books'["receivable"] = books["receivable"] - a
          /\ books'["payable"] = books["payable"]
          /\ books'["custAdvance"] = books["custAdvance"] + a - t
          /\ books'["gst"] = books["gst"] + t
          /\ books'["suppAdvance"] = books["suppAdvance"]
          /\ books["custAdvance"] \in Int /\ books["gst"] \in Int
      BY <3>3, <3>4 DEF Control
    <3>6. Across(q) = Across(p) - b /\ Across(p) \in Int
      <4>1. Across(p) = 0 - SumFunctionOnSet(p.alloc, Bills) BY <2>1 DEF Across
      <4>2. Across(q) = 0 - SumFunctionOnSet(more, Bills) BY <1>13, <2>1 DEF Across
      <4> QED BY <1>16, <1>17, <1>18, <4>1, <4>2
    <3>7. /\ LeftOf("inflow", q) = LeftOf("inflow", p) - a /\ LeftOf("inflow", p) \in Int
          /\ LeftOf("outflow", q) = 0 /\ LeftOf("outflow", p) = 0
      BY <1>13, <1>19, <2>1 DEF LeftOf
    <3>8. /\ Crossed' = Crossed - Across(p) + Across(q)
          /\ Left("inflow")' = Left("inflow") - LeftOf("inflow", p) + LeftOf("inflow", q)
          /\ Left("outflow")' = Left("outflow") - LeftOf("outflow", p) + LeftOf("outflow", q)
      BY <1>21
    <3>9. /\ Crossed' = Crossed - b
          /\ Left("inflow")' = Left("inflow") - a /\ Left("outflow")' = Left("outflow")
      BY <3>6, <3>7, <3>8, BooksAre
    <3>10. /\ books'["receivable"] = Claims(Invoices)' + Crossed'
           /\ books'["payable"] = Crossed' - Claims(Bills)'
           /\ books'["custAdvance"] + books'["gst"] = 0 - Left("inflow")'
           /\ books'["suppAdvance"] = Left("outflow")'
      BY <1>18, <1>22, <3>5, <3>9, BooksAre
    <3> QED BY <3>4, <3>10 DEF BooksFit
  <2>2. CASE p.dir = "outflow"
    <3>1. PICK l : l = [payable |-> a, suppAdvance |-> 0 - a] OBVIOUS
    <3>2. Post(l)
      <4>1. l = [payable |-> add, suppAdvance |-> 0 - add] BY <1>18, <3>1
      <4> QED BY <1>3, <2>2, <4>1 DEF add
    <3>3. /\ DOMAIN l = {"payable", "suppAdvance"}
          /\ l["payable"] = a /\ l["suppAdvance"] = 0 - a
          /\ \A x \in DOMAIN l : l[x] \in Int
      BY <3>1
    <3>4. /\ books' \in [Control -> Int]
          /\ \A x \in Control :
               books'[x] = books[x] + (IF x \in DOMAIN l THEN l[x] ELSE 0) /\ books[x] \in Int
      BY <1>1, <3>2, <3>3, Posted
    <3>5. /\ books'["receivable"] = books["receivable"]
          /\ books'["payable"] = books["payable"] + a
          /\ books'["custAdvance"] = books["custAdvance"] /\ books'["gst"] = books["gst"]
          /\ books'["suppAdvance"] = books["suppAdvance"] - a
      BY <3>3, <3>4 DEF Control
    <3>6. Across(q) = Across(p) + i /\ Across(p) \in Int
      <4>1. Across(p) = SumFunctionOnSet(p.alloc, Invoices) BY <2>2 DEF Across
      <4>2. Across(q) = SumFunctionOnSet(more, Invoices) BY <1>13, <2>2 DEF Across
      <4> QED BY <1>16, <1>17, <1>18, <4>1, <4>2
    <3>7. /\ LeftOf("outflow", q) = LeftOf("outflow", p) - a /\ LeftOf("outflow", p) \in Int
          /\ LeftOf("inflow", q) = 0 /\ LeftOf("inflow", p) = 0
      BY <1>13, <1>19, <2>2 DEF LeftOf
    <3>8. /\ Crossed' = Crossed - Across(p) + Across(q)
          /\ Left("inflow")' = Left("inflow") - LeftOf("inflow", p) + LeftOf("inflow", q)
          /\ Left("outflow")' = Left("outflow") - LeftOf("outflow", p) + LeftOf("outflow", q)
      BY <1>21
    <3>9. /\ Crossed' = Crossed + i
          /\ Left("inflow")' = Left("inflow") /\ Left("outflow")' = Left("outflow") - a
      BY <3>6, <3>7, <3>8, BooksAre
    <3>10. /\ books'["receivable"] = Claims(Invoices)' + Crossed'
           /\ books'["payable"] = Crossed' - Claims(Bills)'
           /\ books'["custAdvance"] + books'["gst"] = 0 - Left("inflow")'
           /\ books'["suppAdvance"] = Left("outflow")'
      BY <1>18, <1>22, <3>5, <3>9, BooksAre
    <3> QED BY <3>4, <3>10 DEF BooksFit
  <2> QED BY <1>8, <2>1, <2>2
<1>26. SettlementTypeOK' BY <1>1, <1>4, <1>21, <1>22, <1>25 DEF SettlementTypeOK
<1> QED BY <1>23, <1>24, <1>25, <1>26 DEF SettlementInv

LEMMA RefundStep ==
  ASSUME SettlementInv, NEW k \in DOMAIN payments, Refund(k)
  PROVE  SettlementInv'
<1>1. /\ SettlementTypeOK /\ \A d \in Docs : Fits(d) /\ doc[d].paid = PaidTo(d)
      /\ \A j \in DOMAIN payments : Unallocated(payments[j]) >= 0
  BY DEF SettlementInv
<1>2. PICK p \in Payment : p = payments[k] BY <1>1, PaymentsAre
<1>3. PICK part \in Amounts :
        LET tax == TaxOf(Share(p, part))
        IN /\ part <= Unallocated(p)
           /\ Post([custAdvance |-> part - tax, gst |-> tax, bank |-> 0 - part])
           /\ payments' = [payments EXCEPT ![k].refunded = @ + part]
  BY <1>2 DEF Refund, MayUse
<1>4. p.dir = "inflow" /\ UNCHANGED <<doc, captured, handler>> BY <1>2 DEF Refund
<1>5. part \in Nat BY SettlementAssumption
<1>6. PICK t \in Int : t = TaxOf(Share(p, part))
  <2>1. part \in Int BY <1>5
  <2>2. TaxOf(Share(p, part)) \in Int BY <2>1, ShareType, TaxType
  <2> QED BY <2>2
<1>7. /\ p.alloc \in [Docs -> Nat] /\ p.amount \in Nat /\ p.refunded \in Nat
      /\ p = [dir |-> p.dir, amount |-> p.amount, alloc |-> p.alloc, refunded |-> p.refunded,
              tax |-> p.tax, pool |-> p.pool, ref |-> p.ref]
  BY DEF Payment
<1>8. PICK more : more = p.refunded + part OBVIOUS
<1>9. more \in Nat BY <1>5, <1>7, <1>8
<1>10. PICK q : q = [p EXCEPT !.refunded = more] OBVIOUS
<1>11. q = [dir |-> p.dir, amount |-> p.amount, alloc |-> p.alloc, refunded |-> more,
            tax |-> p.tax, pool |-> p.pool, ref |-> p.ref]
  BY <1>7, <1>10
<1>12. q \in Payment BY <1>7, <1>9, <1>11 DEF Payment
<1>13. q.dir = "inflow" /\ q.amount = p.amount /\ q.alloc = p.alloc /\ q.refunded = more
  BY <1>4, <1>11
<1>14. payments' = [payments EXCEPT ![k] = q] BY <1>2, <1>3, <1>8, <1>10
<1>15. SumFunctionOnSet(p.alloc, Docs) \in Nat BY <1>7, AllocationSums
<1>16. Unallocated(q) = Unallocated(p) - part /\ Unallocated(p) \in Int
  BY <1>5, <1>7, <1>8, <1>13, <1>15 DEF Unallocated, Allocated
<1>17. part <= Unallocated(p) BY <1>3
<1>18. /\ payments' \in Seq(Payment)
       /\ DOMAIN payments' = DOMAIN payments /\ payments'[k] = q
       /\ \A j \in DOMAIN payments : j # k => payments'[j] = payments[j]
       /\ Crossed' = Crossed - Across(payments[k]) + Across(q)
       /\ \A x : Left(x)' = Left(x) - LeftOf(x, payments[k]) + LeftOf(x, q)
       /\ \A d \in Docs : PaidTo(d)' = PaidTo(d) - payments[k].alloc[d] + q.alloc[d]
  BY <1>1, <1>12, <1>14, Changed
<1>19. /\ Claims(Invoices)' = Claims(Invoices) /\ Claims(Bills)' = Claims(Bills)
       /\ \A d \in Docs : Fits(d) => Fits(d)'
  BY <1>4, SameDocs
<1>20. ASSUME NEW d \in Docs PROVE Fits(d)' /\ doc'[d].paid = PaidTo(d)'
  <2>1. q.alloc[d] = payments[k].alloc[d] /\ q.alloc[d] \in Nat BY <1>2, <1>7, <1>13
  <2>2. doc[d].paid = PaidTo(d) /\ doc[d].paid \in Nat BY <1>1, DocTypes
  <2>3. PaidTo(d)' = PaidTo(d) - payments[k].alloc[d] + q.alloc[d] BY <1>18
  <2>4. PaidTo(d)' = doc[d].paid BY <2>1, <2>2, <2>3
  <2> QED BY <1>1, <1>4, <1>19, <2>4
<1>21. (\A j \in DOMAIN payments : Unallocated(payments[j]) >= 0)'
  <2>1. \A j \in DOMAIN payments' : Unallocated(payments'[j]) >= 0
    BY <1>1, <1>5, <1>16, <1>17, <1>18
  <2> QED BY <2>1 DEF Unallocated, Allocated
<1>22. books' \in [Control -> Int] /\ BooksFit'
  <2>1. PICK l : l = [custAdvance |-> part - t, gst |-> t, bank |-> 0 - part] OBVIOUS
  <2>2. Post(l)
    <3>1. Post([custAdvance |-> part - t, gst |-> t, bank |-> 0 - part])
      <4>1. Post([custAdvance |-> part - TaxOf(Share(p, part)), gst |-> TaxOf(Share(p, part)),
                  bank |-> 0 - part])
        BY <1>3
      <4> QED BY <1>6, <4>1
    <3> QED BY <2>1, <3>1
  <2>3. /\ DOMAIN l = {"custAdvance", "gst", "bank"}
        /\ l["custAdvance"] = part - t /\ l["gst"] = t
        /\ \A x \in DOMAIN l : l[x] \in Int
    BY <1>5, <2>1
  <2>4. /\ books' \in [Control -> Int]
        /\ \A x \in Control :
             books'[x] = books[x] + (IF x \in DOMAIN l THEN l[x] ELSE 0) /\ books[x] \in Int
    BY <1>1, <2>2, <2>3, Posted
  <2>5. /\ books'["receivable"] = books["receivable"]
        /\ books'["payable"] = books["payable"]
        /\ books'["custAdvance"] = books["custAdvance"] + part - t
        /\ books'["gst"] = books["gst"] + t
        /\ books'["suppAdvance"] = books["suppAdvance"]
        /\ books["custAdvance"] \in Int /\ books["gst"] \in Int
    BY <1>5, <2>3, <2>4 DEF Control
  <2>6. Across(q) = Across(p) /\ Across(p) \in Int BY <1>4, <1>13, PaymentSums DEF Across
  <2>7. /\ LeftOf("inflow", q) = LeftOf("inflow", p) - part /\ LeftOf("inflow", p) \in Int
        /\ LeftOf("outflow", q) = 0 /\ LeftOf("outflow", p) = 0
    BY <1>4, <1>13, <1>16 DEF LeftOf
  <2>8. /\ Crossed' = Crossed - Across(p) + Across(q)
        /\ Left("inflow")' = Left("inflow") - LeftOf("inflow", p) + LeftOf("inflow", q)
        /\ Left("outflow")' = Left("outflow") - LeftOf("outflow", p) + LeftOf("outflow", q)
    <3>1. p = payments[k] BY <1>2
    <3> QED BY <1>18, <3>1
  <2>9. /\ Crossed' = Crossed
        /\ Left("inflow")' = Left("inflow") - part /\ Left("outflow")' = Left("outflow")
    BY <1>5, <2>6, <2>7, <2>8, BooksAre
  <2>10. /\ books'["receivable"] = Claims(Invoices)' + Crossed'
         /\ books'["payable"] = Crossed' - Claims(Bills)'
         /\ books'["custAdvance"] + books'["gst"] = 0 - Left("inflow")'
         /\ books'["suppAdvance"] = Left("outflow")'
    BY <1>5, <1>19, <2>5, <2>9, BooksAre
  <2> QED BY <2>4, <2>10 DEF BooksFit
<1>23. SettlementTypeOK' BY <1>1, <1>4, <1>18, <1>22 DEF SettlementTypeOK
<1> QED BY <1>20, <1>21, <1>22, <1>23 DEF SettlementInv

LEMMA UnchangedStep ==
  ASSUME SettlementInv, UNCHANGED settlementVars
  PROVE  SettlementInv'
BY HandlerStep DEF SettlementInv, SettlementTypeOK, settlementVars

LEMMA SettlementNextStep ==
  ASSUME SettlementInv, [SettlementNext]_settlementVars
  PROVE  SettlementInv'
<1>1. CASE UNCHANGED settlementVars BY <1>1, UnchangedStep
<1>2. ASSUME NEW d \in Docs, Draft(d) \/ Issue(d) \/ Cancel(d) \/ ReverseEntry(d)
      PROVE  SettlementInv'
  BY <1>2, DraftStep, IssueStep, CancelStep, ReverseStep
<1>3. ASSUME NEW i \in Invoices, FlipOverdue(i) PROVE SettlementInv' BY <1>3, FlipStep
<1>4. ASSUME NEW dir \in {"inflow", "outflow"}, Pay(dir) PROVE SettlementInv' BY <1>4, PayStep
<1>5. ASSUME NEW k \in DOMAIN payments, Allocate(k) \/ Refund(k) PROVE SettlementInv'
  BY <1>5, AllocateStep, RefundStep
<1>6. ASSUME NEW e \in Captures, Capture(e) PROVE SettlementInv' BY <1>6, CaptureStep
<1>7. ASSUME NEW h \in Handlers, Deliver(h) \/ RecordPayment(h) \/ Fail(h) PROVE SettlementInv'
  BY <1>7, DeliverStep, RecordStep, FailStep
<1> QED BY <1>1, <1>2, <1>3, <1>4, <1>5, <1>6, <1>7 DEF SettlementNext

LEMMA SettlementStarts == SettlementInit => SettlementInv
<1> SUFFICES ASSUME SettlementInit PROVE SettlementInv OBVIOUS
<1>1. /\ doc = [d \in Docs |-> Absent] /\ payments = <<>> /\ books = [a \in Control |-> 0]
      /\ captured = {} /\ handler = [h \in Handlers |-> IdleHandler]
  BY DEF SettlementInit
<1>2. Absent \in Document BY DEF Absent, Document, Statuses
<1>3. SettlementTypeOK BY <1>1, <1>2 DEF SettlementTypeOK, Handling
<1>4. DOMAIN payments = {} BY <1>1
<1>5. Crossed = 0 /\ Left("inflow") = 0 /\ Left("outflow") = 0 BY <1>4, SumEmpty DEF Crossed, Left
<1>6. \A d \in Docs : PaidTo(d) = 0 BY <1>4, SumEmpty DEF PaidTo
<1>7. \A d \in Docs : doc[d] = Absent BY <1>1
<1>8. \A d \in Docs : Fits(d) /\ doc[d].paid = PaidTo(d)
  BY <1>6, <1>7 DEF Fits, FitsAs, Absent
<1>9. ASSUME NEW D \in SUBSET Docs PROVE Claims(D) = 0
  <2>1. \A d \in D : [d1 \in D |-> Claim(d1)][d] = 0 BY <1>7 DEF Claim, ClaimAs, Absent
  <2>2. IsFiniteSet(D) BY DocsFinite, FS_Subset
  <2> QED BY <2>1, <2>2, SumZero DEF Claims
<1>10. Claims(Invoices) = 0 /\ Claims(Bills) = 0 BY <1>9, DocsFinite
<1>11. BooksFit BY <1>1, <1>5, <1>10 DEF BooksFit, Control
<1> QED BY <1>3, <1>4, <1>8, <1>11 DEF SettlementInv

LEMMA CreatedOnce ==
  ASSUME SettlementTypeOK, RecordedOnce, NEW dir, NEW amount, NEW alloc, NEW rated, NEW ref,
         Create(dir, amount, alloc, rated, ref), ref = NoRef \/ ~Recorded(ref)
  PROVE  RecordedOnce'
<1>1. PICK p : payments' = Append(payments, p) /\ p.ref = ref BY DEF Create
<1>2. PICK n \in Nat : n = Len(payments) /\ DOMAIN payments = 1..n BY PaymentsAre
<1>3. /\ DOMAIN payments' = 1..n + 1 /\ payments'[n + 1] = p
      /\ \A j \in 1..n : payments'[j] = payments[j]
  <2>1. payments \in Seq(Payment) BY DEF SettlementTypeOK
  <2> QED BY <1>1, <1>2, <2>1
<1>4. \A j \in 1..n + 1 : j = n + 1 \/ j \in 1..n BY <1>2
<1>5. ref = NoRef \/ \A j \in 1..n : payments[j].ref # ref BY <1>2 DEF Recorded
<1>6. ASSUME NEW k \in DOMAIN payments', NEW m \in DOMAIN payments', payments'[k].ref # NoRef,
             payments'[k].ref = payments'[m].ref
      PROVE  k = m
  <2>1. CASE k \in 1..n /\ m \in 1..n BY <1>2, <1>3, <1>6, <2>1 DEF RecordedOnce
  <2>2. CASE k = n + 1 /\ m \in 1..n BY <1>1, <1>3, <1>5, <1>6, <2>2
  <2>3. CASE k \in 1..n /\ m = n + 1 BY <1>1, <1>3, <1>5, <1>6, <2>3
  <2> QED BY <1>3, <1>4, <2>1, <2>2, <2>3
<1> QED BY <1>6 DEF RecordedOnce

LEMMA SameRefs ==
  ASSUME RecordedOnce, DOMAIN payments' = DOMAIN payments,
         \A k \in DOMAIN payments : payments'[k].ref = payments[k].ref
  PROVE  RecordedOnce'
BY DEF RecordedOnce

LEMMA RecordedOnceStep ==
  ASSUME SettlementInv, RecordedOnce, [SettlementNext]_settlementVars
  PROVE  RecordedOnce'
<1>0. SettlementTypeOK BY DEF SettlementInv
<1>1. CASE UNCHANGED payments BY <1>1 DEF RecordedOnce
<1>2. ASSUME NEW dir \in {"inflow", "outflow"}, Pay(dir) PROVE RecordedOnce'
  BY <1>0, <1>2, CreatedOnce DEF Pay
<1>3. ASSUME NEW h \in Handlers, RecordPayment(h) PROVE RecordedOnce'
  BY <1>0, <1>3, CreatedOnce DEF RecordPayment
<1>4. ASSUME NEW k \in DOMAIN payments, Allocate(k) PROVE RecordedOnce'
  <2>1. PICK more : payments' = [payments EXCEPT ![k].alloc = more] BY <1>4 DEF Allocate
  <2>2. \A j \in DOMAIN payments : payments[j] \in Payment BY <1>0, PaymentsAre
  <2>3. [payments[k] EXCEPT !.alloc = more].ref = payments[k].ref BY <2>2 DEF Payment
  <2> QED BY <2>1, <2>3, SameRefs
<1>5. ASSUME NEW k \in DOMAIN payments, Refund(k) PROVE RecordedOnce'
  <2>1. PICK more : payments' = [payments EXCEPT ![k].refunded = more] BY <1>5 DEF Refund
  <2>2. \A j \in DOMAIN payments : payments[j] \in Payment BY <1>0, PaymentsAre
  <2>3. [payments[k] EXCEPT !.refunded = more].ref = payments[k].ref BY <2>2 DEF Payment
  <2> QED BY <2>1, <2>3, SameRefs
<1> QED BY <1>1, <1>2, <1>3, <1>4, <1>5
        DEF SettlementNext, settlementVars, Draft, Issue, Cancel, ReverseEntry, FlipOverdue, Capture, Deliver, Fail

\* However often, and however concurrently, the event of a captured payment is
\* delivered, it is one payment: the unique index on the reference, inside the
\* transaction that creates it, not the check the handler makes before.
THEOREM CapturesRecordedOnce == SettlementSpec => []RecordedOnce
<1>1. SettlementInit => SettlementInv /\ RecordedOnce
  <2>1. SettlementInit => RecordedOnce BY DEF SettlementInit, RecordedOnce
  <2> QED BY <2>1, SettlementStarts
<1>2. SettlementInv /\ RecordedOnce /\ [SettlementNext]_settlementVars => SettlementInv' /\ RecordedOnce'
  BY SettlementNextStep, RecordedOnceStep
<1> QED BY <1>1, <1>2, PTL DEF SettlementSpec

\* Whatever sequence of handlers, the books say what the documents say, the
\* documents what the payments say, and the payments what was captured.
THEOREM DocumentsMatch == SettlementSpec => []DocumentsMatchBooks
<1>1. SettlementInit => SettlementInv BY SettlementStarts
<1>2. SettlementInv /\ [SettlementNext]_settlementVars => SettlementInv' BY SettlementNextStep
<1>3. SettlementInv /\ RecordedOnce => DocumentsMatchBooks BY InvMatches DEF DocumentsMatchBooks
<1> QED BY <1>1, <1>2, <1>3, CapturesRecordedOnce, PTL DEF SettlementSpec

\* The screens that add up what is owed agree, whatever documents live through.
THEOREM ScreensSayTheSame == SettlementSpec => []ScreensAgree
<1>1. SettlementInit => SettlementInv BY SettlementStarts
<1>2. SettlementInv /\ [SettlementNext]_settlementVars => SettlementInv' BY SettlementNextStep
<1>3. SettlementInv => ScreensAgree BY InvScreens
<1> QED BY <1>1, <1>2, <1>3, PTL DEF SettlementSpec

-----------------------------------------------------------------------------
(* Reconciliation: what is well typed, and the invariant *)

Places  == {"idle", "post", "check", "record", "save", "method", "ok", "refused"}
Entry   == Books \cup Nat
BankRow == [print : Range(Statement), status : {"unreconciled", "reconciled"}]
Rec     == [line : Nat, entry : Entry, method : {"suggested", "manual", "created"}]
Job     == [pc : Places, kind : {"confirm", "make"},
            todo : Seq([line : Nat, entry : Entry \cup {None}]), at : Nat,
            own : Nat \cup {None}, before : SUBSET Requests, alive : BOOLEAN]

\* The collections and the requests are well typed, and refer to lines that exist.
ReconciliationTypeOK ==
  /\ lines \in Seq(BankRow)
  /\ records \subseteq Rec
  /\ made \in Seq(Nat)
  /\ upload \in [Uploads -> [row : Nat, on : BOOLEAN]]
  /\ req \in [Requests -> Job]

\* A reconciliation is one of a line there is, with an entry there is.
EntriesMade == Books \cup 1..Len(made)
RecordsRefer == \A rec \in records : rec.line \in 1..Len(lines) /\ rec.entry \in EntriesMade

\* There is one line for every row imported so far.
RowsAreThere ==
  /\ \A m, n \in 1..Len(lines) : lines[m].print = lines[n].print => m = n
  /\ \A u \in Uploads :
       /\ upload[u].row \in 1..(Len(Statement) + 1)
       /\ \A i \in 1..(upload[u].row - 1) :
            \E n \in 1..Len(lines) : lines[n].print = Statement[i]

Has(m) == \E rec \in records : rec.line = m.line /\ rec.entry = m.entry
Marked(n) == lines[n].status = "reconciled"

\* A request goes through its matches in order: those it has passed are done, and
\* before it marks a line it has made the reconciliation.
KeepsOrder(r) ==
  LET w == req[r] IN
  /\ w.at \in 1..(Len(w.todo) + 1)
  /\ w.pc \notin {"idle", "ok"} => w.at \in 1..Len(w.todo)
  /\ w.pc = "ok" => w.at = Len(w.todo) + 1
  /\ \A k \in 1..Len(w.todo) : w.todo[k].line \in 1..Len(lines)
  /\ \A k \in 1..(w.at - 1) : Marked(w.todo[k].line) /\ Has(w.todo[k])
  /\ w.pc \in {"save", "method"} => Has(w.todo[w.at])
  /\ w.pc = "method" => Marked(w.todo[w.at].line)

\* A request that confirms names entries of the documents; one that makes an entry
\* has one match, which names that entry once it is posted.
KnowsEntry(r) ==
  LET w == req[r] IN
  /\ w.kind = "confirm" =>
       /\ w.own = None /\ w.pc \notin {"post", "method"}
       /\ \A k \in 1..Len(w.todo) : w.todo[k].entry \in Books
  /\ w.kind = "make" => Len(w.todo) = 1
  /\ w.kind = "make" /\ w.own = None =>
       w.pc \in {"post", "refused"} /\ w.todo[1].entry = None
  /\ w.kind = "make" /\ w.own # None =>
       /\ w.pc # "post" /\ w.own \in 1..Len(made)
       /\ w.todo[1].entry = w.own /\ made[w.own] = w.todo[1].line

MarksRecorded ==
  \A n \in 1..Len(lines) :
    /\ Marked(n) => \E rec \in records : rec.line = n
    /\ (\E rec \in records : rec.line = n) /\ ~Marked(n) =>
         \E r \in Requests : req[r].pc = "save" /\ req[r].todo[req[r].at].line = n

\* What r was told is done before s began, s does not take up.
LeavesAlone(s, r) ==
  req[r].pc = "ok" =>
    \A k \in 1..Len(req[r].todo) :
      /\ req[s].kind = "make" => req[s].todo[1].line # req[r].todo[k].line
      /\ \A l \in 1..Len(req[s].todo) : req[r].todo[k].entry # req[s].todo[l].entry

BeginsAfter ==
  \A s \in Requests : \A r \in req[s].before :
    req[r].pc \in {"ok", "refused"} /\ LeavesAlone(s, r)

IInv ==
  /\ ReconciliationTypeOK /\ RecordsRefer /\ RowsAreThere /\ MarksRecorded
  /\ \A r \in Requests : KeepsOrder(r) /\ KnowsEntry(r)
  /\ BeginsAfter

-----------------------------------------------------------------------------
(* What grows, and what it leaves as it was *)

USE DEF Marked, Has

Reads(n, m) == lines'[n].print = lines[m].print /\ (Marked(m) => Marked(n)')

\* Lines, reconciliations and entries stay, whatever is added to them.
Grows ==
  /\ \A n \in 1..Len(lines) : n \in 1..Len(lines') /\ Reads(n, n)
  /\ \A rec \in records : \E new \in records' : new.line = rec.line /\ new.entry = rec.entry
  /\ \A n \in 1..Len(made) : n \in 1..Len(made') /\ made'[n] = made[n]

\* Nothing of the request changes, but that its process may die.
Rests(r) ==
  /\ req'[r].pc = req[r].pc /\ req'[r].kind = req[r].kind /\ req'[r].todo = req[r].todo
  /\ req'[r].at = req[r].at /\ req'[r].own = req[r].own /\ req'[r].before = req[r].before

LEMMA JobOf == ASSUME ReconciliationTypeOK, NEW r \in Requests PROVE req[r] \in Job
BY DEF ReconciliationTypeOK

LEMMA RestingKeepsOrder ==
  ASSUME NEW r, Rests(r), Grows, KeepsOrder(r)
  PROVE  KeepsOrder(r)'
<1>1. \A k \in 1..Len(req[r].todo) :
        /\ req[r].todo[k].line \in 1..Len(lines')
        /\ Marked(req[r].todo[k].line) => lines'[req[r].todo[k].line].status = "reconciled"
        /\ Has(req[r].todo[k]) =>
             \E rec \in records' : rec.line = req[r].todo[k].line /\ rec.entry = req[r].todo[k].entry
  BY DEF Grows, KeepsOrder, Reads
<1>2. \A k \in 1..(req[r].at - 1) : k \in 1..Len(req[r].todo)
  BY DEF KeepsOrder
<1>3. \A k \in 1..(req[r].at - 1) :
        /\ lines'[req[r].todo[k].line].status = "reconciled"
        /\ \E rec \in records' : rec.line = req[r].todo[k].line /\ rec.entry = req[r].todo[k].entry
  BY <1>1, <1>2 DEF KeepsOrder
<1>4. req[r].pc \in {"save", "method"} => req[r].at \in 1..Len(req[r].todo)
  BY DEF KeepsOrder
<1>5. req[r].pc \in {"save", "method"} =>
        \E rec \in records' : /\ rec.line = req[r].todo[req[r].at].line
                              /\ rec.entry = req[r].todo[req[r].at].entry
  BY <1>1, <1>4 DEF KeepsOrder
<1>6. req[r].pc = "method" => lines'[req[r].todo[req[r].at].line].status = "reconciled"
  BY <1>1, <1>4 DEF KeepsOrder
<1>7. \A k \in 1..Len(req[r].todo) : req[r].todo[k].line \in 1..Len(lines')
  BY <1>1
<1>8. /\ req[r].at \in 1..(Len(req[r].todo) + 1)
      /\ req[r].pc \notin {"idle", "ok"} => req[r].at \in 1..Len(req[r].todo)
      /\ req[r].pc = "ok" => req[r].at = Len(req[r].todo) + 1
  BY DEF KeepsOrder
<1>9. PICK w : /\ w = req'[r]
               /\ w.pc = req[r].pc /\ w.todo = req[r].todo /\ w.at = req[r].at
  BY DEF Rests
<1>10. /\ w.at \in 1..(Len(w.todo) + 1)
       /\ w.pc \notin {"idle", "ok"} => w.at \in 1..Len(w.todo)
       /\ w.pc = "ok" => w.at = Len(w.todo) + 1
  BY <1>8, <1>9
<1>11. /\ \A k \in 1..Len(w.todo) : w.todo[k].line \in 1..Len(lines')
       /\ \A k \in 1..(w.at - 1) : Marked(w.todo[k].line)' /\ Has(w.todo[k])'
  BY <1>3, <1>7, <1>9
<1>12. /\ w.pc \in {"save", "method"} => Has(w.todo[w.at])'
       /\ w.pc = "method" => Marked(w.todo[w.at].line)'
  BY <1>5, <1>6, <1>9
<1> QED BY <1>9, <1>10, <1>11, <1>12 DEF KeepsOrder

LEMMA RestingKnowsEntry ==
  ASSUME NEW r, Rests(r), Grows, KnowsEntry(r)
  PROVE  KnowsEntry(r)'
BY DEF KnowsEntry, Rests, Grows

\* A step of one request, that was not at its end, and that changes neither the kind of
\* it nor its matches, concerns nobody who begins later.
LEMMA BeginsAfterStays ==
  ASSUME BeginsAfter, ReconciliationTypeOK, NEW a \in Requests, req[a].pc \notin {"ok", "refused"},
         req'[a].kind = req[a].kind, req'[a].todo = req[a].todo, req'[a].before = req[a].before,
         \A r \in Requests : r # a => Rests(r)
  PROVE  BeginsAfter'
<1> SUFFICES ASSUME NEW s \in Requests, NEW r \in req'[s].before
             PROVE  req'[r].pc \in {"ok", "refused"} /\ LeavesAlone(s, r)'
  BY DEF BeginsAfter
<1>1. r \in req[s].before /\ r \in Requests
  BY JobOf DEF Job, Rests
<1>2. req[r].pc \in {"ok", "refused"} /\ LeavesAlone(s, r) BY <1>1 DEF BeginsAfter
<1>3. Rests(r) BY <1>1, <1>2
<1>4. req'[s].kind = req[s].kind /\ req'[s].todo = req[s].todo BY DEF Rests
<1> QED BY <1>2, <1>3, <1>4 DEF LeavesAlone, Rests

\* Marks and reconciliations fit while neither changes and who is about to mark is left so.
LEMMA MarksStay ==
  ASSUME MarksRecorded, lines' = lines,
         \A n \in 1..Len(lines) :
           (\E rec \in records' : rec.line = n) <=> (\E rec \in records : rec.line = n),
         \A r \in Requests : req[r].pc = "save" => Rests(r)
  PROVE  MarksRecorded'
BY DEF MarksRecorded, Rests

LEMMA OthersRest ==
  ASSUME IInv, Grows, NEW a, \A r \in Requests : r # a => Rests(r),
         a \in Requests => KeepsOrder(a)' /\ KnowsEntry(a)'
  PROVE  \A r \in Requests : KeepsOrder(r)' /\ KnowsEntry(r)'
<1> TAKE r \in Requests
<1>1. CASE r = a BY <1>1
<1>2. CASE r # a
  BY <1>2, RestingKeepsOrder, RestingKnowsEntry DEF IInv
<1> QED BY <1>1, <1>2

LEMMA RowsStay ==
  ASSUME RowsAreThere, upload' = upload, Len(lines') = Len(lines),
         \A n \in 1..Len(lines) : lines'[n].print = lines[n].print
  PROVE  RowsAreThere'
BY DEF RowsAreThere

\* What a request was told is done is done.
LEMMA OkHas ==
  ASSUME IInv, NEW r \in Requests, req[r].pc = "ok", NEW k \in 1..Len(req[r].todo)
  PROVE  /\ Has(req[r].todo[k]) /\ Marked(req[r].todo[k].line)
         /\ req[r].todo[k].entry \in EntriesMade /\ req[r].todo[k].entry # None
<1>1. Len(req[r].todo) \in Nat BY JobOf, LenProperties DEF IInv, Job
<1>2. Has(req[r].todo[k]) /\ Marked(req[r].todo[k].line) BY <1>1 DEF IInv, KeepsOrder
<1>3. req[r].todo[k].entry \in EntriesMade BY <1>2 DEF IInv, RecordsRefer
<1>4. None \notin Books /\ None \notin 1..Len(made) BY ReconciliationAssumption
<1> QED BY <1>2, <1>3, <1>4 DEF EntriesMade

\* A page of suggestions is finite, for it has each line once.
LEMMA OfferedMatches ==
  ASSUME IInv, NEW S \in Offers, NEW todo \in SetToSeqs(S)
  PROVE  /\ todo \in Seq([line : Nat, entry : Entry \cup {None}]) /\ Len(todo) \in Nat \ {0}
         /\ \A k \in 1..Len(todo) : /\ todo[k].line \in 1..Len(lines)
                                    /\ todo[k].entry \in Books \ Matched
<1> DEFINE f == [m \in S |-> m.line]
<1>1. /\ S # {}
      /\ \A m \in S : m.line \in 1..Len(lines) /\ m.entry \in Books \ Matched
      /\ \A m \in S : m = [line |-> m.line, entry |-> m.entry]
      /\ \A m, k \in S : m.line = k.line => m = k
  <2>1. DOMAIN lines = 1..Len(lines) BY LenProperties DEF IInv, ReconciliationTypeOK
  <2> QED BY <2>1 DEF Offers, Unreconciled
<1>2. Len(lines) \in Nat BY LenProperties DEF IInv, ReconciliationTypeOK
<1>3. IsFiniteSet(S)
  <2>1. IsFiniteSet(1..Len(lines)) BY <1>2, FS_Interval
  <2>2. f \in [S -> 1..Len(lines)] /\ \A m, k \in S : f[m] = f[k] => m = k BY <1>1
    <2>3. f \in Injection(S, 1..Len(lines)) BY <2>2, Zenon DEF Injection, IsInjective
  <2> HIDE DEF f
  <2> QED BY <2>1, <2>3, FS_Injection
<1>4. Cardinality(S) \in Nat \ {0} BY <1>1, <1>3, FS_CardinalityType, FS_EmptySet
<1>5. todo \in [1..Cardinality(S) -> S] BY DEF SetToSeqs
<1>6. todo \in Seq(S) /\ Len(todo) = Cardinality(S) BY <1>4, <1>5
<1>7. S \subseteq [line : Nat, entry : Entry \cup {None}] BY <1>1, <1>2 DEF Entry
<1>8. \A k \in 1..Len(todo) : todo[k] \in S BY <1>5, <1>6
<1> QED BY <1>1, <1>4, <1>6, <1>7, <1>8, SeqMonotonic

LEMMA ConfirmInv == ASSUME IInv, NEW a \in Requests, Confirm(a) PROVE IInv'
<1>1. PICK todo \in Seq([line : Nat, entry : Entry \cup {None}]) :
        /\ req' = [req EXCEPT ![a] = [Idle EXCEPT !.pc = "check", !.todo = todo, !.before = Ended]]
        /\ Len(todo) \in Nat \ {0}
        /\ \A k \in 1..Len(todo) : /\ todo[k].line \in 1..Len(lines)
                                   /\ todo[k].entry \in Books \ Matched
  BY OfferedMatches DEF Confirm
<1>21. /\ Len(todo) \in Nat \ {0}
       /\ \A k \in 1..Len(todo) : /\ todo[k].line \in 1..Len(lines)
                                  /\ todo[k].entry \in Books \ Matched
  BY <1>1
<1>2. /\ lines' = lines /\ records' = records /\ made' = made /\ upload' = upload
      /\ req[a].pc = "idle"
  BY DEF Confirm, At
<1>3. req \in [Requests -> Job] BY DEF IInv, ReconciliationTypeOK
<1>4. /\ req'[a] = [pc |-> "check", kind |-> "confirm", todo |-> todo, at |-> 1, own |-> None,
                    before |-> Ended, alive |-> TRUE]
      /\ \A r \in Requests : r # a => req'[r] = req[r]
  BY <1>1, <1>3 DEF Idle
<1>5. Ended \in SUBSET Requests BY DEF Ended
<1>6. req'[a] \in Job BY <1>4, <1>5 DEF Job, Places
<1>7. ReconciliationTypeOK'
  BY <1>1, <1>2, <1>4, <1>6 DEF IInv, ReconciliationTypeOK
<1>8. Grows BY <1>2 DEF Grows, Reads
<1>9. \A r \in Requests : r # a => Rests(r) BY <1>4 DEF Rests
<1>10. KeepsOrder(a)' BY <1>21, <1>2, <1>4 DEF KeepsOrder
<1>11. KnowsEntry(a)' BY <1>21, <1>2, <1>4 DEF KnowsEntry
<1>12. BeginsAfter'
  <2> SUFFICES ASSUME NEW s \in Requests, NEW r \in req'[s].before
               PROVE  req'[r].pc \in {"ok", "refused"} /\ LeavesAlone(s, r)'
    BY DEF BeginsAfter
  <2>1. CASE s = a
    <3>1. r \in Requests /\ req[r].pc \in {"ok", "refused"} BY <2>1, <1>4 DEF Ended
    <3>2. r # a /\ req'[r] = req[r] BY <3>1, <1>2, <1>4
    <3>3. ASSUME req[r].pc = "ok", NEW k \in 1..Len(req[r].todo)
          PROVE  req[r].todo[k].entry \in Matched
      <4>1. r \in Requests /\ req[r].pc = "ok" /\ k \in 1..Len(req[r].todo) BY <3>1, <3>3
      <4>2. Has(req[r].todo[k]) BY <4>1, IInv, OkHas
      <4> QED BY <4>2 DEF Matched
    <3>4. LeavesAlone(a, r)' BY <3>2, <3>3, <1>21, <1>4 DEF LeavesAlone
    <3> QED BY <2>1, <3>1, <3>2, <3>4
  <2>2. CASE s # a
    <3>1. r \in req[s].before /\ r \in Requests BY <2>2, <1>4, <1>3 DEF Job
    <3>2. req[r].pc \in {"ok", "refused"} /\ LeavesAlone(s, r) BY <3>1 DEF IInv, BeginsAfter
    <3>3. req'[r] = req[r] /\ req'[s] = req[s] BY <3>1, <3>2, <2>2, <1>2, <1>4
    <3> QED BY <3>2, <3>3 DEF LeavesAlone
  <2> QED BY <2>1, <2>2
<1>13. MarksRecorded' BY <1>2, <1>4, <1>9, MarksStay DEF IInv
<1>14. RowsAreThere' BY <1>2, RowsStay DEF IInv
<1>15. RecordsRefer' BY <1>2 DEF IInv, RecordsRefer, EntriesMade
<1>16. \A r \in Requests : KeepsOrder(r)' /\ KnowsEntry(r)'
  BY <1>8, <1>9, <1>10, <1>11, OthersRest
<1> QED BY <1>7, <1>12, <1>13, <1>14, <1>15, <1>16 DEF IInv

LEMMA MakeInv == ASSUME IInv, NEW a \in Requests, Make(a) PROVE IInv'
<1>0. \A n \in Unreconciled : n \in 1..Len(lines) /\ n \in Nat /\ ~Marked(n)
  <2>1. DOMAIN lines = 1..Len(lines) /\ Len(lines) \in Nat
    BY LenProperties DEF IInv, ReconciliationTypeOK
  <2> QED BY <2>1 DEF Unreconciled
<1>1. PICK n \in Unreconciled, todo \in Seq([line : Nat, entry : Entry \cup {None}]) :
        /\ req' = [req EXCEPT ![a] = [Idle EXCEPT !.pc = "post", !.kind = "make",
                                                  !.before = Ended, !.todo = todo]]
        /\ Len(todo) = 1 /\ todo[1].line = n /\ todo[1].entry = None
  <2>1. PICK n \in Unreconciled :
          req' = [req EXCEPT ![a] = [Idle EXCEPT !.pc = "post", !.kind = "make", !.before = Ended,
                                                 !.todo = <<[line |-> n, entry |-> None]>>]]
    BY DEF Make
  <2> DEFINE todo == <<[line |-> n, entry |-> None]>>
  <2>2. /\ todo \in Seq([line : Nat, entry : Entry \cup {None}])
        /\ Len(todo) = 1 /\ todo[1].line = n /\ todo[1].entry = None
    BY <1>0
  <2> QED BY <2>1, <2>2
<1>2. /\ lines' = lines /\ records' = records /\ made' = made /\ upload' = upload
      /\ req[a].pc = "idle"
  BY DEF Make, At
<1>3. req \in [Requests -> Job] BY DEF IInv, ReconciliationTypeOK
<1>4. /\ req'[a] = [pc |-> "post", kind |-> "make", todo |-> todo, at |-> 1, own |-> None,
                    before |-> Ended, alive |-> TRUE]
      /\ \A r \in Requests : r # a => req'[r] = req[r]
  BY <1>1, <1>3 DEF Idle
<1>5. Ended \in SUBSET Requests BY DEF Ended
<1>22. Len(todo) = 1 /\ todo[1].line = n /\ todo[1].entry = None BY <1>1
<1>23. \A k \in 1..Len(todo) : k = 1 BY <1>22
<1>6. req'[a] \in Job BY <1>4, <1>5 DEF Job, Places
<1>7. ReconciliationTypeOK'
  BY <1>1, <1>2, <1>4, <1>6 DEF IInv, ReconciliationTypeOK
<1>8. Grows BY <1>2 DEF Grows, Reads
<1>9. \A r \in Requests : r # a => Rests(r) BY <1>4 DEF Rests
<1>24. /\ req'[a].at = 1 /\ req'[a].pc = "post" /\ req'[a].todo = todo
       /\ req'[a].kind = "make" /\ req'[a].before = Ended
  BY <1>4
<1>25. n \in 1..Len(lines) BY <1>0
<1>10. KeepsOrder(a)'
  <2>1. \A k \in 1..Len(todo) : todo[k].line \in 1..Len(lines') BY <1>22, <1>23, <1>25, <1>2
  <2>2. 1 \in 1..(Len(todo) + 1) /\ 1 \in 1..Len(todo) /\ \A k \in 1..(1 - 1) : FALSE BY <1>22
  <2> QED BY <2>1, <2>2, <1>24 DEF KeepsOrder
<1>11. KnowsEntry(a)' BY <1>22, <1>2, <1>4 DEF KnowsEntry
<1>12. BeginsAfter'
  <2> SUFFICES ASSUME NEW s \in Requests, NEW r \in req'[s].before
               PROVE  req'[r].pc \in {"ok", "refused"} /\ LeavesAlone(s, r)'
    BY DEF BeginsAfter
  <2>1. CASE s = a
    <3>1. r \in Requests /\ req[r].pc \in {"ok", "refused"} BY <2>1, <1>4 DEF Ended
    <3>2. r # a /\ req'[r] = req[r] BY <3>1, <1>2, <1>4
    <3>3. ASSUME req[r].pc = "ok", NEW k \in 1..Len(req[r].todo)
          PROVE  req[r].todo[k].entry # None /\ req[r].todo[k].line # n
      BY <3>1, <3>3, <1>0, OkHas
    <3>4. LeavesAlone(a, r)' BY <3>2, <3>3, <1>24, <1>22, <1>23 DEF LeavesAlone
    <3> QED BY <2>1, <3>1, <3>2, <3>4
  <2>2. CASE s # a
    <3>1. r \in req[s].before /\ r \in Requests BY <2>2, <1>4, <1>3 DEF Job
    <3>2. req[r].pc \in {"ok", "refused"} /\ LeavesAlone(s, r) BY <3>1 DEF IInv, BeginsAfter
    <3>3. req'[r] = req[r] /\ req'[s] = req[s] BY <3>1, <3>2, <2>2, <1>2, <1>4
    <3> QED BY <3>2, <3>3 DEF LeavesAlone
  <2> QED BY <2>1, <2>2
<1>13. MarksRecorded' BY <1>2, <1>4, <1>9, MarksStay DEF IInv
<1>14. RowsAreThere' BY <1>2, RowsStay DEF IInv
<1>15. RecordsRefer' BY <1>2 DEF IInv, RecordsRefer, EntriesMade
<1>16. \A r \in Requests : KeepsOrder(r)' /\ KnowsEntry(r)'
  BY <1>8, <1>9, <1>10, <1>11, OthersRest
<1> QED BY <1>7, <1>12, <1>13, <1>14, <1>15, <1>16 DEF IInv

LEMMA PostEntryInv == ASSUME IInv, NEW a \in Requests, PostEntry(a) PROVE IInv'
<1> DEFINE w == req[a]
           e == Len(made) + 1
           todo == [w.todo EXCEPT ![1].entry = e]
<1>1. /\ lines' = lines /\ records' = records /\ upload' = upload
      /\ made' = Append(made, w.todo[w.at].line)
      /\ req' = [req EXCEPT ![a].pc = "check", ![a].own = e, ![a].todo[1].entry = e]
      /\ w.pc = "post"
  BY DEF PostEntry, At, Match
<1>2. w \in Job /\ req \in [Requests -> Job] /\ made \in Seq(Nat) /\ Len(made) \in Nat
  BY JobOf, LenProperties DEF IInv, ReconciliationTypeOK
<1>3. /\ w.kind = "make" /\ w.own = None /\ Len(w.todo) = 1 /\ w.at = 1
      /\ w.todo[1].line \in 1..Len(lines) /\ w.todo[1].entry = None
  <2>1. w.kind = "make" BY <1>1, <1>2 DEF IInv, KnowsEntry, Job
  <2>2. w.own = None /\ Len(w.todo) = 1 /\ w.todo[1].entry = None
    BY <2>1, <1>1 DEF IInv, KnowsEntry
  <2>3. w.at \in 1..1 BY <1>1, <2>2 DEF IInv, KeepsOrder
  <2> QED BY <2>1, <2>2, <2>3 DEF IInv, KeepsOrder
<1>4. /\ todo \in Seq([line : Nat, entry : Entry \cup {None}])
      /\ Len(todo) = 1 /\ todo[1].line = w.todo[1].line /\ todo[1].entry = e
  <2>1. w.todo \in Seq([line : Nat, entry : Entry \cup {None}]) BY <1>2 DEF Job
  <2>2. todo = [w.todo EXCEPT ![1] = [w.todo[1] EXCEPT !.entry = e]]
    BY <2>1, <1>3
  <2>5. 1 \in 1..Len(w.todo) BY <1>3
  <2>3. w.todo[1] \in [line : Nat, entry : Entry \cup {None}]
    <3> HIDE DEF w
    <3> QED BY <2>1, <2>5, ElementOfSeq
  <2>4. [w.todo[1] EXCEPT !.entry = e] \in [line : Nat, entry : Entry \cup {None}]
    BY SMTT(30), <2>3, <1>2 DEF Entry
  <2> HIDE DEF todo
  <2> QED BY <2>1, <2>2, <2>3, <2>4, <1>3, ExceptSeq
<1>5. /\ req'[a].pc = "check" /\ req'[a].own = e /\ req'[a].todo = todo /\ req'[a].kind = "make"
      /\ req'[a].at = 1 /\ req'[a].before = w.before /\ req'[a].alive = w.alive
      /\ \A r \in Requests : r # a => req'[r] = req[r]
  BY <1>1, <1>2, <1>3 DEF Job
<1>6. req' \in [Requests -> Job]
  <2>1. req' = [req EXCEPT ![a] = [w EXCEPT !.pc = "check", !.own = e, !.todo = todo]]
    BY <1>1, <1>2 DEF Job
  <2> HIDE DEF todo
  <2>2. [w EXCEPT !.pc = "check", !.own = e, !.todo = todo] \in Job
    <3>1. e \in Nat BY <1>2
    <3> HIDE DEF e, w
    <3> QED BY <3>1, <1>2, <1>4 DEF Job, Places
  <2> QED BY <2>1, <2>2, <1>2
<1>7. /\ made' \in Seq(Nat) /\ Len(made') = e /\ made'[e] = w.todo[1].line
      /\ \A n \in 1..Len(made) : made'[n] = made[n]
  BY <1>1, <1>2, <1>3, AppendProperties
<1> HIDE DEF todo
<1>8. ReconciliationTypeOK' BY <1>1, <1>6, <1>7 DEF IInv, ReconciliationTypeOK
<1>9. Grows BY <1>1, <1>2, <1>7 DEF Grows, Reads
<1>10. \A r \in Requests : r # a => Rests(r) BY <1>5 DEF Rests
<1>11. KeepsOrder(a)'
  <2>1. \A k \in 1..Len(todo) : todo[k].line \in 1..Len(lines') BY <1>4, <1>3, <1>1
  <2>2. 1 \in 1..(Len(todo) + 1) /\ 1 \in 1..Len(todo) /\ \A k \in 1..(1 - 1) : FALSE BY <1>4
  <2> QED BY <2>1, <2>2, <1>5 DEF KeepsOrder
<1>12. KnowsEntry(a)'
  <2>1. e \in 1..Len(made') /\ e # None BY <1>2, <1>7, ReconciliationAssumption
  <2> HIDE DEF e
  <2> QED BY <2>1, <1>4, <1>5, <1>7 DEF KnowsEntry
<1>13. BeginsAfter'
  <2> SUFFICES ASSUME NEW s \in Requests, NEW r \in req'[s].before
               PROVE  req'[r].pc \in {"ok", "refused"} /\ LeavesAlone(s, r)'
    BY DEF BeginsAfter
  <2>1. r \in req[s].before /\ r \in Requests BY <1>2, <1>5 DEF Job
  <2>2. req[r].pc \in {"ok", "refused"} /\ LeavesAlone(s, r) BY <2>1 DEF IInv, BeginsAfter
  <2>3. req'[r] = req[r] BY <2>1, <2>2, <1>1, <1>5
  <2>4. CASE s # a
    BY SMTT(30), <2>2, <2>3, <2>4, <1>5 DEF LeavesAlone
  <2>5. CASE s = a
    <3>1. ASSUME req[r].pc = "ok", NEW k \in 1..Len(req[r].todo)
          PROVE  req[r].todo[k].entry # e
      <4>1. req[r].todo[k].entry \in EntriesMade BY <2>1, <3>1, OkHas
      <4> QED BY <4>1, <1>2, ReconciliationAssumption DEF EntriesMade
    <3>2. ASSUME req[r].pc = "ok", NEW k \in 1..Len(req[r].todo)
          PROVE  todo[1].line # req[r].todo[k].line
      BY <2>2, <2>5, <3>2, <1>3, <1>4 DEF LeavesAlone
    <3>3. \A l \in 1..Len(todo) : todo[l].entry = e BY <1>4
    <3> HIDE DEF e
    <3> QED BY <2>2, <2>3, <2>5, <3>1, <3>2, <3>3, <1>5 DEF LeavesAlone
  <2> QED BY <2>4, <2>5
<1>14. MarksRecorded' BY <1>1, <1>10, MarksStay DEF IInv
<1>15. RowsAreThere' BY <1>1, RowsStay DEF IInv
<1>16. RecordsRefer' BY <1>1, <1>2, <1>7 DEF IInv, RecordsRefer, EntriesMade
<1>17. \A r \in Requests : KeepsOrder(r)' /\ KnowsEntry(r)'
  BY <1>9, <1>10, <1>11, <1>12, OthersRest
<1> QED BY <1>8, <1>13, <1>14, <1>15, <1>16, <1>17 DEF IInv

\* Going on without having written anything, or to the refusal, or to the end of the
\* process.
LEMMA GoesOnInv ==
  ASSUME IInv, NEW a \in Requests, NEW p \in Places, NEW b \in BOOLEAN,
         req' = [req EXCEPT ![a].pc = p, ![a].alive = b],
         lines' = lines, records' = records, made' = made, upload' = upload,
         req[a].pc \notin {"idle", "ok", "refused"},
         \/ p = req[a].pc
         \/ p = "refused" /\ req[a].pc # "save"
         \/ p = "record" /\ req[a].pc = "check"
  PROVE  IInv'
<1>2. req[a] \in Job /\ req \in [Requests -> Job]
  BY JobOf DEF IInv, ReconciliationTypeOK
<1>3. /\ req'[a].pc = p /\ req'[a].own = req[a].own /\ req'[a].todo = req[a].todo
      /\ req'[a].kind = req[a].kind /\ req'[a].at = req[a].at
      /\ req'[a].before = req[a].before
      /\ \A r \in Requests : r # a => req'[r] = req[r]
  BY <1>2 DEF Job
<1>4. ReconciliationTypeOK'
  <2>1. req' = [req EXCEPT ![a] = [req[a] EXCEPT !.pc = p, !.alive = b]] BY <1>2 DEF Job
  <2>2. [req[a] EXCEPT !.pc = p, !.alive = b] \in Job BY <1>2 DEF Job
  <2>3. req' \in [Requests -> Job] BY <2>1, <2>2, <1>2
  <2> QED BY <2>3 DEF IInv, ReconciliationTypeOK
<1>5. Grows BY DEF Grows, Reads
<1>6. \A r \in Requests : r # a => Rests(r) BY <1>3 DEF Rests
<1>7. KeepsOrder(a) /\ KnowsEntry(a) BY DEF IInv
<1>8. KeepsOrder(a)'
  <2> DEFINE w == req[a]
  <2>1. /\ w.at \in 1..(Len(w.todo) + 1) /\ w.at \in 1..Len(w.todo)
        /\ \A k \in 1..Len(w.todo) : w.todo[k].line \in 1..Len(lines)
        /\ \A k \in 1..(w.at - 1) : Marked(w.todo[k].line) /\ Has(w.todo[k])
        /\ p \in {"save", "method"} => Has(w.todo[w.at])
        /\ p = "method" => Marked(w.todo[w.at].line)
    BY <1>7 DEF KeepsOrder
  <2> HIDE DEF w
  <2>2. /\ req'[a].pc = p /\ req'[a].todo = w.todo /\ req'[a].at = w.at /\ p \notin {"idle", "ok"}
    BY <1>3 DEF w
  <2> QED BY ZenonT(60), <2>1, <2>2 DEF KeepsOrder
<1>9. KnowsEntry(a)' BY <1>3, <1>7 DEF KnowsEntry
<1>10. BeginsAfter' BY <1>3, <1>6, BeginsAfterStays DEF IInv
<1>11. req[a].pc = "save" => Rests(a) BY <1>3 DEF Rests
<1>12. \A r \in Requests : req[r].pc = "save" => Rests(r) BY <1>6, <1>11
<1>14. MarksRecorded' BY <1>12, MarksStay DEF IInv
<1>15. RowsAreThere' BY RowsStay DEF IInv
<1>16. RecordsRefer' BY DEF IInv, RecordsRefer, EntriesMade
<1>17. \A r \in Requests : KeepsOrder(r)' /\ KnowsEntry(r)'
  BY <1>5, <1>6, <1>8, <1>9, OthersRest
<1> QED BY <1>4, <1>10, <1>14, <1>15, <1>16, <1>17 DEF IInv

LEMMA RecordInv ==
  ASSUME IInv, NEW a \in Requests, Record(a), Match(a).line \notin Reconciled
  PROVE  IInv'
<1> DEFINE w == req[a]
           m == w.todo[w.at]
           rec == [line |-> m.line, entry |-> m.entry,
                   method |-> IF w.kind = "make" THEN "manual" ELSE "suggested"]
<1>1. /\ lines' = lines /\ made' = made /\ upload' = upload
      /\ req' = [req EXCEPT ![a].pc = "save"]
      /\ w.pc = "record" /\ records' = records \cup {rec}
  BY DEF Record, At, Match, Move
<1>2. w \in Job /\ req \in [Requests -> Job] BY JobOf DEF IInv, ReconciliationTypeOK
<1>3. /\ req'[a].pc = "save" /\ req'[a].own = w.own /\ req'[a].todo = w.todo
      /\ req'[a].kind = w.kind /\ req'[a].at = w.at /\ req'[a].before = w.before
      /\ \A r \in Requests : r # a => req'[r] = req[r]
  BY <1>1, <1>2 DEF Job
<1>4. KeepsOrder(a) /\ KnowsEntry(a) BY DEF IInv
<1>5. w.at \in 1..Len(w.todo) /\ m.line \in 1..Len(lines) BY <1>1, <1>4 DEF KeepsOrder
<1>6. m.entry \in EntriesMade
  <2>1. CASE w.kind = "confirm" BY <2>1, <1>4, <1>5 DEF KnowsEntry, EntriesMade
  <2>2. CASE w.kind = "make"
    <3>1. w.at = 1 BY <1>4, <1>5, <2>2 DEF KnowsEntry
    <3>2. w.own # None BY <1>1, <1>4, <2>2 DEF KnowsEntry
    <3> QED BY <3>1, <3>2, <2>2, <1>4 DEF KnowsEntry, EntriesMade
  <2> QED BY <2>1, <2>2, <1>2 DEF Job
<1>7. rec \in Rec
  <2>1. Len(lines) \in Nat /\ Len(made) \in Nat BY LenProperties DEF IInv, ReconciliationTypeOK
  <2>2. m.line \in Nat /\ m.entry \in Entry BY SMTT(30), <2>1, <1>5, <1>6 DEF EntriesMade, Entry
  <2> HIDE DEF m
  <2> QED BY <2>2 DEF Rec
<1>8. ReconciliationTypeOK'
  <2>1. [w EXCEPT !.pc = "save"] \in Job BY <1>2 DEF Job, Places
  <2>2. req' = [req EXCEPT ![a] = [w EXCEPT !.pc = "save"]] BY <1>1, <1>2 DEF Job
  <2>3. req' \in [Requests -> Job] BY <2>1, <2>2, <1>2
  <2> HIDE DEF rec
  <2> QED BY <1>1, <1>7, <2>3 DEF IInv, ReconciliationTypeOK
<1>9. rec.line = m.line /\ rec.entry = m.entry OBVIOUS
<1> HIDE DEF rec
<1>10. Grows BY <1>1 DEF Grows, Reads
<1>11. \A r \in Requests : r # a => Rests(r) BY <1>3 DEF Rests
<1>12. KeepsOrder(a)'
  <2>1. /\ w.at \in 1..(Len(w.todo) + 1) /\ w.at \in 1..Len(w.todo)
        /\ \A k \in 1..Len(w.todo) : w.todo[k].line \in 1..Len(lines)
        /\ \A k \in 1..(w.at - 1) : Marked(w.todo[k].line) /\ Has(w.todo[k])
    BY <1>4, <1>5 DEF KeepsOrder
  <2>2. \E x \in records' : x.line = w.todo[w.at].line /\ x.entry = w.todo[w.at].entry
    BY <1>1, <1>9
  <2>3. \A x \in records : x \in records' BY <1>1
  <2>4. \A k \in 1..(w.at - 1) :
          /\ lines'[w.todo[k].line].status = "reconciled"
          /\ \E x \in records' : x.line = w.todo[k].line /\ x.entry = w.todo[k].entry
    <3> HIDE DEF w
    <3> QED BY <2>1, <2>3, <1>1
  <2>5. \A k \in 1..Len(w.todo) : w.todo[k].line \in 1..Len(lines') BY <2>1, <1>1
  <2>6. /\ req'[a].pc = "save" /\ req'[a].todo = w.todo /\ req'[a].at = w.at
        /\ w.at \in 1..(Len(w.todo) + 1) /\ w.at \in 1..Len(w.todo)
    BY <2>1, <1>3
  <2> HIDE DEF w
  <2> QED BY <2>2, <2>4, <2>5, <2>6 DEF KeepsOrder
<1>13. KnowsEntry(a)' BY <1>1, <1>3, <1>4 DEF KnowsEntry
<1>14. BeginsAfter' BY <1>1, <1>3, <1>11, BeginsAfterStays DEF IInv
<1>15. MarksRecorded'
  <2>1. \A r \in Requests : req[r].pc = "save" => r # a /\ req'[r] = req[r] BY <1>1, <1>3
  <2>2. req'[a].todo[req'[a].at].line = m.line BY <1>3
  <2> HIDE DEF m
  <2> QED BY <1>1, <1>3, <1>9, <2>1, <2>2 DEF IInv, MarksRecorded
<1>16. RowsAreThere' BY <1>1, RowsStay DEF IInv
<1>17. RecordsRefer' BY <1>1, <1>5, <1>6, <1>9 DEF IInv, RecordsRefer, EntriesMade
<1>18. \A r \in Requests : KeepsOrder(r)' /\ KnowsEntry(r)'
  BY <1>10, <1>11, <1>12, <1>13, OthersRest
<1> QED BY <1>8, <1>14, <1>15, <1>16, <1>17, <1>18 DEF IInv

LEMMA SaveInv == ASSUME IInv, NEW a \in Requests, Save(a) PROVE IInv'
<1> DEFINE w == req[a]
           n == w.todo[w.at].line
           at == IF w.kind = "make" THEN w.at ELSE w.at + 1
           pc == IF w.kind = "make" THEN "method"
                 ELSE IF w.at = Len(w.todo) THEN "ok" ELSE "check"
<1>1. /\ records' = records /\ made' = made /\ upload' = upload
      /\ lines' = [lines EXCEPT ![n].status = "reconciled"] /\ w.pc = "save"
  BY DEF Save, At, Match
<1>2. w \in Job /\ req \in [Requests -> Job] /\ Len(w.todo) \in Nat
  BY JobOf, LenProperties DEF IInv, ReconciliationTypeOK, Job
<1>3. req' = [req EXCEPT ![a] = [w EXCEPT !.pc = pc, !.at = at]]
  BY <1>2 DEF Save, Job
<1>4. KeepsOrder(a) /\ KnowsEntry(a) BY DEF IInv
<1>5. w.at \in 1..Len(w.todo) /\ n \in 1..Len(lines) /\ Has(w.todo[w.at])
  BY <1>1, <1>4 DEF KeepsOrder
<1>6. pc \in Places /\ at \in Nat BY <1>2, <1>5 DEF Places
<1>7. /\ req'[a].pc = pc /\ req'[a].own = w.own /\ req'[a].todo = w.todo
      /\ req'[a].kind = w.kind /\ req'[a].at = at /\ req'[a].before = w.before
      /\ \A r \in Requests : r # a => req'[r] = req[r]
  <2> HIDE DEF pc, at
  <2> QED BY <1>2, <1>3, <1>6 DEF Job
<1>8. lines \in Seq(BankRow) /\ Len(lines) \in Nat
  BY LenProperties DEF IInv, ReconciliationTypeOK
<1>9. /\ lines' \in Seq(BankRow) /\ Len(lines') = Len(lines)
      /\ \A k \in 1..Len(lines) : k # n => lines'[k] = lines[k]
      /\ lines'[n].status = "reconciled" /\ lines'[n].print = lines[n].print
  <2> HIDE DEF n
  <2>1. lines[n] \in BankRow BY <1>5, <1>8, ElementOfSeq
  <2> DEFINE row == [lines[n] EXCEPT !.status = "reconciled"]
  <2>2. row \in BankRow /\ row.status = "reconciled" /\ row.print = lines[n].print
    BY <2>1 DEF BankRow
  <2>3. lines' = [lines EXCEPT ![n] = row] BY <1>1, <1>5, <1>8
  <2> HIDE DEF row
  <2> QED BY <1>5, <1>8, <2>2, <2>3, ExceptSeq
<1>10. ReconciliationTypeOK'
  <2>1. [w EXCEPT !.pc = pc, !.at = at] \in Job
    <3> HIDE DEF pc, at
    <3> QED BY <1>2, <1>6 DEF Job
  <2>2. req' \in [Requests -> Job] BY <1>2, <1>3, <2>1
  <2> QED BY <1>1, <1>9, <2>2 DEF IInv, ReconciliationTypeOK
<1>11. Grows
  <2> HIDE DEF n
  <2> QED BY <1>1, <1>9 DEF Grows, Reads
<1>12. \A r \in Requests : r # a => Rests(r) BY <1>7 DEF Rests
<1>13. KeepsOrder(a)'
  <2>1. /\ \A k \in 1..Len(w.todo) : w.todo[k].line \in 1..Len(lines)
        /\ \A k \in 1..(w.at - 1) : Marked(w.todo[k].line) /\ Has(w.todo[k])
    BY <1>4 DEF KeepsOrder
  <2>2. \A k \in 1..w.at : /\ lines'[w.todo[k].line].status = "reconciled"
                           /\ Has(w.todo[k])
    <3> TAKE k \in 1..w.at
    <3>1. CASE k = w.at BY <3>1, <1>5, <1>9
    <3>2. CASE k # w.at
      <4>1. k \in 1..(w.at - 1) /\ k \in 1..Len(w.todo) BY <3>2, <1>2, <1>5
      <4>2. Marked(w.todo[k].line) /\ Has(w.todo[k]) /\ w.todo[k].line \in 1..Len(lines)
        BY <2>1, <4>1
      <4> QED BY <4>2, <1>9
    <3> QED BY <3>1, <3>2
  <2>3. \A k \in 1..(at - 1) : k \in 1..w.at BY <1>5, <1>2
  <2>4. /\ at \in 1..(Len(w.todo) + 1) /\ (pc # "ok" => at \in 1..Len(w.todo))
        /\ (pc = "ok" => at = Len(w.todo) + 1) /\ (pc = "method" => at = w.at)
        /\ pc \notin {"save", "idle"}
        /\ w.at \in 1..w.at
    BY <1>5, <1>2
  <2>5. \A k \in 1..w.at :
          /\ lines'[w.todo[k].line].status = "reconciled"
          /\ \E x \in records' : x.line = w.todo[k].line /\ x.entry = w.todo[k].entry
    <3> HIDE DEF w
    <3> QED BY <2>2, <1>1
  <2>6. \A k \in 1..Len(w.todo) : w.todo[k].line \in 1..Len(lines') BY <2>1, <1>9
  <2>7. req'[a].pc = pc /\ req'[a].todo = w.todo /\ req'[a].at = at BY <1>7
  <2> HIDE DEF at, pc, w
  <2> QED BY <2>3, <2>4, <2>5, <2>6, <2>7 DEF KeepsOrder
<1>14. KnowsEntry(a)'
  <2>1. w.kind = "make" => w.own # None BY <1>1, <1>4 DEF KnowsEntry
  <2>2. (w.kind = "make" => pc = "method") /\ (w.kind = "confirm" => pc \notin {"post", "method"})
    OBVIOUS
  <2> HIDE DEF pc
  <2> QED BY <2>1, <2>2, <1>1, <1>4, <1>7 DEF KnowsEntry
<1>15. BeginsAfter' BY <1>1, <1>7, <1>12, BeginsAfterStays DEF IInv
<1>16. MarksRecorded'
  <2> SUFFICES ASSUME NEW k \in 1..Len(lines)
               PROVE  /\ lines'[k].status = "reconciled" => \E rec \in records : rec.line = k
                      /\ (\E rec \in records : rec.line = k) /\ lines'[k].status # "reconciled" =>
                           \E r \in Requests : req'[r].pc = "save" /\ req'[r].todo[req'[r].at].line = k
    BY <1>1, <1>9 DEF MarksRecorded
  <2>1. CASE k = n BY <2>1, <1>5, <1>9
  <2>2. CASE k # n
    <3>1. lines'[k] = lines[k] BY <2>2, <1>9
    <3>2. ASSUME NEW r \in Requests, req[r].pc = "save", req[r].todo[req[r].at].line = k
          PROVE  req'[r] = req[r]
      BY <3>2, <2>2, <1>7
    <3> QED BY <3>1, <3>2 DEF IInv, MarksRecorded
  <2> QED BY <2>1, <2>2
<1>17. RowsAreThere'
  <2>1. \A k \in 1..Len(lines) : lines'[k].print = lines[k].print BY <1>9
  <2> QED BY <2>1, <1>1, <1>9, RowsStay DEF IInv
<1>18. RecordsRefer' BY <1>1, <1>9 DEF IInv, RecordsRefer, EntriesMade
<1>19. \A r \in Requests : KeepsOrder(r)' /\ KnowsEntry(r)'
  BY <1>11, <1>12, <1>13, <1>14, OthersRest
<1> QED BY <1>10, <1>15, <1>16, <1>17, <1>18, <1>19 DEF IInv

LEMMA SetMethodInv == ASSUME IInv, NEW a \in Requests, SetMethod(a) PROVE IInv'
<1> DEFINE w == req[a]
           n == w.todo[1].line
           New(rec) == IF rec.line = n THEN [rec EXCEPT !.method = "created"] ELSE rec
<1>1. /\ lines' = lines /\ made' = made /\ upload' = upload
      /\ records' = {New(rec) : rec \in records} /\ w.pc = "method"
  BY DEF SetMethod, At
<1>2. w \in Job /\ req \in [Requests -> Job] BY JobOf DEF IInv, ReconciliationTypeOK
<1>3. req' = [req EXCEPT ![a] = [w EXCEPT !.pc = "ok", !.at = w.at + 1]]
  BY <1>2 DEF SetMethod, Job
<1>4. KeepsOrder(a) /\ KnowsEntry(a) BY DEF IInv
<1>5. /\ w.kind = "make" /\ Len(w.todo) = 1 /\ w.at = 1 /\ n \in 1..Len(lines)
      /\ Marked(n) /\ Has(w.todo[1]) /\ w.own # None
  <2>1. w.kind = "make" BY <1>1, <1>2, <1>4 DEF KnowsEntry, Job
  <2>2. Len(w.todo) = 1 /\ w.own # None BY <2>1, <1>1, <1>4 DEF KnowsEntry
  <2>3. w.at = 1 BY <2>2, <1>1, <1>4 DEF KeepsOrder
  <2> QED BY <2>1, <2>2, <2>3, <1>1, <1>4 DEF KeepsOrder
<1>6. /\ req'[a].pc = "ok" /\ req'[a].own = w.own /\ req'[a].todo = w.todo
      /\ req'[a].kind = w.kind /\ req'[a].at = 2 /\ req'[a].before = w.before
      /\ \A r \in Requests : r # a => req'[r] = req[r]
  BY <1>2, <1>3, <1>5 DEF Job
<1>7. \A rec \in records : /\ New(rec) \in Rec /\ New(rec).line = rec.line
                           /\ New(rec).entry = rec.entry
  <2>1. TAKE rec \in records
  <2>2. rec \in Rec BY DEF IInv, ReconciliationTypeOK
  <2> HIDE DEF n
  <2> QED BY <2>2 DEF Rec
<1> HIDE DEF New
<1>8. /\ \A new \in records' : \E rec \in records : new.line = rec.line /\ new.entry = rec.entry
      /\ \A rec \in records : \E new \in records' : new.line = rec.line /\ new.entry = rec.entry
      /\ records' \subseteq Rec
  BY <1>1, <1>7
<1>9. ReconciliationTypeOK'
  <2>1. [w EXCEPT !.pc = "ok", !.at = 2] \in Job BY <1>2 DEF Job, Places
  <2>2. req' = [req EXCEPT ![a] = [w EXCEPT !.pc = "ok", !.at = 2]] BY <1>3, <1>5
  <2>3. req' \in [Requests -> Job] BY <1>2, <2>1, <2>2
  <2> QED BY <1>1, <1>8, <2>3 DEF IInv, ReconciliationTypeOK
<1>10. Grows BY <1>1, <1>8 DEF Grows, Reads
<1>11. \A r \in Requests : r # a => Rests(r) BY <1>6 DEF Rests
<1>12. KeepsOrder(a)'
  <2>1. \A k \in 1..Len(w.todo) : k = 1 BY <1>5
  <2>2. \A k \in 1..(2 - 1) : k = 1 OBVIOUS
  <2>3. \E x \in records' : x.line = w.todo[1].line /\ x.entry = w.todo[1].entry BY <1>5, <1>8
  <2>4. lines'[w.todo[1].line].status = "reconciled" /\ w.todo[1].line \in 1..Len(lines')
    BY <1>1, <1>5
  <2>5. 2 \in 1..(Len(w.todo) + 1) /\ 2 = Len(w.todo) + 1 BY <1>5
  <2>6. req'[a].pc = "ok" /\ req'[a].todo = w.todo /\ req'[a].at = 2 BY <1>6
  <2> HIDE DEF w
  <2> QED BY <2>1, <2>2, <2>3, <2>4, <2>5, <2>6 DEF KeepsOrder
<1>13. KnowsEntry(a)' BY <1>1, <1>4, <1>5, <1>6 DEF KnowsEntry
<1>14. BeginsAfter' BY <1>1, <1>6, <1>11, BeginsAfterStays DEF IInv
<1>15. MarksRecorded'
  <2>1. \A k \in 1..Len(lines) :
          (\E rec \in records' : rec.line = k) <=> (\E rec \in records : rec.line = k)
    BY <1>8
  <2>2. \A r \in Requests : req[r].pc = "save" => Rests(r) BY <1>1, <1>11
  <2> QED BY <2>1, <2>2, <1>1, MarksStay DEF IInv
<1>16. RowsAreThere' BY <1>1, RowsStay DEF IInv
<1>17. RecordsRefer' BY <1>1, <1>8 DEF IInv, RecordsRefer, EntriesMade
<1>18. \A r \in Requests : KeepsOrder(r)' /\ KnowsEntry(r)'
  BY <1>10, <1>11, <1>12, <1>13, OthersRest
<1> QED BY <1>9, <1>14, <1>15, <1>16, <1>17, <1>18 DEF IInv

\* Of the reconciliations and the requests an import changes nothing.
LEMMA ImportingInv ==
  ASSUME IInv, Grows, records' = records, made' = made, req' = req, RowsAreThere',
         lines' \in Seq(BankRow), upload' \in [Uploads -> [row : Nat, on : BOOLEAN]],
         \A n \in 1..Len(lines') : n \notin 1..Len(lines) => ~Marked(n)',
         \A n \in 1..Len(lines) : Marked(n)' = Marked(n)
  PROVE  IInv'
<1>1. ReconciliationTypeOK' BY DEF IInv, ReconciliationTypeOK
<1>2. RecordsRefer' BY DEF IInv, RecordsRefer, EntriesMade, Grows
<1>3. \A r \in Requests : Rests(r) BY DEF Rests
<1>4. \A r \in Requests : KeepsOrder(r)' /\ KnowsEntry(r)'
  BY <1>3, RestingKeepsOrder, RestingKnowsEntry DEF IInv
<1>5. BeginsAfter' BY DEF IInv, BeginsAfter, LeavesAlone
<1>6. MarksRecorded' BY DEF IInv, MarksRecorded, RecordsRefer
<1> QED BY <1>1, <1>2, <1>4, <1>5, <1>6 DEF IInv

LEMMA InsertInv == ASSUME IInv, NEW u \in Uploads, Insert(u) PROVE IInv'
<1> DEFINE i == upload[u].row
           p == Statement[i]
           row == [print |-> p, status |-> "unreconciled"]
           L == Len(lines)
<1>1. /\ records' = records /\ made' = made /\ req' = req
      /\ upload' = [upload EXCEPT ![u].row = @ + 1]
      /\ i \in DOMAIN Statement
      /\ lines' = IF \E n \in DOMAIN lines : lines[n].print = p THEN lines
                  ELSE Append(lines, row)
  BY DEF Insert
<1>2. /\ lines \in Seq(BankRow) /\ L \in Nat /\ DOMAIN lines = 1..L
      /\ Len(Statement) \in Nat /\ DOMAIN Statement = 1..Len(Statement)
      /\ upload \in [Uploads -> [row : Nat, on : BOOLEAN]]
  BY LenProperties, ReconciliationAssumption DEF IInv, ReconciliationTypeOK
<1>3. row \in BankRow
  <2>1. p \in Range(Statement) BY <1>1, <1>2, ElementOfSeq, ReconciliationAssumption
  <2> HIDE DEF p
  <2> QED BY <2>1 DEF BankRow
<1>4. /\ upload' \in [Uploads -> [row : Nat, on : BOOLEAN]]
      /\ upload'[u].row = i + 1
      /\ \A v \in Uploads : v # u => upload'[v] = upload[v]
  BY <1>1, <1>2
<1>5. /\ lines' \in Seq(BankRow) /\ L <= Len(lines') /\ Len(lines') <= L + 1
      /\ \A n \in 1..L : lines'[n] = lines[n]
      /\ \E n \in 1..Len(lines') : lines'[n].print = p
      /\ Len(lines') = L + 1 =>
           /\ lines'[L + 1].print = p /\ lines'[L + 1].status = "unreconciled"
           /\ \A n \in 1..L : lines[n].print # p
      /\ Len(lines') \in Nat
  <2>1. CASE \E n \in DOMAIN lines : lines[n].print = p
    <3> HIDE DEF p, row
    <3> QED BY <2>1, <1>1, <1>2
  <2>2. CASE ~\E n \in DOMAIN lines : lines[n].print = p
    <3>1. row.print = p /\ row.status = "unreconciled" OBVIOUS
    <3> HIDE DEF p, row
    <3>2. lines' = Append(lines, row) BY <2>2, <1>1
    <3>3. /\ lines' \in Seq(BankRow) /\ Len(lines') = L + 1 /\ lines'[L + 1] = row
          /\ \A n \in 1..L : lines'[n] = lines[n]
      BY <3>2, <1>2, <1>3, AppendProperties
    <3>4. L + 1 \in 1..(L + 1) BY <1>2
    <3>5. \A n \in 1..L : lines[n].print # p BY <2>2, <1>2
    <3>6. L <= Len(lines') /\ Len(lines') <= L + 1 /\ Len(lines') \in Nat BY <3>3, <1>2
    <3>7. \E n \in 1..Len(lines') : lines'[n].print = p BY <3>1, <3>3, <3>4
    <3> QED BY <3>1, <3>3, <3>5, <3>6, <3>7
  <2> QED BY <2>1, <2>2
<1> HIDE DEF row
<1>6. RowsAreThere'
  <2>1. ASSUME NEW m \in 1..Len(lines'), NEW n \in 1..Len(lines'),
               lines'[m].print = lines'[n].print
        PROVE  m = n
    <3>1. CASE m \in 1..L /\ n \in 1..L
      BY <2>1, <3>1, <1>5 DEF IInv, RowsAreThere
    <3>2. CASE m \notin 1..L /\ n \notin 1..L BY <3>2, <1>5, <1>2
    <3>3. CASE m \in 1..L /\ n \notin 1..L
      <4>1. n = L + 1 /\ Len(lines') = L + 1 BY <3>3, <1>5, <1>2
      <4> HIDE DEF p
      <4> QED BY <4>1, <2>1, <3>3, <1>5
    <3>4. CASE m \notin 1..L /\ n \in 1..L
      <4>1. m = L + 1 /\ Len(lines') = L + 1 BY <3>4, <1>5, <1>2
      <4> HIDE DEF p
      <4> QED BY <4>1, <2>1, <3>4, <1>5
    <3> QED BY <3>1, <3>2, <3>3, <3>4
  <2>2. ASSUME NEW v \in Uploads
        PROVE  /\ upload'[v].row \in 1..(Len(Statement) + 1)
               /\ \A k \in 1..(upload'[v].row - 1) :
                    \E n \in 1..Len(lines') : lines'[n].print = Statement[k]
    <3>1. \A k \in 1..(upload[v].row - 1) :
            \E n \in 1..Len(lines') : lines'[n].print = Statement[k]
      <4>1. \A n \in 1..L : n \in 1..Len(lines') /\ lines'[n] = lines[n] BY <1>5, <1>2
      <4> QED BY <4>1 DEF IInv, RowsAreThere
    <3>2. upload[v].row \in 1..(Len(Statement) + 1) BY DEF IInv, RowsAreThere
    <3>3. CASE v # u BY <3>1, <3>2, <3>3, <1>4
    <3>4. CASE v = u
      <4>1. \A k \in 1..i : k = i \/ k \in 1..(i - 1) BY <1>1, <1>2
      <4>2. i \in Nat /\ i + 1 \in 1..(Len(Statement) + 1) BY <1>1, <1>2
      <4>3. upload[v].row = i /\ upload'[v].row = i + 1 BY <3>4, <1>4
      <4>4. \E n \in 1..Len(lines') : lines'[n].print = Statement[i] BY <1>5
      <4> HIDE DEF i
      <4>5. \A k \in 1..i : \E n \in 1..Len(lines') : lines'[n].print = Statement[k]
        BY <3>1, <4>1, <4>3, <4>4
      <4>6. 1..(upload'[v].row - 1) = 1..i BY <4>2, <4>3
      <4>7. upload'[v].row \in 1..(Len(Statement) + 1) BY <4>2, <4>3
      <4> QED BY <4>5, <4>6, <4>7
    <3> QED BY <3>3, <3>4
  <2> QED BY <2>1, <2>2 DEF RowsAreThere
<1>7. Grows BY <1>1, <1>2, <1>5 DEF Grows, Reads
<1>8. \A n \in 1..Len(lines') : n \notin 1..Len(lines) => ~Marked(n)' BY <1>5, <1>2
<1>9. \A n \in 1..Len(lines) : Marked(n)' = Marked(n) BY <1>5
<1> QED BY <1>1, <1>4, <1>5, <1>6, <1>7, <1>8, <1>9, ImportingInv

LEMMA CrashInv == ASSUME IInv, Crash PROVE IInv'
<1>1. lines' = lines /\ records' = records /\ made' = made BY DEF Crash
<1>2. ASSUME NEW u \in Uploads, upload' = [upload EXCEPT ![u].on = FALSE], req' = req
      PROVE  IInv'
  <2>1. upload \in [Uploads -> [row : Nat, on : BOOLEAN]] /\ lines \in Seq(BankRow)
    BY DEF IInv, ReconciliationTypeOK
  <2>2. /\ upload' \in [Uploads -> [row : Nat, on : BOOLEAN]]
        /\ \A v \in Uploads : upload'[v].row = upload[v].row
    BY <1>2, <2>1
  <2>3. RowsAreThere' BY <2>2, <1>1 DEF IInv, RowsAreThere
  <2>4. Grows BY <1>1 DEF Grows, Reads
  <2> QED BY <1>1, <1>2, <2>1, <2>2, <2>3, <2>4, ImportingInv
<1>3. ASSUME NEW a \in Requests, req[a].pc \notin {"idle", "ok", "refused"},
             req' = [req EXCEPT ![a].alive = FALSE], upload' = upload
      PROVE  IInv'
  <2>1. req[a] \in Job /\ req \in [Requests -> Job]
    BY JobOf DEF IInv, ReconciliationTypeOK
  <2>2. req[a].pc \in Places /\ req' = [req EXCEPT ![a].pc = req[a].pc, ![a].alive = FALSE]
    BY <1>3, <2>1 DEF Job
  <2> QED BY <1>1, <1>3, <2>2, GoesOnInv
<1> QED BY <1>2, <1>3 DEF Crash

LEMMA InitInv == Init => IInv
<1> SUFFICES ASSUME Init PROVE IInv OBVIOUS
<1>1. Idle \in Job
  <2>1. <<>> \in Seq([line : Nat, entry : Entry \cup {None}]) BY EmptySeq
  <2> QED BY <2>1 DEF Idle, Job, Places
<1>2. ReconciliationTypeOK BY <1>1, EmptySeq DEF Init, ReconciliationTypeOK
<1>3. /\ lines = <<>> /\ Len(lines) = 0 /\ records = {} /\ \A r \in Requests : req[r] = Idle
      /\ \A u \in Uploads : upload[u].row = 1
  BY DEF Init
<1>4. Len(Statement) \in Nat BY LenProperties, ReconciliationAssumption
<1>5. RecordsRefer /\ RowsAreThere /\ MarksRecorded
  BY <1>3, <1>4 DEF RecordsRefer, RowsAreThere, MarksRecorded
<1>6. \A r \in Requests : KeepsOrder(r) /\ KnowsEntry(r)
  BY <1>3 DEF KeepsOrder, KnowsEntry, Idle
<1>7. BeginsAfter BY <1>3 DEF BeginsAfter, Idle
<1> QED BY <1>2, <1>5, <1>6, <1>7 DEF IInv

LEMMA NextInv == IInv /\ [Next]_vars => IInv'
<1> SUFFICES ASSUME IInv, [Next]_vars PROVE IInv' OBVIOUS
<1>1. ASSUME NEW a \in Requests, Check(a) PROVE IInv'
  <2>1. req[a] \in Job /\ req \in [Requests -> Job]
    BY JobOf DEF IInv, ReconciliationTypeOK
  <2>2. PICK p \in Places :
          /\ req' = [req EXCEPT ![a].pc = p]
          /\ p \in {"refused", "record"}
          /\ req[a].pc = "check"
    <3>2. CASE Check(a) /\ Match(a).line \in Unreconciled
      BY <3>2 DEF Check, At, Move, Places
    <3>3. CASE Check(a) /\ Match(a).line \notin Unreconciled
      BY <3>3 DEF Check, At, Move, Places
    <3> QED BY <1>1, <3>2, <3>3
  <2>3. lines' = lines /\ records' = records /\ made' = made /\ upload' = upload
    BY <1>1 DEF Check
  <2>4. req[a].alive \in BOOLEAN /\ req' = [req EXCEPT ![a].pc = p, ![a].alive = req[a].alive]
    BY <2>1, <2>2 DEF Job
  <2> QED BY <2>2, <2>3, <2>4, GoesOnInv
<1>2. ASSUME NEW a \in Requests, Record(a) PROVE IInv'
  <2>1. CASE Match(a).line \notin Reconciled BY <2>1, <1>2, RecordInv
  <2>2. CASE Match(a).line \in Reconciled
    <3>1. req[a] \in Job /\ req \in [Requests -> Job]
      BY JobOf DEF IInv, ReconciliationTypeOK
    <3>2. /\ req' = [req EXCEPT ![a].pc = "refused"] /\ req[a].pc = "record"
          /\ lines' = lines /\ records' = records /\ made' = made /\ upload' = upload
      BY <1>2, <2>2 DEF Record, At, Move
    <3>3. /\ req[a].alive \in BOOLEAN /\ "refused" \in Places
          /\ req' = [req EXCEPT ![a].pc = "refused", ![a].alive = req[a].alive]
      BY <3>1, <3>2 DEF Job, Places
    <3> QED BY <3>2, <3>3, GoesOnInv
  <2> QED BY <2>1, <2>2
<1>4. ASSUME NEW a \in Requests, PostRefused(a) PROVE IInv'
  <2>1. req[a] \in Job /\ req \in [Requests -> Job]
    BY JobOf DEF IInv, ReconciliationTypeOK
  <2>2. /\ req' = [req EXCEPT ![a].pc = "refused"] /\ req[a].pc = "post"
        /\ lines' = lines /\ records' = records /\ made' = made /\ upload' = upload
    BY <1>4 DEF PostRefused, At, Move
  <2>3. /\ req[a].alive \in BOOLEAN /\ "refused" \in Places
        /\ req' = [req EXCEPT ![a].pc = "refused", ![a].alive = req[a].alive]
    BY <2>1, <2>2 DEF Job, Places
  <2> QED BY <2>2, <2>3, GoesOnInv
<1>3. CASE UNCHANGED vars
  <2>1. Grows BY <1>3 DEF vars, Grows, Reads
  <2>2. RowsAreThere' BY <1>3 DEF vars, IInv, RowsAreThere
  <2>3. lines \in Seq(BankRow) /\ upload \in [Uploads -> [row : Nat, on : BOOLEAN]]
    BY DEF IInv, ReconciliationTypeOK
  <2> QED BY <1>3, <2>1, <2>2, <2>3, ImportingInv DEF vars
<1> QED
  BY <1>1, <1>2, <1>3, <1>4, InsertInv, ConfirmInv, MakeInv, PostEntryInv, SaveInv, SetMethodInv,
     CrashInv DEF Next

-----------------------------------------------------------------------------
(* What follows *)

LEMMA RowsImported == IInv => ImportedOnce
<1> SUFFICES ASSUME IInv, NEW u \in Uploads, upload[u].row > Len(Statement),
                    NEW p \in Range(Statement)
             PROVE  Cardinality({n \in DOMAIN lines : lines[n].print = p}) = 1
  BY DEF ImportedOnce
<1>1. /\ Len(Statement) \in Nat /\ DOMAIN Statement = 1..Len(Statement)
      /\ DOMAIN lines = 1..Len(lines)
  BY LenProperties, ReconciliationAssumption DEF IInv, ReconciliationTypeOK
<1>2. PICK i \in 1..Len(Statement) : Statement[i] = p BY <1>1 DEF Range
<1>3. i \in 1..(upload[u].row - 1) BY <1>1 DEF IInv, RowsAreThere
<1>4. PICK n \in 1..Len(lines) : lines[n].print = p BY <1>2, <1>3 DEF IInv, RowsAreThere
<1>5. \A m \in 1..Len(lines) : lines[m].print = p => m = n BY <1>4 DEF IInv, RowsAreThere
<1>6. {m \in DOMAIN lines : lines[m].print = p} = {n} BY <1>1, <1>4, <1>5
<1> QED BY <1>6, FS_Singleton

LEMMA RecordsMarked == IInv => MarkFollowsRecord
<1> SUFFICES ASSUME IInv PROVE MarkFollowsRecord OBVIOUS
<1>1. DOMAIN lines = 1..Len(lines) /\ lines \in Seq(BankRow)
  BY LenProperties DEF IInv, ReconciliationTypeOK
<1>2. \A n \in Reconciled : \E rec \in records : rec.line = n BY DEF Reconciled
<1>3. \A n \in Unreconciled : n \in 1..Len(lines) /\ ~Marked(n) BY <1>1 DEF Unreconciled
<1>4. \A n \in 1..Len(lines) : Marked(n) => n \in Reconciled
  BY DEF IInv, MarksRecorded, Reconciled
<1>5. \A n \in Reconciled \cap Unreconciled :
        \E r \in Requests : req[r].pc = "save" /\ Match(r).line = n
  BY <1>2, <1>3 DEF IInv, MarksRecorded, Match
<1>6. ASSUME NEW r \in Requests, NEW k \in 1..(req[r].at - 1)
      PROVE  /\ lines[req[r].todo[k].line].status = "reconciled"
             /\ \E rec \in records : /\ rec.line = req[r].todo[k].line
                                     /\ rec.entry = req[r].todo[k].entry
  BY DEF IInv, KeepsOrder
<1> QED BY <1>1, <1>4, <1>5, <1>6 DEF MarkFollowsRecord

LEMMA MatchesLeftAlone == IInv => NeverUsedAgain
<1> SUFFICES ASSUME IInv, NEW r \in Requests, NEW s \in Requests, req[r].pc = "ok",
                    r \in req[s].before, NEW k \in DOMAIN req[r].todo
             PROVE  /\ req[s].own # None => req[r].todo[k].line # made[req[s].own]
                    /\ \A l \in DOMAIN req[s].todo : req[r].todo[k].entry # req[s].todo[l].entry
  BY DEF NeverUsedAgain
<1>1. LeavesAlone(s, r) BY DEF IInv, BeginsAfter
<1>2. /\ DOMAIN req[r].todo = 1..Len(req[r].todo)
      /\ DOMAIN req[s].todo = 1..Len(req[s].todo)
      /\ req[s].kind \in {"confirm", "make"}
  BY JobOf, LenProperties DEF IInv, Job
<1>3. req[s].own # None => req[s].kind = "make" /\ made[req[s].own] = req[s].todo[1].line
  BY <1>2 DEF IInv, KnowsEntry
<1> QED BY <1>1, <1>2, <1>3 DEF LeavesAlone

\* What the bank booked once is in the books once: a row is not imported twice, a line is
\* marked exactly with its reconciliation, and what a request was told is reconciled no
\* later request uses again - whatever uploads and requests overlap, and die between steps.
THEOREM BankMatchedOnce == Spec => []MatchedOnce
<1>1. IInv => MatchedOnce
  BY RowsImported, RecordsMarked, MatchesLeftAlone DEF MatchedOnce
<1> QED BY <1>1, InitInv, NextInv, PTL DEF Spec

-----------------------------------------------------------------------------
(* Scan: what is read of a statement *)

Perhaps == {NoNumber} \cup {Some(v) : v \in Int}
Reading == [numbers : Seq(Int), marker : {"none", "credit", "debit"}]

ScanTypeOK ==
  /\ paper \in [opening : Int, moves : [1..Rows -> Int \ {0}], columns : BOOLEAN, unsigned : BOOLEAN]
  /\ read \in Seq(Reading) /\ Len(read) <= Rows
  /\ label \in Perhaps /\ running \in Perhaps
  /\ \A f \in rows : f.row \in 1..Len(read)

\* After a row whose balance was read, that is the one the next is checked against.
RunningFollows == BalanceWasRead(Len(read)) => running = Some(Balance(Len(read)))

ScanInv == ScanTypeOK /\ RunningFollows /\ CheckedIsTrue

LEMMA BalanceFollows ==
  ASSUME ScanTypeOK
  PROVE  /\ Balance(0) = paper.opening /\ Balance(0) \in Int
         /\ \A n \in 1..Rows : Balance(n) = Balance(n - 1) + paper.moves[n]
         /\ \A n \in 0..Rows : Balance(n) \in Int
<1> USE ScanAssumption
<1> DEFINE moves == paper.moves
<1>1. moves \in [1..Rows -> Int] /\ paper.opening \in Int BY DEF ScanTypeOK
<1> HIDE DEF moves
<1>2. \A n \in 0..Rows : IsFiniteSet(1..n) BY FS_Interval
<1>3. \A n \in 0..Rows : SumFunctionOnSet(moves, 1..n) \in Int
  <2> TAKE n \in 0..Rows
  <2>1. \A k \in 1..n : moves[k] \in Int BY <1>1
  <2> QED BY <1>2, <2>1, SumType
<1>4. 1..0 = {} OBVIOUS
<1>5. Balance(0) = paper.opening
  <2>1. SumFunctionOnSet(moves, 1..0) = 0 BY <1>4, SumEmpty
  <2> QED BY <1>1, <2>1 DEF Balance, moves
<1>6. ASSUME NEW n \in 1..Rows PROVE Balance(n) = Balance(n - 1) + moves[n]
  <2>1. PICK m \in 0..Rows : m = n - 1 OBVIOUS
  <2>2. n \notin 1..m /\ (1..m) \cup {n} = 1..n BY <2>1
  <2>3. \A k \in (1..m) \cup {n} : moves[k] \in Int BY <1>1, <2>2
  <2>4. IsFiniteSet(1..m) BY <1>2
  <2>5. SumFunctionOnSet(moves, (1..m) \cup {n}) = moves[n] + SumFunctionOnSet(moves, 1..m)
    BY <2>2, <2>3, <2>4, SumAdd
  <2>6. SumFunctionOnSet(moves, 1..n) = moves[n] + SumFunctionOnSet(moves, 1..m) BY <2>2, <2>5
  <2>7. SumFunctionOnSet(moves, 1..m) \in Int /\ moves[n] \in Int BY <1>1, <1>3
  <2>8. Balance(n) = paper.opening + SumFunctionOnSet(moves, 1..n)
        /\ Balance(m) = paper.opening + SumFunctionOnSet(moves, 1..m)
    BY DEF Balance, moves
  <2>9. Balance(n) = Balance(m) + moves[n] BY <1>1, <2>6, <2>7, <2>8
  <2> QED BY <2>1, <2>9
<1>7. \A n \in 0..Rows : Balance(n) \in Int BY <1>1, <1>3 DEF Balance, moves
<1> QED BY <1>1, <1>5, <1>6, <1>7 DEF moves

\* A row has two numbers, or one, or none.
LEMMA RowNumbers ==
  ASSUME NEW a \in Perhaps, NEW b \in Perhaps
  PROVE  /\ a \o b \in Seq(Int)
         /\ \/ a \o b = <<>>
            \/ \E v \in Int : a \o b = <<v>>
            \/ \E v, w \in Int : a \o b = <<v, w>>
<1>1. CASE a = <<>> /\ b = <<>>
  <2>1. a \o b = <<>> BY <1>1
  <2> QED BY <2>1
<1>2. CASE a = <<>> /\ b # <<>>
  <2>1. PICK v \in Int : b = <<v>> BY <1>2 DEF Perhaps, NoNumber, Some
  <2>2. a \o b = <<v>> BY <1>2, <2>1
  <2> QED BY <2>2
<1>3. CASE a # <<>> /\ b = <<>>
  <2>1. PICK v \in Int : a = <<v>> BY <1>3 DEF Perhaps, NoNumber, Some
  <2>2. a \o b = <<v>> BY <1>3, <2>1
  <2> QED BY <2>2
<1>4. CASE a # <<>> /\ b # <<>>
  <2>1. PICK v \in Int : a = <<v>> BY <1>4 DEF Perhaps, NoNumber, Some
  <2>2. PICK w \in Int : b = <<w>> BY <1>4 DEF Perhaps, NoNumber, Some
  <2>3. <<v>> \o <<w>> = <<v, w>>
    <3>1. <<v>> \in Seq(Int) /\ <<w>> \in Seq(Int) /\ Len(<<v>>) = 1 /\ Len(<<w>>) = 1 OBVIOUS
    <3>2. PICK s : s = <<v>> \o <<w>> OBVIOUS
    <3>3. s \in Seq(Int) /\ Len(s) = 2 BY <3>1, <3>2
    <3>4. s[1] = v BY <3>1, <3>2, ConcatProperties
    <3>5. s[2] = w BY <3>1, <3>2, ConcatProperties
    <3>6. s = <<s[1], s[2]>> BY <3>3
    <3> QED BY <3>2, <3>4, <3>5, <3>6
  <2>4. a \o b = <<v, w>> BY <2>1, <2>2, <2>3
  <2> QED BY <2>4
<1> QED BY <1>1, <1>2, <1>3, <1>4

\* What two numbers, or one, are taken for.
LEMMA TwoNumbers ==
  ASSUME NEW v \in Int, NEW w \in Int
  PROVE  /\ AmountOf(<<v, w>>) = IF v = 0 THEN NoNumber ELSE Some(v)
         /\ BalanceOf(<<v, w>>) = Some(w)
<1> DEFINE numbers == <<v, w>>
           filled == {k \in 1..Len(numbers) - 1 : numbers[k] # 0}
<1>1. Len(numbers) = 2 /\ numbers[1] = v /\ numbers[2] = w OBVIOUS
<1>2. BalanceOf(numbers) = Some(w) BY <1>1 DEF BalanceOf
<1>3. 1..Len(numbers) - 1 = {1} BY <1>1
<1>4. CASE v = 0
  <2>1. filled = {} BY <1>1, <1>3, <1>4
  <2> QED BY <1>1, <1>2, <1>4, <2>1 DEF AmountOf
<1>5. CASE v # 0
  <2>1. filled = {1} BY <1>1, <1>3, <1>5
  <2>2. (CHOOSE k \in filled : \A j \in filled : j <= k) = 1 BY <2>1
  <2>3. AmountOf(numbers) = Some(numbers[CHOOSE k \in filled : \A j \in filled : j <= k])
    BY <1>1, <2>1 DEF AmountOf
  <2> QED BY <1>1, <1>2, <1>5, <2>2, <2>3
<1> QED BY <1>4, <1>5

LEMMA OneNumber ==
  ASSUME NEW v \in Int
  PROVE  AmountOf(<<v>>) = Some(v) /\ BalanceOf(<<v>>) = NoNumber
BY DEF AmountOf, BalanceOf

LEMMA SizeIs == \A n \in Int : Size(n) \in Nat /\ (Size(n) = n \/ Size(n) = -n) /\ (n # 0 => Size(n) > 0)
BY DEF Size

\* A movement that was checked against the balances before and after it is the bank's.
LEMMA BothBalances ==
  ASSUME ScanTypeOK, NEW n \in 1..Rows, running = Some(Balance(n - 1)),
         NEW v \in Int, v # 0, NEW w \in Int, w = Balance(n), NEW marker
  PROVE  LET f == Found(n, v, Some(w), marker)
             r == [row |-> f.row, amount |-> Size(Signed(f)),
                   direction |-> IF Signed(f) >= 0 THEN "credit" ELSE "debit"] IN
         /\ f.checked = Agrees(v, Some(w)) /\ f.row = n
         /\ Size(v) = Size(paper.moves[n]) => Agrees(v, Some(w))
         /\ Agrees(v, Some(w)) => /\ Direction(v, Some(w), marker) # "unknown"
                                  /\ Signed(f) # 0 /\ r.row = n /\ IsTrue(r)
<1> USE ScanAssumption
<1>1. PICK m \in Int : m = paper.moves[n] /\ m # 0 BY DEF ScanTypeOK
<1>2. PICK before \in Int : before = Balance(n - 1)
  <2>1. n - 1 \in 0..Rows OBVIOUS
  <2> QED BY <2>1, BalanceFollows
<1>3. w = before + m BY <1>1, <1>2, BalanceFollows
<1>4. Known(Some(w)) /\ Known(running) /\ The(Some(w)) = w /\ The(running) = before
  BY <1>2 DEF Known, Some, The, NoNumber
<1>5. Agrees(v, Some(w)) <=> Size(Size(m) - Size(v)) <= 1
  <2>1. w - before = m BY <1>3
  <2> QED BY <1>4, <2>1 DEF Agrees
<1>6. Size(v) = Size(m) => Agrees(v, Some(w))
  <2>1. Size(v) = Size(m) => Size(m) - Size(v) = 0 BY SizeIs
  <2>2. Size(0) = 0 BY DEF Size
  <2> QED BY <1>5, <2>1, <2>2
<1> DEFINE f == Found(n, v, Some(w), marker)
           r == [row |-> f.row, amount |-> Size(Signed(f)),
                 direction |-> IF Signed(f) >= 0 THEN "credit" ELSE "debit"]
<1>7. f.checked = Agrees(v, Some(w)) /\ f.row = n /\ f.amount = Size(v)
      /\ f.direction = Direction(v, Some(w), marker)
  BY DEF Found
<1>8. ASSUME Agrees(v, Some(w))
      PROVE  Direction(v, Some(w), marker) # "unknown" /\ Signed(f) # 0 /\ r.row = n /\ IsTrue(r)
  <2>1. f.direction = IF m < 0 THEN "debit" ELSE "credit"
    BY <1>1, <1>3, <1>4, <1>7, <1>8 DEF Direction
  <2>2. f.amount \in Nat /\ f.amount > 0 BY <1>7, SizeIs
  <2> HIDE DEF f
  <2>3. Signed(f) = IF m < 0 THEN -f.amount ELSE f.amount BY <2>1 DEF Signed
  <2>4. r.row = n /\ r.amount = f.amount /\ r.direction = f.direction
    BY <1>7, <2>1, <2>2, <2>3 DEF Size
  <2>5. Size(f.amount - Size(m)) <= 1
    <3>1. Size(Size(m) - Size(v)) <= 1 BY <1>5, <1>8
    <3>2. Size(m) \in Int /\ Size(v) \in Int BY SizeIs
    <3>3. \A x, y \in Int : Size(x - y) = Size(y - x) BY DEF Size
    <3> QED BY <1>7, <3>1, <3>2, <3>3
  <2>6. IsTrue(r) BY <1>1, <2>1, <2>4, <2>5 DEF IsTrue
  <2> QED BY <1>7, <2>1, <2>2, <2>3, <2>4, <2>6
<1> QED BY <1>1, <1>6, <1>7, <1>8

LEMMA ReadingIs ==
  ASSUME NEW x \in Int, NEW a \in Readings(x)
  PROVE  a.value \in Perhaps /\ a.wrong \in {0, 1}
BY ScanAssumption DEF Readings, Perhaps

LEMMA PrintedIs ==
  ASSUME ScanTypeOK, NEW n \in 1..Rows
  PROVE  Printed(n).amount \in Int /\ Printed(n).balance \in Int
<1>1. paper.moves[n] \in Int /\ Balance(n) \in Int BY BalanceFollows, ScanAssumption DEF ScanTypeOK
<1> QED BY <1>1, SizeIs DEF Printed

\* What is read of one row more leaves what was read of the others.
LEMMA ReadGrows ==
  ASSUME ScanTypeOK, NEW reading \in Reading, Len(read) < Rows,
         read' = Append(read, reading), paper' = paper, label' = label
  PROVE  /\ read' \in Seq(Reading) /\ Len(read') = Len(read) + 1 /\ Len(read') <= Rows
         /\ \A n \in 1..Len(read) : read'[n] = read[n]
         /\ read'[Len(read) + 1] = reading
         /\ \A n \in Nat : Balance(n)' = Balance(n)
         /\ \A n \in 0..Len(read) : BalanceWasRead(n)' = BalanceWasRead(n)
         /\ \A n \in 1..Len(read) : AmountWasRead(n)' = AmountWasRead(n)
<1> USE ScanAssumption
<1>1. read \in Seq(Reading) /\ Len(read) \in Nat BY DEF ScanTypeOK
<1>2. read' \in Seq(Reading) /\ Len(read') = Len(read) + 1 /\ Len(read') <= Rows BY <1>1
<1>3. \A n \in 1..Len(read) : read'[n] = read[n] BY <1>1
<1>4. read'[Len(read) + 1] = reading BY <1>1
<1>5. \A n \in Nat : Balance(n)' = Balance(n) BY DEF Balance
<1>6. \A n \in 0..Len(read) : BalanceWasRead(n)' = BalanceWasRead(n)
  <2> TAKE n \in 0..Len(read)
  <2>1. Balance(n)' = Balance(n) BY <1>1, <1>5
  <2>2. CASE n = 0 BY <2>2 DEF BalanceWasRead
  <2>3. CASE n # 0
    <3>1. read'[n] = read[n] BY <1>1, <1>3, <2>3
    <3> QED BY <2>1, <2>3, <3>1 DEF BalanceWasRead
  <2> QED BY <2>2, <2>3
<1>7. \A n \in 1..Len(read) : AmountWasRead(n)' = AmountWasRead(n) BY <1>3 DEF AmountWasRead
<1> QED BY <1>2, <1>3, <1>4, <1>5, <1>6, <1>7

\* Rows that were found stay, and what was true of them.
LEMMA TrueStays ==
  ASSUME ScanInv, NEW reading \in Reading, Len(read) < Rows,
         read' = Append(read, reading), paper' = paper, label' = label, rows \subseteq rows'
  PROVE  /\ \A f \in rows : f.checked /\ BalanceWasRead(f.row - 1)' /\ BalanceWasRead(f.row)'
              => \E r \in Imported' : r.row = f.row /\ IsTrue(r)'
         /\ \A n \in 1..Len(read) : BalanceWasRead(n - 1)' /\ BalanceWasRead(n)' /\ AmountWasRead(n)'
              => \E r \in Imported' : r.row = n /\ IsTrue(r)'
<1>1. ScanTypeOK /\ CheckedIsTrue BY DEF ScanInv
<1>2. Imported \subseteq Imported' BY DEF Imported, Signed, Size
<1>3. \A r \in Imported : IsTrue(r)' = IsTrue(r) BY DEF IsTrue, Size
<1>4. /\ \A n \in 0..Len(read) : BalanceWasRead(n)' = BalanceWasRead(n)
      /\ \A n \in 1..Len(read) : AmountWasRead(n)' = AmountWasRead(n)
  BY <1>1, ReadGrows
<1>5. DOMAIN read = 1..Len(read) /\ Len(read) \in Nat BY <1>1 DEF ScanTypeOK
<1>6. \A n \in 1..Len(read) : n - 1 \in 0..Len(read) /\ n \in 0..Len(read) BY <1>5
<1>7. ASSUME NEW f \in rows, f.checked, BalanceWasRead(f.row - 1)', BalanceWasRead(f.row)'
      PROVE  \E r \in Imported' : r.row = f.row /\ IsTrue(r)'
  <2>1. f.row \in 1..Len(read) BY <1>1 DEF ScanTypeOK
  <2>2. BalanceWasRead(f.row - 1) /\ BalanceWasRead(f.row) BY <1>4, <1>6, <1>7, <2>1
  <2>3. PICK r \in Imported : r.row = f.row /\ IsTrue(r) BY <1>1, <1>7, <2>2 DEF CheckedIsTrue
  <2> QED BY <1>2, <1>3, <2>3
<1>8. ASSUME NEW n \in 1..Len(read), BalanceWasRead(n - 1)', BalanceWasRead(n)', AmountWasRead(n)'
      PROVE  \E r \in Imported' : r.row = n /\ IsTrue(r)'
  <2>1. BalanceWasRead(n - 1) /\ BalanceWasRead(n) /\ AmountWasRead(n) BY <1>4, <1>6, <1>8
  <2>2. PICK r \in Imported : r.row = n /\ IsTrue(r) BY <1>1, <1>5, <2>1 DEF CheckedIsTrue
  <2> QED BY <1>2, <1>3, <2>2
<1> QED BY <1>7, <1>8

\* A row that has no two numbers, or none but zeros before the balance, is no balance.
LEMMA NoBalance ==
  ASSUME ScanInv, NEW reading \in Reading, Len(read) < Rows,
         read' = Append(read, reading), paper' = paper, label' = label,
         ~(Len(reading.numbers) = 2 /\ reading.numbers[1] # 0), rows \subseteq rows',
         \A f \in rows' \ rows : f.row = Len(read) + 1, running' \in Perhaps
  PROVE  ScanInv'
<1>11. PICK n : n = Len(read) + 1 OBVIOUS
<1>1. ScanTypeOK /\ CheckedIsTrue BY DEF ScanInv
<1>2. /\ read' \in Seq(Reading) /\ Len(read') = n /\ Len(read') <= Rows /\ read'[n] = reading
  BY <1>1, <1>11, ReadGrows
<1>3. Len(read) \in Nat /\ n \in Nat /\ n # 0 BY <1>1, <1>11 DEF ScanTypeOK
<1>4. ~BalanceWasRead(n)' BY <1>2, <1>3 DEF BalanceWasRead
<1>5. \A f \in rows' : f.row \in 1..Len(read') BY <1>1, <1>2, <1>3, <1>11 DEF ScanTypeOK
<1>6. ScanTypeOK' BY <1>1, <1>2, <1>5 DEF ScanTypeOK
<1>7. RunningFollows' BY <1>2, <1>4 DEF RunningFollows
<1>8. \A f \in rows' : f.checked /\ BalanceWasRead(f.row - 1)' /\ BalanceWasRead(f.row)'
        => \E r \in Imported' : r.row = f.row /\ IsTrue(r)'
  <2> TAKE f \in rows'
  <2>1. CASE f \in rows BY <2>1, TrueStays
  <2>2. CASE f \notin rows
    <3>1. f.row = n BY <1>11, <2>2
    <3> QED BY <1>4, <3>1
  <2> QED BY <2>1, <2>2
<1>9. \A k \in DOMAIN read' : BalanceWasRead(k - 1)' /\ BalanceWasRead(k)' /\ AmountWasRead(k)'
        => \E r \in Imported' : r.row = k /\ IsTrue(r)'
  <2> TAKE k \in DOMAIN read'
  <2>1. k = n \/ k \in 1..Len(read) BY <1>2, <1>3, <1>11
  <2>2. CASE k = n BY <1>4, <2>2
  <2>3. CASE k \in 1..Len(read) BY <2>3, TrueStays
  <2> QED BY <2>1, <2>2, <2>3
<1>10. CheckedIsTrue' BY <1>8, <1>9 DEF CheckedIsTrue
<1> QED BY <1>6, <1>7, <1>10 DEF ScanInv

LEMMA SkipRowTrue ==
  ASSUME ScanInv, SkipRow
  PROVE  ScanInv'
<1> DEFINE reading == [numbers |-> <<>>, marker |-> "none"]
<1>1. reading \in Reading /\ Len(reading.numbers) = 0 BY DEF Reading
<1>2. running \in Perhaps BY DEF ScanInv, ScanTypeOK
<1> QED BY <1>1, <1>2, NoBalance DEF SkipRow

LEMMA ReadRowTrue ==
  ASSUME ScanInv, ReadRow
  PROVE  ScanInv'
<1> USE ScanAssumption
<1>17. PICK n : n = Len(read) + 1 OBVIOUS
<1>1. ScanTypeOK /\ RunningFollows /\ CheckedIsTrue BY DEF ScanInv
<1>2. Len(read) \in Nat /\ n \in 1..Rows /\ Len(read) < Rows /\ n - 1 = Len(read)
  BY <1>1, <1>17 DEF ScanTypeOK, ReadRow
<1>3. PICK a \in Readings(Printed(n).amount), b \in Readings(Printed(n).balance),
           marker \in {"none", "credit", "debit"} :
        LET numbers == a.value \o b.value IN
        /\ read' = Append(read, [numbers |-> numbers, marker |-> marker])
        /\ IF numbers = <<>> \/ ~Known(AmountOf(numbers))
           THEN unparsed' = unparsed \cup {n} /\ UNCHANGED <<rows, running>>
           ELSE TakeRow(n, numbers, marker)
  BY <1>17 DEF ReadRow
<1>4. a.value \in Perhaps /\ b.value \in Perhaps BY <1>1, <1>2, PrintedIs, ReadingIs
<1>5. PICK numbers : numbers = a.value \o b.value OBVIOUS
<1>6. numbers \in Seq(Int) /\ (numbers = <<>> \/ (\E v \in Int : numbers = <<v>>)
                               \/ \E v, w \in Int : numbers = <<v, w>>)
  BY <1>4, <1>5, RowNumbers
<1>7. paper' = paper /\ label' = label BY DEF ReadRow
<1>8. PICK reading : reading = [numbers |-> numbers, marker |-> marker] OBVIOUS
<1>9. reading \in Reading /\ reading.numbers = numbers BY <1>6, <1>8 DEF Reading
<1>10. read' = Append(read, reading) BY <1>3, <1>5, <1>8
<1>11. IF numbers = <<>> \/ ~Known(AmountOf(numbers))
       THEN UNCHANGED <<rows, running>> ELSE TakeRow(n, numbers, marker)
  BY <1>3, <1>5
<1>12. running \in Perhaps BY <1>1 DEF ScanTypeOK
<1>13. ASSUME TakeRow(n, numbers, marker), BalanceOf(numbers) \in Perhaps
       PROVE  /\ rows \subseteq rows' /\ \A f \in rows' \ rows : f.row = Len(read) + 1
              /\ running' \in Perhaps
  <2>1. rows' = rows \/ rows' = rows \cup {Found(n, The(AmountOf(numbers)), BalanceOf(numbers), marker)}
    BY <1>13 DEF TakeRow
  <2>2. running' = BalanceOf(numbers) \/ running' = running BY <1>13 DEF TakeRow
  <2> QED BY <1>12, <1>13, <1>17, <2>1, <2>2 DEF Found
<1>14. CASE numbers = <<>>
  <2>1. UNCHANGED <<rows, running>> BY <1>11, <1>14
  <2>2. Len(reading.numbers) = 0 BY <1>9, <1>14
  <2> QED BY <1>2, <1>7, <1>9, <1>10, <1>12, <2>1, <2>2, NoBalance
<1>15. CASE \E v \in Int : numbers = <<v>>
  <2>1. PICK v \in Int : numbers = <<v>> BY <1>15
  <2>2. Len(reading.numbers) = 1 BY <1>9, <2>1
  <2>3. BalanceOf(numbers) \in Perhaps BY <2>1, OneNumber DEF Perhaps
  <2>4. UNCHANGED <<rows, running>> \/ TakeRow(n, numbers, marker) BY <1>11
  <2>5. /\ rows \subseteq rows' /\ \A f \in rows' \ rows : f.row = Len(read) + 1
        /\ running' \in Perhaps
    BY <1>12, <1>13, <2>3, <2>4
  <2> QED BY <1>2, <1>7, <1>9, <1>10, <2>2, <2>5, NoBalance
<1>16. CASE \E v, w \in Int : numbers = <<v, w>>
  <2>1. PICK v \in Int, w \in Int : numbers = <<v, w>> BY <1>16
  <2>2. numbers[1] = v /\ numbers[2] = w /\ Len(numbers) = 2 BY <2>1
  <2>3. AmountOf(numbers) = (IF v = 0 THEN NoNumber ELSE Some(v)) /\ BalanceOf(numbers) = Some(w)
    BY <2>1, TwoNumbers
  <2>4. CASE v = 0
    <3>1. ~Known(AmountOf(numbers)) BY <2>3, <2>4 DEF Known
    <3>2. UNCHANGED <<rows, running>> BY <1>11, <3>1
    <3> QED BY <1>2, <1>7, <1>9, <1>10, <1>12, <2>2, <2>4, <3>2, NoBalance
  <2>5. CASE v # 0
    <3>1. AmountOf(numbers) = Some(v) /\ The(Some(v)) = v /\ Known(Some(v)) /\ Known(Some(w))
          /\ numbers # <<>> /\ Some(w) \in Perhaps
      BY <2>1, <2>3, <2>5 DEF Known, Some, The, NoNumber, Perhaps
    <3>2. TakeRow(n, numbers, marker) BY <1>11, <3>1
    <3>3. running' = Some(w) BY <2>3, <3>1, <3>2 DEF TakeRow
    <3>16. PICK found : found = Found(n, v, Some(w), marker) OBVIOUS
    <3>17. PICK image : image = [row |-> found.row, amount |-> Size(Signed(found)),
                                 direction |-> IF Signed(found) >= 0 THEN "credit" ELSE "debit"]
      OBVIOUS
    <3>4. IF Direction(v, Some(w), marker) = "unknown" THEN rows' = rows ELSE rows' = rows \cup {found}
      BY <2>3, <3>1, <3>2, <3>16 DEF TakeRow
    <3>5. rows \subseteq rows' /\ \A f \in rows' : f \in rows \/ f = found BY <3>4
    <3>6. found.row = n BY <3>16 DEF Found
    <3>7. /\ read' \in Seq(Reading) /\ Len(read') = n /\ Len(read') <= Rows /\ read'[n] = reading
          /\ Balance(n)' = Balance(n)
          /\ BalanceWasRead(n - 1)' = BalanceWasRead(n - 1)
      <4>1. n - 1 \in 0..Len(read) /\ n \in Nat BY <1>2
      <4> QED BY <1>1, <1>2, <1>7, <1>9, <1>10, <1>17, <4>1, ReadGrows
    <3>8. BalanceWasRead(n)' <=> w = Balance(n)
      <4>1. n # 0 BY <1>2
      <4> QED BY <1>9, <2>2, <2>5, <3>7, <4>1 DEF BalanceWasRead
    <3>9. AmountWasRead(n)' <=> Size(v) = Size(paper.moves[n])
      <4>1. read'[n].numbers[1] = v BY <1>9, <2>2, <3>7
      <4> QED BY <1>7, <4>1 DEF AmountWasRead, Size
    \* The two balances were read, and the check was passed.
    <3>10. ASSUME BalanceWasRead(n - 1)', BalanceWasRead(n)', found.checked \/ AmountWasRead(n)'
           PROVE  \E r \in Imported' : r.row = n /\ IsTrue(r)'
      <4>1. running = Some(Balance(n - 1))
        <5>1. BalanceWasRead(n - 1) BY <3>7, <3>10
        <5>2. BalanceWasRead(Len(read)) BY <1>2, <5>1
        <5>3. running = Some(Balance(Len(read))) BY <1>1, <5>2 DEF RunningFollows
        <5> QED BY <1>2, <5>3
      <4>2. w = Balance(n) BY <3>8, <3>10
      <4>3. /\ found.checked = Agrees(v, Some(w))
            /\ Size(v) = Size(paper.moves[n]) => Agrees(v, Some(w))
            /\ Agrees(v, Some(w)) => /\ Direction(v, Some(w), marker) # "unknown"
                                     /\ Signed(found) # 0 /\ image.row = n /\ IsTrue(image)
        BY <1>1, <1>2, <2>5, <3>16, <3>17, <4>1, <4>2, BothBalances
      <4>4. Agrees(v, Some(w)) BY <3>9, <3>10, <4>3
      <4>5. found \in rows' BY <3>4, <4>3, <4>4
      <4>6. image \in Imported'
        <5>1. Signed(found) # 0 BY <4>3, <4>4
        <5>2. image \in {[row |-> f.row, amount |-> Size(Signed(f)),
                          direction |-> IF Signed(f) >= 0 THEN "credit" ELSE "debit"] :
                           f \in {g \in rows' : Signed(g) # 0}}
          BY <3>17, <4>5, <5>1
        <5> QED BY <5>2 DEF Imported, Signed, Size
      <4>7. IsTrue(image)' BY <1>7, <4>3, <4>4 DEF IsTrue, Size
      <4> QED BY <4>3, <4>4, <4>6, <4>7
    <3>11. ScanTypeOK'
      <4>1. \A f \in rows' : f.row \in 1..Len(read')
        <5> TAKE f \in rows'
        <5>1. CASE f = found BY <1>2, <1>17, <3>6, <3>7, <5>1
        <5>2. CASE f \in rows BY <1>1, <1>2, <3>7, <5>2 DEF ScanTypeOK
        <5> QED BY <3>5, <5>1, <5>2
      <4> QED BY <1>1, <1>7, <3>1, <3>3, <3>7, <4>1 DEF ScanTypeOK
    <3>12. RunningFollows' BY <3>3, <3>7, <3>8 DEF RunningFollows
    <3>13. \A f \in rows' : f.checked /\ BalanceWasRead(f.row - 1)' /\ BalanceWasRead(f.row)'
             => \E r \in Imported' : r.row = f.row /\ IsTrue(r)'
      <4> TAKE f \in rows'
      <4>1. CASE f = found BY <3>6, <3>10, <4>1
      <4>2. CASE f \in rows BY <1>2, <1>7, <1>9, <1>10, <3>5, <4>2, TrueStays
      <4> QED BY <3>5, <4>1, <4>2
    <3>14. \A k \in DOMAIN read' : BalanceWasRead(k - 1)' /\ BalanceWasRead(k)' /\ AmountWasRead(k)'
             => \E r \in Imported' : r.row = k /\ IsTrue(r)'
      <4> TAKE k \in DOMAIN read'
      <4>1. k = n \/ k \in 1..Len(read) BY <1>2, <1>17, <3>7
      <4>2. CASE k = n BY <3>10, <4>2
      <4>3. CASE k \in 1..Len(read) BY <1>2, <1>7, <1>9, <1>10, <3>5, <4>3, TrueStays
      <4> QED BY <4>1, <4>2, <4>3
    <3>15. CheckedIsTrue' BY <3>13, <3>14 DEF CheckedIsTrue
    <3> QED BY <3>11, <3>12, <3>15 DEF ScanInv
  <2> QED BY <2>4, <2>5
<1> QED BY <1>6, <1>14, <1>15, <1>16

LEMMA ScanInvHolds == ScanSpec => []ScanInv
<1> USE ScanAssumption
<1>1. ScanInit => ScanInv
  <2> SUFFICES ASSUME ScanInit PROVE ScanInv
    OBVIOUS
  <2>1. read = <<>> /\ Len(read) = 0 /\ rows = {} /\ running = label BY DEF ScanInit
  <2>2. paper \in [opening : Int, moves : [1..Rows -> Int \ {0}], columns : BOOLEAN, unsigned : BOOLEAN]
    BY DEF ScanInit
  <2>3. label \in Perhaps BY <2>2 DEF ScanInit, Perhaps
  <2>4. ScanTypeOK BY <2>1, <2>2, <2>3 DEF ScanTypeOK
  <2>5. RunningFollows BY <2>1, <2>4, BalanceFollows DEF RunningFollows, BalanceWasRead
  <2>6. CheckedIsTrue BY <2>1 DEF CheckedIsTrue
  <2> QED BY <2>4, <2>5, <2>6 DEF ScanInv
<1>2. ScanInv /\ [ScanNext]_scanVars => ScanInv'
  <2> SUFFICES ASSUME ScanInv, [ScanNext]_scanVars PROVE ScanInv'
    OBVIOUS
  <2>1. CASE UNCHANGED scanVars
    <3>1. \A n \in Nat : Balance(n)' = Balance(n) BY <2>1 DEF scanVars, Balance
    <3>2. ScanTypeOK' BY <2>1 DEF ScanInv, ScanTypeOK, scanVars
    <3>3. RunningFollows' BY <2>1 DEF ScanInv, RunningFollows, BalanceWasRead, Balance, scanVars
    <3>4. CheckedIsTrue'
      BY <2>1 DEF ScanInv, CheckedIsTrue, BalanceWasRead, Balance, AmountWasRead, Imported, IsTrue,
                  Signed, Size, scanVars
    <3> QED BY <3>2, <3>3, <3>4 DEF ScanInv
  <2> QED BY <2>1, ReadRowTrue, SkipRowTrue DEF ScanNext
<1> QED BY <1>1, <1>2, PTL DEF ScanSpec

-----------------------------------------------------------------------------
(* Recognition: what is read of a file *)

Text == [Figures -> Int]
Page == [text : Text, of : Files \X Nat, confidence : {ClearPage, PoorPage}]
Extraction == [taxable : Int, total : Int, arithmeticOk : {"unknown", "yes", "no"}, base : Int, pages : Nat]
Upload == [at : {"new", "queued", "sent", "extracted"}, page : Nat, got : Seq(Page),
           failed : BOOLEAN, doc : Extraction]
Worker == [at : {"none", "starting", "ready"}, page : {NoPage} \cup (Files \X Nat)]

RecognitionTypeOK ==
  /\ file \in [Files -> Papers]
  /\ scan \in [Files -> Upload]
  /\ tail \in Seq(Files)
  /\ worker \in Worker

PagesOf(sheet) == IF Len(sheet.clear) < MaxPages THEN Len(sheet.clear) ELSE MaxPages
PoorOf(sheet)  == {n \in 1..PagesOf(sheet) : ~sheet.clear[n]}

\* A page that was read is a file's n-th; a clear one is read right.
IsPage(page, sheet, f, n) ==
  /\ page.of = <<f, n>>
  /\ page.confidence = IF sheet.clear[n] THEN ClearPage ELSE PoorPage
  /\ sheet.clear[n] =>
       \A g \in Figures : page.text[g] = IF sheet.stands[g] = n THEN Invoice[g] ELSE Lost

\* What ReadIsOwn says of an extraction.
DocFits(found, count, failed, sheet) ==
  LET shown == {found.taxable, found.total} \ {Lost}
      wrong == found.taxable \notin {Lost, 10} \/ found.total \notin {Lost, 12}
  IN /\ shown # {} => found.base >= Floor /\ found.arithmeticOk # "no"
     /\ wrong => PoorOf(sheet) # {} /\ count > 1 /\ PoorOf(sheet) # 1..PagesOf(sheet)
     /\ /\ sheet.kind = "scan" /\ sheet.declared # "text" /\ ~failed
        /\ PoorOf(sheet) = {} /\ (\A g \in Figures : sheet.stands[g] \in 1..PagesOf(sheet))
        => found.taxable = 10 /\ found.total = 12

\* The pages read of an upload are its own; while it waits it is at the next one.
UploadFits(up, sheet, f) ==
  /\ \A n \in DOMAIN up.got : IsPage(up.got[n], sheet, f, n)
  /\ up.at = "new" => up.got = <<>> /\ up.page = 1
  /\ up.at \in {"queued", "sent"} => up.page = Len(up.got) + 1 /\ up.page <= PagesOf(sheet)
  /\ up.at = "extracted" => DocFits(up.doc, Len(up.got), up.failed, sheet)

\* Only the upload whose turn it is has a page at the worker.
OneAtWorker ==
  \A f \in Files : scan[f].at = "sent" => Turn(f) /\ worker.page = <<f, scan[f].page>>

RecognitionInv ==
  RecognitionTypeOK /\ (\A f \in Files : UploadFits(scan[f], file[f], f)) /\ OneAtWorker

LEMMA InvoiceIs ==
  /\ Invoice \in Text /\ NoText \in Text
  /\ Invoice["taxable"] = 10 /\ Invoice["tax"] = 2 /\ Invoice["total"] = 12
  /\ \A g \in Figures : Invoice[g] # Lost /\ Invoice[g] \in Int /\ NoText[g] = Lost
BY DEF Invoice, NoText, Text, Figures, Lost

LEMMA PagesAre ==
  ASSUME NEW sheet \in Papers
  PROVE  /\ PagesOf(sheet) \in Nat /\ PagesOf(sheet) >= 1
         /\ sheet.stands \in [Figures -> Nat \ {0}]
         /\ \A n \in 1..PagesOf(sheet) : sheet.clear[n] \in BOOLEAN
<1>1. sheet.clear \in Seq(BOOLEAN) /\ sheet.clear # <<>> BY PapersAssumption
<1>2. Len(sheet.clear) \in Nat /\ Len(sheet.clear) >= 1 BY <1>1, EmptySeq
<1>3. PagesOf(sheet) \in Nat /\ PagesOf(sheet) >= 1 /\ PagesOf(sheet) <= Len(sheet.clear)
  BY <1>2, RecognitionAssumption DEF PagesOf
<1>4. \A n \in 1..PagesOf(sheet) : sheet.clear[n] \in BOOLEAN BY <1>1, <1>2, <1>3
<1>5. sheet.stands \in [Figures -> Nat \ {0}] BY PapersAssumption DEF Figures
<1> QED BY <1>3, <1>4, <1>5

-----------------------------------------------------------------------------
(* The mean *)

LEMMA SumOfEqual ==
  ASSUME NEW S, IsFiniteSet(S), NEW f, NEW c \in Nat, \A x \in S : f[x] = c
  PROVE  SumFunctionOnSet(f, S) = c * Cardinality(S)
<1> DEFINE good == {T \in SUBSET S : SumFunctionOnSet(f, T) = c * Cardinality(T)}
<1>1. {} \in good
  <2>1. SumFunctionOnSet(f, {}) = 0 /\ Cardinality({}) = 0 BY SumEmpty, FS_EmptySet
  <2>2. c * 0 = 0 OBVIOUS
  <2> QED BY <2>1, <2>2
<1>2. ASSUME NEW T \in good, NEW x \in S \ T PROVE T \cup {x} \in good
  <2>1. IsFiniteSet(T) /\ Cardinality(T) \in Nat BY FS_Subset, FS_CardinalityType
  <2>2. Cardinality(T \cup {x}) = Cardinality(T) + 1 BY <2>1, FS_AddElement
  <2>3. SumFunctionOnSet(f, T \cup {x}) = f[x] + SumFunctionOnSet(f, T)
    <3>1. x \notin T /\ \A y \in T \cup {x} : f[y] \in Int OBVIOUS
    <3> HIDE DEF good
    <3> QED BY <2>1, <3>1, SumAdd
  <2>4. PICK k \in Nat : k = Cardinality(T) BY <2>1
  <2>5. c * (k + 1) = c * k + c OBVIOUS
  <2>6. SumFunctionOnSet(f, T) = c * k /\ f[x] = c BY <2>4
  <2>7. SumFunctionOnSet(f, T \cup {x}) = c * Cardinality(T \cup {x}) BY <2>2, <2>3, <2>4, <2>5, <2>6
  <2> QED BY <2>7
<1>3. good \in SUBSET SUBSET S OBVIOUS
<1>4. S \in good
  <2> HIDE DEF good
  <2> QED BY <1>1, <1>2, <1>3, SetInduction
<1> QED BY <1>4

LEMMA Quotient == ASSUME NEW c \in Nat, NEW n \in Nat, n >= 1 PROVE (c * n) \div n = c
OBVIOUS

LEMMA MeanOfEqual ==
  ASSUME NEW pages, NEW n \in Nat, n >= 1, DOMAIN pages = 1..n, Len(pages) = n,
         NEW c \in Nat, \A k \in 1..n : pages[k].confidence = c
  PROVE  Mean(pages) = c
<1> DEFINE f == [k \in DOMAIN pages |-> pages[k].confidence]
<1>1. IsFiniteSet(1..n) /\ Cardinality(1..n) = n BY FS_Interval
<1>2. \A k \in 1..n : f[k] = c OBVIOUS
<1> HIDE DEF f
<1>3. SumFunctionOnSet(f, 1..n) = c * Cardinality(1..n) BY <1>1, <1>2, SumOfEqual
<1>4. SumFunctionOnSet(f, 1..n) = c * n BY <1>1, <1>3
<1>5. Mean(pages) = SumFunctionOnSet(f, 1..n) \div n BY DEF Mean, f
<1> QED BY <1>4, <1>5, Quotient

LEMMA MeanType ==
  ASSUME NEW pages \in Seq(Page), Len(pages) >= 1
  PROVE  Mean(pages) \in Int
<1> DEFINE f == [k \in DOMAIN pages |-> pages[k].confidence]
<1>1. DOMAIN pages = 1..Len(pages) /\ Len(pages) \in Nat OBVIOUS
<1>2. IsFiniteSet(DOMAIN pages) BY <1>1, FS_Interval
<1>3. \A k \in DOMAIN pages : f[k] \in Int
  <2> TAKE k \in DOMAIN pages
  <2>1. pages[k] \in Page BY <1>1
  <2>2. pages[k].confidence \in {ClearPage, PoorPage} BY <2>1 DEF Page
  <2> QED BY <2>2 DEF ClearPage, PoorPage
<1> HIDE DEF f
<1>4. SumFunctionOnSet(f, DOMAIN pages) \in Int BY <1>2, <1>3, SumType
<1>5. Mean(pages) = SumFunctionOnSet(f, DOMAIN pages) \div Len(pages) BY DEF Mean, f
<1> QED BY <1>1, <1>4, <1>5

-----------------------------------------------------------------------------
(* The extraction *)

LEMMA GateIs ==
  ASSUME NEW v \in Int, NEW c \in Int
  PROVE  gate(v, c) \in Int /\ gate(v, c) \in {v, Lost} /\ (gate(v, c) # Lost => c >= Floor)
         /\ (c >= Floor => gate(v, c) = v)
BY DEF gate, Lost, Floor

\* Figures are shown if they are read well enough, and unless they refute each other.
LEMMA ParseIs ==
  ASSUME NEW text \in Text, NEW base \in Int, NEW pages \in Nat
  PROVE  LET found == parseInvoiceText(text, base, pages)
             shown == {found.taxable, found.total} \ {Lost} IN
         /\ found \in Extraction
         /\ found.taxable \in {text["taxable"], Lost} /\ found.total \in {text["total"], Lost}
         /\ shown # {} => base >= Floor /\ found.base = base /\ found.arithmeticOk # "no"
         /\ text = Invoice /\ base >= Floor => found.taxable = 10 /\ found.total = 12
<1> DEFINE whole == \A g \in Figures : text[g] # Lost
           ok == text["taxable"] + text["tax"] = text["total"]
           confidence == IF whole /\ ~ok THEN PoorPage ELSE base
           found == parseInvoiceText(text, base, pages)
<1>1. text["taxable"] \in Int /\ text["tax"] \in Int /\ text["total"] \in Int BY DEF Text, Figures
<1>2. confidence \in Int /\ (confidence >= Floor => base >= Floor /\ ~(whole /\ ~ok))
  BY DEF PoorPage, Floor
<1>3. /\ found.taxable = gate(text["taxable"], confidence) /\ found.total = gate(text["total"], confidence)
      /\ found.arithmeticOk = IF ~whole THEN "unknown" ELSE IF ok THEN "yes" ELSE "no"
      /\ found.base = base
  BY DEF parseInvoiceText
<1>4. found = [taxable |-> found.taxable, total |-> found.total, arithmeticOk |-> found.arithmeticOk,
             base |-> base, pages |-> pages]
  BY DEF parseInvoiceText
<1>5. ASSUME text = Invoice, base >= Floor PROVE confidence >= Floor /\ text["taxable"] = 10 /\ text["total"] = 12
  <2>1. ok BY <1>5, InvoiceIs
  <2> QED BY <1>5, <2>1, InvoiceIs
<1> HIDE DEF whole, ok, confidence, found
<1>6. found.taxable \in Int /\ found.total \in Int /\ found.taxable \in {text["taxable"], Lost}
      /\ found.total \in {text["total"], Lost}
  <2>1. gate(text["taxable"], confidence) \in Int /\ gate(text["taxable"], confidence) \in {text["taxable"], Lost}
    BY <1>1, <1>2, GateIs
  <2>2. gate(text["total"], confidence) \in Int /\ gate(text["total"], confidence) \in {text["total"], Lost}
    BY <1>1, <1>2, GateIs
  <2> QED BY ONLY <1>3, <2>1, <2>2
<1>7. found \in Extraction BY <1>3, <1>4, <1>6 DEF Extraction
<1>8. ASSUME {found.taxable, found.total} \ {Lost} # {} PROVE base >= Floor /\ found.base = base /\ found.arithmeticOk # "no"
  <2>1. found.taxable # Lost \/ found.total # Lost BY <1>8
  <2>2. confidence >= Floor BY <1>1, <1>2, <1>3, <2>1, GateIs
  <2> QED BY <1>2, <1>3, <2>2
<1>9. text = Invoice /\ base >= Floor => found.taxable = 10 /\ found.total = 12
  BY <1>1, <1>2, <1>3, <1>5, GateIs
<1> QED BY <1>6, <1>7, <1>8, <1>9 DEF found

\* Of pages one after the other a figure is the first there is.
LEMMA JoinedIs ==
  ASSUME NEW pages \in Seq(Page), NEW g \in Figures
  PROVE  /\ Joined(pages) \in Text
         /\ \/ Joined(pages)[g] = Lost /\ \A n \in DOMAIN pages : pages[n].text[g] = Lost
            \/ \E n \in DOMAIN pages : Joined(pages)[g] = pages[n].text[g] /\ pages[n].text[g] # Lost
<1>1. DOMAIN pages \subseteq Nat OBVIOUS
<1>2. \A n \in DOMAIN pages : pages[n].text \in Text
  <2> TAKE n \in DOMAIN pages
  <2>1. pages[n] \in Page OBVIOUS
  <2> QED BY <2>1 DEF Page
<1> DEFINE Where(z) == {n \in DOMAIN pages : pages[n].text[z] # Lost}
           Least(z) == CHOOSE n \in Where(z) : \A m \in Where(z) : n <= m
<1>3. ASSUME NEW z \in Figures, Where(z) # {} PROVE Least(z) \in Where(z)
  <2>1. Where(z) \in SUBSET Nat BY <1>1
  <2>2. \E n \in Where(z) : \A m \in Where(z) : n <= m
    <3> HIDE DEF Where
    <3> QED BY <1>3, <2>1, LeastNat
  <2> QED BY <2>2
<1>4. \A z \in Figures : Joined(pages)[z] = IF Where(z) = {} THEN Lost ELSE pages[Least(z)].text[z]
  BY DEF Joined
<1>5. \A z \in Figures : Least(z) \in Where(z) => Least(z) \in DOMAIN pages /\ pages[Least(z)].text[z] # Lost
  OBVIOUS
<1>6. \A z \in Figures : Where(z) = {} => \A n \in DOMAIN pages : pages[n].text[z] = Lost OBVIOUS
<1> HIDE DEF Where, Least
<1>7. \A z \in Figures : Joined(pages)[z] \in Int
  <2> TAKE z \in Figures
  <2>1. CASE Where(z) = {} BY <1>4, <2>1 DEF Lost
  <2>2. CASE Where(z) # {}
    <3>1. Least(z) \in DOMAIN pages BY <1>3, <1>5, <2>2
    <3>2. pages[Least(z)].text \in Text BY <1>2, <3>1
    <3> QED BY <1>4, <2>2, <3>2 DEF Text
  <2> QED BY <2>1, <2>2
<1>8. Joined(pages) = [z \in Figures |-> Joined(pages)[z]] BY DEF Joined
<1>9. Joined(pages) \in Text BY <1>7, <1>8 DEF Text
<1>10. CASE Where(g) = {} BY <1>4, <1>6, <1>9, <1>10
<1>11. CASE Where(g) # {} BY <1>3, <1>4, <1>5, <1>9, <1>11
<1> QED BY <1>10, <1>11

\* All the pages of a file are read: what is extracted fits.
LEMMA AllPagesFit ==
  ASSUME NEW sheet \in Papers, NEW f \in Files, NEW got \in Seq(Page), Len(got) = PagesOf(sheet),
         \A n \in DOMAIN got : IsPage(got[n], sheet, f, n), NEW failed \in BOOLEAN
  PROVE  /\ parseInvoiceText(Joined(got), Mean(got), Len(got)) \in Extraction
         /\ DocFits(parseInvoiceText(Joined(got), Mean(got), Len(got)), Len(got), failed, sheet)
<1> DEFINE text == Joined(got)
           base == Mean(got)
           found == parseInvoiceText(text, base, Len(got))
<1>1. DOMAIN got = 1..Len(got) /\ Len(got) \in Nat /\ Len(got) >= 1 /\ 1..Len(got) = 1..PagesOf(sheet)
  BY PagesAre
<1>2. "taxable" \in Figures /\ "total" \in Figures BY DEF Figures
<1>3. text \in Text BY <1>2, JoinedIs
<1>4. base \in Int BY <1>1, MeanType
<1>5. \A n \in 1..Len(got) : sheet.clear[n] \in BOOLEAN BY <1>1, PagesAre
<1> HIDE DEF text, base
<1>6. /\ found \in Extraction
      /\ found.taxable \in {text["taxable"], Lost} /\ found.total \in {text["total"], Lost}
      /\ {found.taxable, found.total} \ {Lost} # {} => base >= Floor /\ found.base = base /\ found.arithmeticOk # "no"
      /\ text = Invoice /\ base >= Floor => found.taxable = 10 /\ found.total = 12
  BY <1>1, <1>3, <1>4, ParseIs
<1> HIDE DEF found
\* On clear pages figures are read right, if they stand there.
<1>7. ASSUME PoorOf(sheet) = {}, NEW g \in Figures PROVE text[g] \in {Lost, Invoice[g]}
  <2>1. \A n \in DOMAIN got : sheet.clear[n] BY <1>1, <1>7 DEF PoorOf
  <2>2. \A n \in DOMAIN got : got[n].text[g] \in {Lost, Invoice[g]} BY <2>1 DEF IsPage
  <2> QED BY <2>2, JoinedIs DEF text
<1>8. ASSUME PoorOf(sheet) = 1..PagesOf(sheet) PROVE base < Floor
  <2>1. \A n \in 1..Len(got) : got[n].confidence = PoorPage BY <1>1, <1>8 DEF PoorOf, IsPage
  <2>2. PoorPage \in Nat /\ PoorPage < Floor BY DEF PoorPage, Floor
  <2>3. base = PoorPage BY <1>1, <2>1, <2>2, MeanOfEqual DEF base
  <2> QED BY <2>2, <2>3
<1>9. ASSUME PoorOf(sheet) = {}, \A g \in Figures : sheet.stands[g] \in 1..PagesOf(sheet)
      PROVE  found.taxable = 10 /\ found.total = 12
  <2>1. \A n \in 1..Len(got) : sheet.clear[n] BY <1>1, <1>9 DEF PoorOf
  <2>2. \A n \in 1..Len(got) : got[n].confidence = ClearPage BY <1>1, <2>1 DEF IsPage
  <2>3. ClearPage \in Nat /\ ClearPage >= Floor BY DEF ClearPage, Floor
  <2>4. base = ClearPage BY <1>1, <2>2, <2>3, MeanOfEqual DEF base
  <2>5. ASSUME NEW g \in Figures PROVE text[g] = Invoice[g]
    <3>1. sheet.stands[g] \in DOMAIN got BY <1>1, <1>9
    <3>2. got[sheet.stands[g]].text[g] = Invoice[g] BY <1>1, <2>1, <3>1 DEF IsPage
    <3>3. \A n \in DOMAIN got : got[n].text[g] = Lost \/ got[n].text[g] = Invoice[g]
      BY <1>1, <2>1 DEF IsPage
    <3> QED BY <3>1, <3>2, <3>3, JoinedIs, InvoiceIs DEF text
  <2>6. text = Invoice BY <1>3, <2>5, InvoiceIs DEF Text
  <2> QED BY <1>6, <2>3, <2>4, <2>6
<1>10. ASSUME found.taxable \notin {Lost, 10} \/ found.total \notin {Lost, 12}
       PROVE  PoorOf(sheet) # {} /\ Len(got) > 1 /\ PoorOf(sheet) # 1..PagesOf(sheet)
  <2>1. PoorOf(sheet) # {} BY <1>2, <1>6, <1>7, <1>10, InvoiceIs
  <2>2. {found.taxable, found.total} \ {Lost} # {} BY <1>10
  <2>3. PoorOf(sheet) # 1..PagesOf(sheet) 
    <3> SUFFICES ASSUME PoorOf(sheet) = 1..PagesOf(sheet) PROVE FALSE OBVIOUS
    <3>1. base < Floor BY <1>8
    <3>2. base >= Floor BY <1>6, <2>2
    <3>3. Floor \in Int BY DEF Floor
    <3> QED BY ONLY <1>4, <3>1, <3>2, <3>3
  <2>4. Len(got) # 1
    <3>1. Len(got) = 1 => 1..PagesOf(sheet) = {1} BY <1>1
    <3>2. PoorOf(sheet) \subseteq 1..PagesOf(sheet) BY DEF PoorOf
    <3> QED BY <2>1, <2>3, <3>1, <3>2
  <2> QED BY <1>1, <2>1, <2>3, <2>4
<1>11. DocFits(found, Len(got), failed, sheet) BY <1>6, <1>9, <1>10 DEF DocFits
<1> QED BY <1>6, <1>11 DEF found, text, base

\* What has no pages to read fits, whatever it says.
LEMMA GivenFits ==
  ASSUME NEW sheet \in Papers, NEW text \in {Invoice, NoText}, NEW base \in Nat, NEW pages \in Nat,
         NEW count \in Nat, NEW failed \in BOOLEAN,
         sheet.kind # "scan" \/ sheet.declared = "text" \/ failed
  PROVE  /\ parseInvoiceText(text, base, pages) \in Extraction
         /\ DocFits(parseInvoiceText(text, base, pages), count, failed, sheet)
<1> DEFINE found == parseInvoiceText(text, base, pages)
<1>1. text \in Text /\ text["taxable"] \in {Lost, 10} /\ text["total"] \in {Lost, 12}
  <2>1. CASE text = Invoice BY <2>1, InvoiceIs
  <2>2. CASE text = NoText BY <2>2 DEF NoText, Text, Figures, Lost
  <2> QED BY <2>1, <2>2
<1>2. base \in Int OBVIOUS
<1>3. /\ found \in Extraction
      /\ found.taxable \in {text["taxable"], Lost} /\ found.total \in {text["total"], Lost}
      /\ {found.taxable, found.total} \ {Lost} # {} => base >= Floor /\ found.base = base /\ found.arithmeticOk # "no"
  BY <1>1, <1>2, ParseIs
<1> HIDE DEF found
<1>4. DocFits(found, count, failed, sheet) BY <1>1, <1>3 DEF DocFits
<1> QED BY <1>3, <1>4 DEF found

\* What the worker reads of a page is a page.
LEMMA ReadingFits ==
  ASSUME NEW sheet \in Papers, NEW f \in Files, NEW n \in 1..PagesOf(sheet), NEW text \in ReadingsOf(sheet, n),
         NEW page, page = [text |-> text, of |-> <<f, n>>,
                           confidence |-> IF sheet.clear[n] THEN ClearPage ELSE PoorPage]
  PROVE  page \in Page /\ IsPage(page, sheet, f, n)
<1>1. /\ text \in [Figures -> {Lost, Misread} \cup {Invoice[g] : g \in Figures}]
      /\ \A g \in Figures : text[g] \in IF sheet.stands[g] # n THEN {Lost}
                                         ELSE IF sheet.clear[n] THEN {Invoice[g]} ELSE {Invoice[g], Misread, Lost}
  BY DEF ReadingsOf
<1>2. {Lost, Misread} \cup {Invoice[g] : g \in Figures} \subseteq Int
  <2>1. \A g \in Figures : Invoice[g] \in Int BY InvoiceIs
  <2> QED BY <2>1 DEF Lost, Misread
<1>3. text \in Text BY <1>1, <1>2 DEF Text
<1>4. n \in Nat BY PagesAre
<1>5. page \in Page BY <1>3, <1>4 DEF Page
<1>6. ASSUME sheet.clear[n], NEW g \in Figures
      PROVE  page.text[g] = IF sheet.stands[g] = n THEN Invoice[g] ELSE Lost
  BY <1>1, <1>6
<1>7. page.of = <<f, n>> /\ page.confidence = IF sheet.clear[n] THEN ClearPage ELSE PoorPage OBVIOUS
<1> QED BY <1>5, <1>6, <1>7 DEF IsPage

-----------------------------------------------------------------------------
(* The invariant *)

LEMMA RecognitionStarts == RecognitionInit => RecognitionInv
<1> SUFFICES ASSUME RecognitionInit PROVE RecognitionInv OBVIOUS
<1>1. NoExtraction \in Extraction BY DEF NoExtraction, Extraction, Lost
<1>2. /\ file \in [Files -> Papers] /\ tail = <<>>
      /\ scan = [f \in Files |-> [at |-> "new", page |-> 1, got |-> <<>>, failed |-> FALSE, doc |-> NoExtraction]]
  BY DEF RecognitionInit
<1>0. worker \in Worker BY DEF RecognitionInit, Worker
<1>3. <<>> \in Seq(Page) /\ <<>> \in Seq(Files) OBVIOUS
<1>4. RecognitionTypeOK BY <1>0, <1>1, <1>2, <1>3 DEF RecognitionTypeOK, Upload
<1>5. ASSUME NEW f \in Files PROVE UploadFits(scan[f], file[f], f) BY <1>2 DEF UploadFits
<1>6. OneAtWorker BY <1>2 DEF OneAtWorker
<1> QED BY <1>4, <1>5, <1>6 DEF RecognitionInv

\* One upload changes.
LEMMA OneChanges ==
  ASSUME RecognitionInv, NEW f \in Files, NEW up \in Upload, scan' = [scan EXCEPT ![f] = up],
         UNCHANGED file, UploadFits(up, file[f], f), tail' \in Seq(Files), worker' \in Worker
  PROVE  /\ RecognitionTypeOK' /\ \A h \in Files : UploadFits(scan'[h], file'[h], h)
         /\ scan'[f] = up /\ \A h \in Files : h # f => scan'[h] = scan[h]
<1>1. scan \in [Files -> Upload] /\ file \in [Files -> Papers] BY DEF RecognitionInv, RecognitionTypeOK
<1>2. scan' \in [Files -> Upload] /\ scan'[f] = up /\ \A h \in Files : h # f => scan'[h] = scan[h] BY <1>1
<1>3. RecognitionTypeOK' BY <1>1, <1>2 DEF RecognitionTypeOK
<1>4. ASSUME NEW h \in Files PROVE UploadFits(scan'[h], file'[h], h)
  <2>1. CASE h = f BY <1>2, <2>1
  <2>2. CASE h # f BY <1>2, <2>2 DEF RecognitionInv
  <2> QED BY <2>1, <2>2
<1> QED BY <1>2, <1>3, <1>4

LEMMA ReceiveKeeps == ASSUME RecognitionInv, NEW f \in Files, Receive(f) PROVE RecognitionInv'
<1>1. /\ scan \in [Files -> Upload] /\ file \in [Files -> Papers] /\ tail \in Seq(Files) /\ OneAtWorker
      /\ UploadFits(scan[f], file[f], f) /\ worker \in Worker
  BY DEF RecognitionInv, RecognitionTypeOK
<1>2. scan[f].at = "new" /\ UNCHANGED <<file, worker, breaks>> BY DEF Receive
<1>3. PICK up : up = scan[f] OBVIOUS
<1>4. PICK sheet \in Papers : sheet = file[f] BY <1>1
<1>5. up \in Upload /\ up.got = <<>> /\ up.page = 1 BY <1>1, <1>2, <1>3 DEF UploadFits
<1>6. ASSUME NEW text \in {Invoice, NoText}, NEW base \in Nat, NEW pages \in Nat, UNCHANGED tail,
             Extracted(f, text, base, pages), sheet.kind # "scan" \/ sheet.declared = "text"
      PROVE  RecognitionInv'
  <2>1. PICK found : found = parseInvoiceText(text, base, pages) OBVIOUS
  <2>2. PICK next : next = [at |-> "extracted", page |-> up.page, got |-> up.got, failed |-> up.failed, doc |-> found]
    OBVIOUS
  <2>3. up.failed \in BOOLEAN /\ up.page \in Nat /\ up.got \in Seq(Page) BY <1>5 DEF Upload
  <2>4. found \in Extraction /\ DocFits(found, 0, up.failed, sheet) BY <1>6, <2>1, <2>3, GivenFits
  <2>5. next \in Upload BY <2>2, <2>3, <2>4 DEF Upload
  <2>6. scan' = [scan EXCEPT ![f] = next]
    <3>1. scan' = [scan EXCEPT ![f].at = "extracted", ![f].doc = found] BY <1>6, <2>1 DEF Extracted
    <3>2. PICK table : table = [scan EXCEPT ![f].at = "extracted"] OBVIOUS
    <3>3. PICK mid : mid = [at |-> "extracted", page |-> up.page, got |-> up.got, failed |-> up.failed, doc |-> up.doc]
      OBVIOUS
    <3>4. [up EXCEPT !.at = "extracted"] = mid BY <1>5, <3>3 DEF Upload
    <3>5. table = [scan EXCEPT ![f] = mid] BY <1>1, <1>3, <3>2, <3>4
    <3>6. scan' = [table EXCEPT ![f].doc = found] BY <3>1, <3>2
    <3>7. scan' = [scan EXCEPT ![f] = [mid EXCEPT !.doc = found]] BY <1>1, <3>5, <3>6
    <3>8. [mid EXCEPT !.doc = found] = next BY <2>2, <3>3
    <3> QED BY <3>7, <3>8
  <2>7. UploadFits(next, sheet, f)
    <3>1. Len(next.got) = 0 /\ DOMAIN next.got = {} BY <1>5, <2>2
    <3>2. /\ next.at = "extracted" /\ next.doc = found /\ next.failed = up.failed BY <2>2
    <3> QED BY <2>4, <3>1, <3>2 DEF UploadFits
  <2>8. UNCHANGED file /\ tail' \in Seq(Files) /\ worker' \in Worker BY <1>1, <1>2, <1>6
  <2>9. /\ RecognitionTypeOK' /\ \A h \in Files : UploadFits(scan'[h], file'[h], h)
        /\ scan'[f] = next /\ \A h \in Files : h # f => scan'[h] = scan[h]
    BY <1>4, <2>5, <2>6, <2>7, <2>8, OneChanges
  <2>10. OneAtWorker' BY <1>1, <1>2, <1>6, <2>2, <2>9 DEF OneAtWorker, Turn
  <2> QED BY <2>9, <2>10 DEF RecognitionInv
<1>7. ASSUME sheet.kind = "scan", sheet.declared # "text", tail' = Append(tail, f), scan' = [scan EXCEPT ![f].at = "queued"]
      PROVE  RecognitionInv'
  <2>1. PICK next : next = [at |-> "queued", page |-> up.page, got |-> up.got, failed |-> up.failed, doc |-> up.doc]
    OBVIOUS
  <2>2. next \in Upload BY <1>5, <2>1 DEF Upload
  <2>3. scan' = [scan EXCEPT ![f] = next] 
    <3>1. scan' = [scan EXCEPT ![f] = [up EXCEPT !.at = "queued"]] BY <1>1, <1>3, <1>7
    <3>2. [up EXCEPT !.at = "queued"] = next BY <1>5, <2>1 DEF Upload
    <3> QED BY <3>1, <3>2
  <2>4. UploadFits(next, sheet, f)
    <3>1. Len(next.got) = 0 /\ DOMAIN next.got = {} /\ next.page = 1 /\ next.at = "queued" BY <1>5, <2>1
    <3>2. PagesOf(sheet) >= 1 BY PagesAre
    <3> QED BY <3>1, <3>2 DEF UploadFits
  <2>5. UNCHANGED file /\ tail' \in Seq(Files) /\ worker' \in Worker BY <1>1, <1>2, <1>7
  <2>6. /\ RecognitionTypeOK' /\ \A h \in Files : UploadFits(scan'[h], file'[h], h)
        /\ scan'[f] = next /\ \A h \in Files : h # f => scan'[h] = scan[h]
    BY <1>4, <2>2, <2>3, <2>4, <2>5, OneChanges
  <2>7. OneAtWorker'
    <3> SUFFICES ASSUME NEW h \in Files, scan'[h].at = "sent" PROVE Turn(h)' /\ worker'.page = <<h, scan'[h].page>>
      BY DEF OneAtWorker
    <3>1. h # f /\ scan'[h] = scan[h] BY <2>1, <2>6
    <3>2. tail # <<>> /\ h = Head(tail) /\ worker.page = <<h, scan[h].page>> BY <1>1, <3>1 DEF OneAtWorker, Turn
    <3>3. tail' # <<>> /\ Head(tail') = Head(tail) BY <1>1, <1>7, <3>2
    <3> QED BY <1>2, <3>1, <3>2, <3>3 DEF Turn
  <2> QED BY <2>6, <2>7 DEF RecognitionInv
<1>8. Invoice \in {Invoice, NoText} /\ AsText(f) \in {Invoice, NoText} BY DEF AsText
<1>9. Len(sheet.clear) \in Nat BY PapersAssumption
<1>10. CASE sheet.declared = "text"
  <2>1. Extracted(f, AsText(f), 95, 1) /\ UNCHANGED tail BY <1>4, <1>10 DEF Receive
  <2> QED BY <1>6, <1>8, <1>10, <2>1
<1>11. CASE sheet.declared # "text"
  <2>0. (CASE file[f].kind = "layer" -> Extracted(f, Invoice, 99, Len(file[f].clear)) /\ UNCHANGED tail
           [] file[f].kind = "broken" -> Extracted(f, NoText, 0, 0) /\ UNCHANGED tail
           [] file[f].kind \in {"plain", "other"} -> Extracted(f, AsText(f), 80, 1) /\ UNCHANGED tail
           [] file[f].kind = "scan" -> /\ tail' = Append(tail, f)
                                       /\ scan' = [scan EXCEPT ![f].at = "queued"])
    BY <1>4, <1>11 DEF Receive
  <2>1. sheet.kind \in {"plain", "layer", "broken", "other", "scan"} BY PapersAssumption
  <2>2. CASE sheet.kind = "layer"
    <3>1. Extracted(f, Invoice, 99, Len(sheet.clear)) /\ UNCHANGED tail BY <1>4, <2>0, <2>2
    <3> QED BY <1>6, <1>8, <1>9, <2>2, <3>1
  <2>3. CASE sheet.kind = "broken"
    <3>1. Extracted(f, NoText, 0, 0) /\ UNCHANGED tail BY <1>4, <2>0, <2>3
    <3> QED BY <1>6, <2>3, <3>1
  <2>4. CASE sheet.kind \in {"plain", "other"}
    <3>1. Extracted(f, AsText(f), 80, 1) /\ UNCHANGED tail BY <1>4, <2>0, <2>4
    <3> QED BY <1>6, <1>8, <2>4, <3>1
  <2>5. CASE sheet.kind = "scan"
    <3>1. tail' = Append(tail, f) /\ scan' = [scan EXCEPT ![f].at = "queued"] BY <1>4, <2>0, <2>5
    <3> QED BY <1>7, <1>11, <2>5, <3>1
  <2> QED BY <2>1, <2>2, <2>3, <2>4, <2>5
<1> QED BY <1>10, <1>11

\* The upload whose turn it is changes: no other has a page at the worker.
LEMMA TurnChanges ==
  ASSUME RecognitionInv, NEW f \in Files, Turn(f), NEW up \in Upload, scan' = [scan EXCEPT ![f] = up],
         UNCHANGED file, UploadFits(up, file[f], f), tail' \in Seq(Files), worker' \in Worker,
         up.at = "sent" => tail' = tail /\ worker'.page = <<f, up.page>>
  PROVE  RecognitionInv'
<1>1. /\ RecognitionTypeOK' /\ \A h \in Files : UploadFits(scan'[h], file'[h], h)
      /\ scan'[f] = up /\ \A h \in Files : h # f => scan'[h] = scan[h]
  BY OneChanges
<1>2. ASSUME NEW h \in Files, scan'[h].at = "sent" PROVE Turn(h)' /\ worker'.page = <<h, scan'[h].page>>
  <2>1. CASE h = f BY <1>1, <1>2, <2>1 DEF Turn
  <2>2. CASE h # f
    <3>1. scan[h].at = "sent" BY <1>1, <1>2, <2>2
    <3>2. Turn(h) BY <3>1 DEF RecognitionInv, OneAtWorker
    <3> QED BY <2>2, <3>2 DEF Turn
  <2> QED BY <2>1, <2>2
<1> QED BY <1>1, <1>2 DEF RecognitionInv, OneAtWorker

\* Only what the worker is at changes.
LEMMA WorkerChanges ==
  ASSUME RecognitionInv, NEW at \in {"none", "starting", "ready"}, worker' = [worker EXCEPT !.at = at],
         UNCHANGED <<file, scan, tail>>
  PROVE  RecognitionInv'
<1>1. worker \in Worker BY DEF RecognitionInv, RecognitionTypeOK
<1>2. worker' \in Worker /\ worker'.page = worker.page BY <1>1 DEF Worker
<1>3. RecognitionTypeOK' BY <1>2 DEF RecognitionInv, RecognitionTypeOK
<1>4. \A h \in Files : UploadFits(scan'[h], file'[h], h) BY DEF RecognitionInv
<1>5. OneAtWorker' BY <1>2 DEF RecognitionInv, OneAtWorker, Turn
<1> QED BY <1>3, <1>4, <1>5 DEF RecognitionInv

LEMMA SendPageKeeps == ASSUME RecognitionInv, NEW f \in Files, SendPage(f) PROVE RecognitionInv'
<1>1. /\ scan \in [Files -> Upload] /\ file \in [Files -> Papers] /\ tail \in Seq(Files)
      /\ UploadFits(scan[f], file[f], f) /\ worker \in Worker
  BY DEF RecognitionInv, RecognitionTypeOK
<1>2. /\ Turn(f) /\ scan[f].at = "queued" /\ UNCHANGED <<file, tail, breaks>>
      /\ worker' = [worker EXCEPT !.page = <<f, scan[f].page>>] /\ scan' = [scan EXCEPT ![f].at = "sent"]
  BY DEF SendPage
<1>3. PICK up \in Upload : up = scan[f] BY <1>1
<1>4. PICK next : next = [at |-> "sent", page |-> up.page, got |-> up.got, failed |-> up.failed, doc |-> up.doc]
  OBVIOUS
<1>5. next \in Upload BY <1>4 DEF Upload
<1>6. scan' = [scan EXCEPT ![f] = next]
  <2>1. scan' = [scan EXCEPT ![f] = [up EXCEPT !.at = "sent"]] BY <1>1, <1>2, <1>3
  <2>2. [up EXCEPT !.at = "sent"] = next BY <1>4 DEF Upload
  <2> QED BY <2>1, <2>2
<1>7. UploadFits(next, file[f], f) BY <1>1, <1>2, <1>3, <1>4 DEF UploadFits
<1>8. worker' \in Worker /\ worker'.page = <<f, next.page>>
  <2>1. up.page \in Nat BY DEF Upload
  <2> QED BY <1>1, <1>2, <1>3, <1>4, <2>1 DEF Worker
<1> QED BY <1>1, <1>2, <1>5, <1>6, <1>7, <1>8, TurnChanges

LEMMA PageReadKeeps == ASSUME RecognitionInv, NEW f \in Files, PageRead(f) PROVE RecognitionInv'
<1>1. /\ scan \in [Files -> Upload] /\ file \in [Files -> Papers] /\ tail \in Seq(Files) /\ OneAtWorker
      /\ UploadFits(scan[f], file[f], f) /\ worker \in Worker
  BY DEF RecognitionInv, RecognitionTypeOK
<1>2. scan[f].at = "sent" /\ UNCHANGED <<file, worker, breaks>> BY DEF PageRead
<1>3. PICK up \in Upload : up = scan[f] BY <1>1
<1>4. PICK sheet \in Papers : sheet = file[f] BY <1>1
<1>5. PICK n : n = up.page OBVIOUS
<1>6. Turn(f) /\ worker.page = <<f, n>> BY <1>1, <1>2, <1>3, <1>5 DEF OneAtWorker
<1>7. up.got \in Seq(Page) /\ Len(up.got) \in Nat /\ n \in Nat /\ up.failed \in BOOLEAN /\ up.doc \in Extraction
  BY <1>5 DEF Upload
<1>8. n = Len(up.got) + 1 /\ n <= PagesOf(sheet) /\ n \in 1..PagesOf(sheet)
  <2>1. n = Len(up.got) + 1 /\ n <= PagesOf(sheet) BY <1>1, <1>2, <1>3, <1>4, <1>5 DEF UploadFits
  <2> QED BY <1>7, <2>1, PagesAre
<1>9. Pages(f) = PagesOf(sheet) BY <1>4 DEF Pages, PagesOf
<1>10. PICK text \in ReadingsOf(file[worker.page[1]], worker.page[2]) :
         LET sent == worker.page
             page == [text |-> text, of |-> sent,
                      confidence |-> IF file[sent[1]].clear[sent[2]] THEN ClearPage ELSE PoorPage]
             got == Append(scan[f].got, page)
             last == scan[f].page = Pages(f)
         IN /\ scan' = [scan EXCEPT ![f] =
                 IF last
                 THEN [scan[f] EXCEPT !.at = "extracted", !.got = got,
                                      !.doc = parseInvoiceText(Joined(got), Mean(got), Len(got))]
                 ELSE [scan[f] EXCEPT !.at = "queued", !.got = got, !.page = scan[f].page + 1]]
            /\ tail' = IF last THEN Tail(tail) ELSE Append(Tail(tail), f)
  BY DEF PageRead
<1>11. PICK page : page = [text |-> text, of |-> worker.page,
                           confidence |-> IF file[worker.page[1]].clear[worker.page[2]] THEN ClearPage ELSE PoorPage]
  OBVIOUS
<1>12. page \in Page /\ IsPage(page, sheet, f, n)
  <2>1. worker.page[1] = f /\ worker.page[2] = n BY <1>6
  <2>2. text \in ReadingsOf(sheet, n) BY <1>4, <2>1
  <2>3. page = [text |-> text, of |-> <<f, n>>, confidence |-> IF sheet.clear[n] THEN ClearPage ELSE PoorPage]
    BY <1>4, <1>6, <1>11, <2>1
  <2> QED BY <1>8, <2>2, <2>3, ReadingFits
<1>13. PICK got : got = Append(up.got, page) OBVIOUS
<1>14. /\ scan' = [scan EXCEPT ![f] =
            IF n = PagesOf(sheet)
            THEN [up EXCEPT !.at = "extracted", !.got = got,
                            !.doc = parseInvoiceText(Joined(got), Mean(got), Len(got))]
            ELSE [up EXCEPT !.at = "queued", !.got = got, !.page = n + 1]]
       /\ tail' = IF n = PagesOf(sheet) THEN Tail(tail) ELSE Append(Tail(tail), f)
  BY <1>3, <1>5, <1>9, <1>10, <1>11, <1>13
<1>15. /\ got \in Seq(Page) /\ Len(got) = n /\ DOMAIN got = 1..n
       /\ got[n] = page /\ \A k \in 1..n : k # n => k \in DOMAIN up.got /\ got[k] = up.got[k]
  BY <1>7, <1>8, <1>12, <1>13
<1>16. \A k \in DOMAIN got : IsPage(got[k], sheet, f, k)
  <2>1. \A k \in DOMAIN up.got : IsPage(up.got[k], sheet, f, k) BY <1>1, <1>3, <1>4 DEF UploadFits
  <2> QED BY <1>12, <1>15, <2>1
<1>17. tail # <<>> /\ tail' \in Seq(Files)
  <2>1. tail # <<>> BY <1>6 DEF Turn
  <2>2. Tail(tail) \in Seq(Files) BY <1>1, <2>1
  <2>3. tail' = Tail(tail) \/ tail' = Append(Tail(tail), f) BY <1>14
  <2> QED BY <2>1, <2>2, <2>3
<1>18. CASE n = PagesOf(sheet)
  <2>1. PICK found : found = parseInvoiceText(Joined(got), Mean(got), Len(got)) OBVIOUS
  <2>2. found \in Extraction /\ DocFits(found, Len(got), up.failed, sheet)
    BY <1>7, <1>15, <1>16, <1>18, <2>1, AllPagesFit
  <2>3. PICK next : next = [at |-> "extracted", page |-> n, got |-> got, failed |-> up.failed, doc |-> found] OBVIOUS
  <2>4. next \in Upload BY <1>7, <1>15, <2>2, <2>3 DEF Upload
  <2>5. scan' = [scan EXCEPT ![f] = next]
    <3>1. scan' = [scan EXCEPT ![f] = [up EXCEPT !.at = "extracted", !.got = got, !.doc = found]]
      BY <1>18, <1>14, <2>1
    <3>2. PICK one : one = [at |-> "extracted", page |-> n, got |-> up.got, failed |-> up.failed, doc |-> up.doc]
      OBVIOUS
    <3>3. PICK two : two = [at |-> "extracted", page |-> n, got |-> got, failed |-> up.failed, doc |-> up.doc]
      OBVIOUS
    <3>4. [up EXCEPT !.at = "extracted"] = one BY <1>5, <3>2 DEF Upload
    <3>5. [one EXCEPT !.got = got] = two BY <3>2, <3>3
    <3>6. [two EXCEPT !.doc = found] = next BY <2>3, <3>3
    <3>7. [up EXCEPT !.at = "extracted", !.got = got, !.doc = found] = next BY <3>4, <3>5, <3>6
    <3> QED BY <3>1, <3>7
  <2>6. UploadFits(next, sheet, f) BY <1>16, <2>2, <2>3 DEF UploadFits
  <2>7. next.at # "sent" BY <2>3
  <2> QED BY <1>1, <1>2, <1>4, <1>6, <1>17, <2>4, <2>5, <2>6, <2>7, TurnChanges
<1>19. CASE n # PagesOf(sheet)
  <2>1. PICK next : next = [at |-> "queued", page |-> n + 1, got |-> got, failed |-> up.failed, doc |-> up.doc] OBVIOUS
  <2>2. next \in Upload BY <1>7, <1>15, <2>1 DEF Upload
  <2>3. scan' = [scan EXCEPT ![f] = next]
    <3>1. scan' = [scan EXCEPT ![f] = [up EXCEPT !.at = "queued", !.got = got, !.page = n + 1]]
      BY <1>19, <1>14
    <3>2. PICK one : one = [at |-> "queued", page |-> up.page, got |-> up.got, failed |-> up.failed, doc |-> up.doc]
      OBVIOUS
    <3>3. PICK two : two = [at |-> "queued", page |-> up.page, got |-> got, failed |-> up.failed, doc |-> up.doc]
      OBVIOUS
    <3>4. [up EXCEPT !.at = "queued"] = one BY <3>2 DEF Upload
    <3>5. [one EXCEPT !.got = got] = two BY <3>2, <3>3
    <3>6. [two EXCEPT !.page = n + 1] = next BY <2>1, <3>3
    <3>7. [up EXCEPT !.at = "queued", !.got = got, !.page = n + 1] = next BY <3>4, <3>5, <3>6
    <3> QED BY <3>1, <3>7
  <2>4. n + 1 <= PagesOf(sheet) BY <1>7, <1>8, <1>19, PagesAre
  <2>5. UploadFits(next, sheet, f) BY <1>15, <1>16, <2>1, <2>4 DEF UploadFits
  <2>6. next.at # "sent" BY <2>1
  <2> QED BY <1>1, <1>2, <1>4, <1>6, <1>17, <2>2, <2>3, <2>5, <2>6, TurnChanges
<1> QED BY <1>18, <1>19

LEMMA PageFailsKeeps == ASSUME RecognitionInv, NEW f \in Files, PageFails(f) PROVE RecognitionInv'
<1>1. /\ scan \in [Files -> Upload] /\ file \in [Files -> Papers] /\ tail \in Seq(Files)
      /\ UploadFits(scan[f], file[f], f) /\ worker \in Worker
  BY DEF RecognitionInv, RecognitionTypeOK
<1>2. PICK up \in Upload : up = scan[f] BY <1>1
<1>3. PICK sheet \in Papers : sheet = file[f] BY <1>1
<1>4. PICK found, yes : found = parseInvoiceText(NoText, 0, 0) /\ yes = TRUE OBVIOUS
<1>5. /\ Turn(f) /\ UNCHANGED file /\ tail' = Tail(tail)
      /\ scan' = [scan EXCEPT ![f] = [up EXCEPT !.at = "extracted", !.failed = yes, !.doc = found]]
  BY <1>2, <1>4 DEF PageFails
<1>6. PICK next : next = [at |-> "extracted", page |-> up.page, got |-> up.got, failed |-> yes, doc |-> found] OBVIOUS
<1>7. [up EXCEPT !.at = "extracted", !.failed = yes, !.doc = found] = next
  <2>1. PICK one : one = [at |-> "extracted", page |-> up.page, got |-> up.got, failed |-> up.failed, doc |-> up.doc]
    OBVIOUS
  <2>2. PICK two : two = [at |-> "extracted", page |-> up.page, got |-> up.got, failed |-> yes, doc |-> up.doc]
    OBVIOUS
  <2>3. [up EXCEPT !.at = "extracted"] = one BY <2>1 DEF Upload
  <2>4. [one EXCEPT !.failed = yes] = two BY ONLY <2>1, <2>2
  <2>5. [two EXCEPT !.doc = found] = next BY ONLY <1>6, <2>2
  <2> QED BY <2>3, <2>4, <2>5
<1>8. up.page \in Nat /\ up.got \in Seq(Page) /\ Len(up.got) \in Nat BY DEF Upload
<1>9. found \in Extraction /\ DocFits(found, Len(up.got), yes, sheet) BY <1>4, <1>8, GivenFits
<1>10. next \in Upload BY <1>4, <1>6, <1>8, <1>9 DEF Upload
<1>11. UploadFits(next, sheet, f)
  <2>1. \A k \in DOMAIN up.got : IsPage(up.got[k], sheet, f, k) BY <1>1, <1>2, <1>3 DEF UploadFits
  <2> QED BY <1>6, <1>9, <2>1 DEF UploadFits
<1>12. tail' \in Seq(Files) BY <1>1, <1>5 DEF Turn
<1>13. worker' \in Worker
  <2>1. worker' = [worker EXCEPT !.at = "none"] \/ worker' = worker BY DEF PageFails
  <2> QED BY <1>1, <2>1 DEF Worker
<1>14. next.at # "sent" /\ scan' = [scan EXCEPT ![f] = next] BY <1>5, <1>6, <1>7
<1> QED BY <1>3, <1>5, <1>10, <1>11, <1>12, <1>13, <1>14, TurnChanges

LEMMA RecognitionKeeps == ASSUME RecognitionInv, [RecognitionNext]_recognitionVars PROVE RecognitionInv'
<1>1. CASE WorkerStarts BY <1>1, WorkerChanges DEF WorkerStarts
<1>2. ASSUME NEW f \in Files, StartWorker(f) PROVE RecognitionInv' BY <1>2, WorkerChanges DEF StartWorker
<1>3. ASSUME NEW f \in Files, Receive(f) \/ SendPage(f) \/ PageRead(f) \/ PageFails(f) PROVE RecognitionInv'
  BY <1>3, ReceiveKeeps, SendPageKeeps, PageReadKeeps, PageFailsKeeps
<1>4. CASE UNCHANGED recognitionVars
  BY <1>4 DEF recognitionVars, RecognitionInv, RecognitionTypeOK, OneAtWorker, Turn
<1> QED BY <1>1, <1>2, <1>3, <1>4 DEF RecognitionNext

LEMMA RecognitionInvHolds == RecognitionSpec => []RecognitionInv
<1>1. RecognitionInv /\ [RecognitionNext]_recognitionVars => RecognitionInv' BY RecognitionKeeps
<1> QED BY RecognitionStarts, <1>1, PTL DEF RecognitionSpec

LEMMA ReadOwn == RecognitionInv => ReadIsOwn
<1> SUFFICES ASSUME RecognitionInv PROVE ReadIsOwn OBVIOUS
<1>1. ASSUME NEW f \in Files, scan[f].at = "extracted"
      PROVE  /\ DocFits(scan[f].doc, Len(scan[f].got), scan[f].failed, file[f])
             /\ \A n \in DOMAIN scan[f].got : scan[f].got[n].of = <<f, n>>
  BY <1>1 DEF RecognitionInv, UploadFits, IsPage
<1>2. \A f \in Files : Pages(f) = PagesOf(file[f]) /\ PoorPages(f) = PoorOf(file[f])
  BY DEF Pages, PagesOf, PoorPages, PoorOf
<1> QED BY <1>1, <1>2 DEF ReadIsOwn, DocFits

\* What is read of papers is true: whatever is uploaded, sent to the worker in whatever
\* order and failed, an upload shows figures of its own pages only, a wrong one only where
\* the mean hid a page that was not clear (runOcr, serialise, parseInvoiceText); and
\* whatever is misread of a statement, a row that was checked against two balances that
\* were read right is the bank's, and is read again after any that was not (scanRows).
THEOREM ReadHolds == RecognitionSpec /\ ScanSpec => []ReadIsTrue
<1>1. ScanInv => CheckedIsTrue BY DEF ScanInv
<1>2. RecognitionSpec => []ReadIsOwn BY RecognitionInvHolds, ReadOwn, PTL
<1>3. ScanSpec => []CheckedIsTrue BY ScanInvHolds, <1>1, PTL
<1> QED BY <1>2, <1>3, PTL DEF ReadIsTrue
=============================================================================
