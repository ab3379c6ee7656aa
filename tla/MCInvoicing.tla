----------------------------- MODULE MCInvoicing ----------------------------
(* Instances for TLC of Invoicing; of Chosen, the pages that show one        *)
(* document; and of Notices, the reminders of invoices and returns.  They    *)
(* share nothing, so one behaviour runs one of the three.                    *)
EXTENDS Invoicing, Chosen, Notices, TLC

CONSTANTS i1, i2, b1, p1, e1, e2, shop, walkIn, gujarat, kerala, x, y, own, d1, d2, n1, n2, m1, m2

VARIABLE which

MCStateOf == (shop :> kerala) @@ (walkIn :> gujarat)

Goods   == [qty |-> 10, rate |-> 105, discount |-> 0, gst |-> 18, cess |-> 0,
            account |-> "sales", itc |-> TRUE]
Cheap   == [qty |-> 15, rate |-> 33, discount |-> 10, gst |-> 5, cess |-> 12,
            account |-> "sales", itc |-> FALSE]
Service == [qty |-> 10, rate |-> 250, discount |-> 0, gst |-> 18, cess |-> 0,
            account |-> "services", itc |-> TRUE]

\* Totals that are rounded down and up, taxes with an odd paisa, two rates on
\* one invoice, two lines of one rate, credit that is not eligible.
MCLineSets == {{Goods}, {Goods, Cheap, Service}}

\* Two overdue invoices of one company, on the day of a return and the next.
MCCompanyOf == (d1 :> own) @@ (d2 :> own)
MCDates     == <<8, 9>>

InvoiceSymmetry ==
  Permutations({i1, i2}) \cup Permutations({d1, d2}) \cup Permutations({n1, n2}) \cup Permutations({m1, m2})

\* The part that rests has one initial state.
DocumentsInit ==
  /\ which \in {"documents", "choice", "notices"}
  /\ InvoicingInit /\ ChosenInit /\ NoticesInit
  /\ which # "choice" => view = "kept"

DocumentsNext ==
  /\ UNCHANGED which
  /\ \/ which = "documents" /\ InvoicingNext /\ UNCHANGED <<choiceVars, noticeVars>>
     \/ which = "choice" /\ ChosenNext /\ UNCHANGED <<invoicingVars, noticeVars>>
     \/ which = "notices" /\ NoticesNext /\ UNCHANGED <<invoicingVars, choiceVars>>

documentsVars == <<invoicingVars, choiceVars, noticeVars, which>>

DocumentsSpec == DocumentsInit /\ [][DocumentsNext]_documentsVars
=============================================================================
