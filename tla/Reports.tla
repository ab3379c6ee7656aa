------------------------------ MODULE Reports -------------------------------
(***************************************************************************)
(* What is read of a ledger that keeps posting: the trial balance and the  *)
(* balance sheet made of it (services/reportService.ts), and the ledger of *)
(* one account, page by page (GeneralLedger.accountLedger).  Each is more  *)
(* than one query and none is in a transaction.                            *)
(*                                                                         *)
(* An entry's id is its index, so pages sort by date and index.            *)
(***************************************************************************)
EXTENDS Ledger, Exports
SE == INSTANCE SequencesExt

CONSTANTS
  Nominal, \* the accounts of type income or expense
  Viewed,  \* the accounts whose ledgers somebody pages through
  PageSize \* rows of a page

ASSUME ReportsAssumption ==
  Nominal \subseteq Accounts /\ Viewed \subseteq Accounts /\ PageSize \in Nat \ {0}

VARIABLES
  sheet, \* the balance sheet being made, or the last one
  pages  \* the pages of an account read so far, or the last ones

reportVars == <<sheet, pages>>

NoSheet == [at |-> "rest", day |-> 0, first |-> 0, second |-> 0, balances |-> TRUE]
NoPages == [at |-> "rest", account |-> None, known |-> 0, shown |-> <<>>]

\* trialBalance(asOf), when the journal had n entries: lines of whatever account,
\* inactive and deleted ones too, in entries of whatever status.
TrialBalance(n, day) ==
  [a \in Accounts |->
     SumFunction([i \in {i \in 1..n : entries[i].date <= day} |->
                    BalanceDelta(a, entries[i].lines[a])])]

Total(tb, accounts) == SumFunctionOnSet(tb, accounts)

Assets        == DebitNormal \ Nominal
OwedAndOwned  == Accounts \ (DebitNormal \cup Nominal)  \* liabilities and equity

\* profitLoss: income less expenses.
NetProfit(tb) == Total(tb, Nominal \ DebitNormal) - Total(tb, Nominal \cap DebitNormal)

-----------------------------------------------------------------------------

\* balanceSheet reads a trial balance for assets, liabilities and equity ...
SheetRead ==
  /\ sheet.at = "rest"
  /\ \E day \in Days :
       sheet' = [NoSheet EXCEPT !.at = "profit", !.day = day, !.first = Len(entries)]
  /\ UNCHANGED <<vars, pages>>

\* Whether assets are liabilities, equity and the profit, first and second being the
\* trial balances the two sides were taken from.
Balances(first, second) ==
  Total(first, Assets) = Total(first, OwedAndOwned) + NetProfit(second)

\* ... and then calls profitLoss, which reads another.
ProfitRead ==
  /\ sheet.at = "profit"
  /\ sheet' = [sheet EXCEPT !.at = "rest", !.second = Len(entries),
       !.balances = Balances(TrialBalance(sheet.first, sheet.day),
                             TrialBalance(Len(entries), sheet.day))]
  /\ UNCHANGED <<vars, pages>>

\* The sort of the pages: the latest date first, and the latest entry of a date.
Before(i, j) ==
  \/ entries[i].date > entries[j].date
  \/ entries[i].date = entries[j].date /\ i > j

\* Mutant: the cursor is the date alone.
AfterDate(i, cursor) == entries[i].date < entries[cursor].date

After(i, cursor) == Before(cursor, i)

\* The entries of a set as the sort gives them.
Sorted(E) == CHOOSE rows \in [1..Cardinality(E) -> E] :
               \A m, n \in DOMAIN rows : m < n => Before(rows[m], rows[n])

\* The query of a page asks for one row more than a page, to know if there are more.
PageQuery(a, shown) ==
  LET rest == {i \in Posted(a) : shown = <<>> \/ After(i, SE!Last(shown))}
      rows == Sorted(rest)
  IN SubSeq(rows, 1, IF Len(rows) > PageSize THEN PageSize + 1 ELSE Len(rows))

\* What has been shown, and whether a cursor for another page is given.
PageShown(a, shown, known) ==
  LET rows == PageQuery(a, shown)
  IN pages' = [at |-> IF Len(rows) > PageSize THEN "more" ELSE "rest",
               account |-> a, known |-> known,
               shown |-> shown \o SubSeq(rows, 1, IF Len(rows) > PageSize THEN PageSize
                                                  ELSE Len(rows))]

PageFirst ==
  /\ pages.at = "rest"
  /\ \E a \in Viewed : PageShown(a, <<>>, Len(entries))
  /\ UNCHANGED <<vars, sheet>>

PageNext ==
  /\ pages.at = "more"
  /\ PageShown(pages.account, pages.shown, pages.known)
  /\ UNCHANGED <<vars, sheet>>

ReportInit == sheet = NoSheet /\ pages = NoPages

ReportNext == SheetRead \/ ProfitRead \/ PageFirst \/ PageNext

ReportSpec ==
  /\ Init /\ ReportInit /\ ExportsInit
  /\ [][\/ Next /\ UNCHANGED <<reportVars, exportVars>>
        \/ ReportNext /\ UNCHANGED exportVars
        \/ ExportsNext /\ UNCHANGED <<vars, reportVars>>]_<<vars, reportVars, exportVars>>

-----------------------------------------------------------------------------
(* Properties *)

\* "The balance sheet MUST balance": it does, whatever entries were posted and
\* reversed, unless one with income or expense, dated within the sheet,
\* was posted between its two trial balances.
SheetBalances ==
  sheet.at = "rest" /\ ~sheet.balances =>
    \E i \in sheet.first + 1 .. sheet.second :
      entries[i].date <= sheet.day /\ Touched(entries[i].lines) \cap Nominal # {}

\* Paged with a cursor while entries are posted, an account's ledger shows nothing
\* twice, keeps its order, and by its last page has shown every entry that was there
\* when the first was read.
PagesAreWhole ==
  /\ \A m, n \in DOMAIN pages.shown : m < n => Before(pages.shown[m], pages.shown[n])
  /\ pages.at = "rest" /\ pages.account # None =>
       Posted(pages.account) \cap (1..pages.known) \subseteq SE!ToSet(pages.shown)

\* What is read piece by piece while others post is still one account of the books, and
\* so is what is exported of it.
ReadsAreSound == SheetBalances /\ PagesAreWhole /\ ExportsAreWhole
=============================================================================
