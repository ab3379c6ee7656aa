-------------------------- MODULE LedgerIntegrity ---------------------------
(***************************************************************************)
(* The nightly assertion job (jobs/ledgerIntegrity.ts) beside a ledger     *)
(* that keeps posting.  checkCompanyIntegrity reads the journal, then the  *)
(* accounts, then the entry numbers, each in a query of its own and none   *)
(* in a transaction, so commits may fall between the reads.                *)
(***************************************************************************)
EXTENDS Ledger

CONSTANTS
  FixDrift, \* the option of that name; the scheduled job leaves it FALSE
  Runs      \* bound on the number of nightly runs

ASSUME IntegrityAssumption == FixDrift \in BOOLEAN /\ Runs \in Nat

VARIABLES
  job,    \* where the job is, and what it computed from the journal
  nights, \* runs started
  drifts, \* account_drift violations of the current or last run
  gaps    \* number_gap violations of the current or last run: years

jobVars == <<job, nights, drifts, gaps>>

Idle == [at |-> "idle", expected |-> <<>>, seen |-> 0]

Expected(a) ==
  SumFunction([i \in Posted(a) |-> BalanceDelta(a, entries[i].lines[a])])

\* The second aggregate: balances recomputed from the lines.  (The first, the
\* totals of all entries, can only disagree if an unbalanced entry is stored.)
Aggregate ==
  /\ job.at = "idle"
  /\ nights < Runs
  /\ nights' = nights + 1
  /\ job' = [at |-> "accounts", expected |-> [a \in Accounts |-> Expected(a)],
             seen |-> Len(entries)]
  /\ drifts' = {}
  /\ gaps' = {}
  /\ UNCHANGED vars

\* Account.find: stored against recomputed, deleted accounts included.
ReadAccounts ==
  /\ job.at = "accounts"
  /\ drifts' = {a \in Accounts : job.expected[a] # balance[a]}
  /\ job' = [job EXCEPT !.at = IF FixDrift /\ drifts' # {} THEN "fix" ELSE "numbers"]
  /\ UNCHANGED <<vars, nights, gaps>>

\* updateOne of one drifted account, with the recomputed value.
Fix ==
  /\ job.at = "fix"
  /\ \E a \in drifts :
       /\ a \in DOMAIN job.expected
       /\ balance' = [balance EXCEPT ![a] = job.expected[a]]
       /\ tx' = Publish([NothingMissed EXCEPT !.accounts = {a}])
       /\ LET rest == [b \in DOMAIN job.expected \ {a} |-> job.expected[b]]
          IN job' = [job EXCEPT
                       !.at = IF drifts \cap DOMAIN rest = {} THEN "numbers" ELSE "fix",
                       !.expected = rest]
  /\ UNCHANGED <<entries, counter, status, lockedUpto, outbox, today>>
  /\ UNCHANGED <<nights, drifts, gaps>>

\* Sorted, the numbers of a year must read 1, 2, 3 and so on.
Gapped(y) == {entries[i].no : i \in InYear(y)} # 1..Cardinality(InYear(y))

ReadNumbers ==
  /\ job.at = "numbers"
  /\ gaps' = {y \in Years : Gapped(y)}
  /\ job' = Idle
  /\ UNCHANGED <<vars, nights, drifts>>

AuditInit == Init /\ job = Idle /\ nights = 0 /\ drifts = {} /\ gaps = {}

AuditNext ==
  \/ Next /\ UNCHANGED jobVars
  \/ Aggregate
  \/ ReadAccounts
  \/ Fix
  \/ ReadNumbers

AuditSpec == AuditInit /\ [][AuditNext]_<<vars, jobVars>>

-----------------------------------------------------------------------------
(* Properties *)

\* "Any non-zero result is a P1": the job is silent about every account that no entry
\* was posted to between its reading the journal and its reading the accounts.
DriftNeedsOverlap ==
  [][ \A a \in drifts' \ drifts :
        \E i \in DOMAIN entries :
          i > job.seen /\ a \in Touched(entries[i].lines) ]_drifts
=============================================================================
