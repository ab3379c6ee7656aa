-------------------------- MODULE MCLedgerIntegrity -------------------------
(* Instances of LedgerIntegrity and Reports for TLC: those of MCLedger, with one   *)
(* reader at a time, who is the nightly job, or a report; or, on its own, an       *)
(* export, of which only the order of what it reads matters.                       *)
EXTENDS LedgerIntegrity, Reports, MCLedger

VARIABLE which

ReadersInit == AuditInit /\ ReportInit /\ ExportsInit /\ which \in {"books", "export"}

JobAtRest    == job.at = "idle" /\ nights = 0
ReportAtRest == sheet = NoSheet /\ pages = NoPages

Readers ==
  \/ ReportAtRest /\ AuditNext /\ UNCHANGED reportVars
  \/ JobAtRest /\ Next /\ UNCHANGED <<jobVars, reportVars>>
  \/ JobAtRest /\ sheet = NoSheet /\ (PageFirst \/ PageNext) /\ UNCHANGED jobVars
  \/ JobAtRest /\ pages = NoPages /\ (SheetRead \/ ProfitRead) /\ UNCHANGED jobVars

ReadersNext ==
  /\ UNCHANGED which
  /\ \/ which = "books" /\ Readers /\ UNCHANGED exportVars
     \/ which = "export" /\ ExportsNext /\ UNCHANGED <<vars, jobVars, reportVars>>

ReadersSpec == ReadersInit /\ [][ReadersNext]_<<vars, jobVars, reportVars, exportVars, which>>
=============================================================================
