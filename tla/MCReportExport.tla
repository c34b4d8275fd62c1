---------------------------- MODULE MCReportExport ----------------------------
(* The instance of ReportExport for TLC.  It has no symmetry: the run checks  *)
(* a liveness property.                                                       *)
EXTENDS ReportExport

\* One report that users ask for and one of the daily exports.
CONSTANTS asked, daily

MCReports == {asked, daily}
MCDaily   == {daily}
=============================================================================
