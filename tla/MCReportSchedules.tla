------------------------- MODULE MCReportSchedules --------------------------
(* Small instances of ReportSchedules.                                     *)
EXTENDS ReportSchedules

CONSTANTS r1, r2, w1, w2
=============================================================================
