--------------------------- MODULE MCAlertPipeline ---------------------------
(* Small instances of AlertPipeline.                                       *)
EXTENDS AlertPipeline

(* The page offers to acknowledge open alerts; it may be out of date.      *)
LateAcks == {"open", "resolved"}

AllFaults == {"save", "race", "handler", "crash", "death"}
=============================================================================
