---------------------------- MODULE MCReconciler ----------------------------
(* Small instances of Reconciler.                                          *)
EXTENDS Reconciler

AllEdits == Configs \cup {NoIntent}
=============================================================================
