----------------------------- MODULE MCAlertChat -----------------------------
(* Small instances of AlertChat.                                           *)
EXTENDS AlertChat, TLC

Twins == Permutations(Writes) \cup Permutations(Requests)
=============================================================================
