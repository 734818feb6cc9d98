--------------------------- MODULE ActionLifecycle ---------------------------
(***************************************************************************)
(* What the chat promises of an action that may change the cluster, as the *)
(* docstrings of models/alert_chat.py and of approve_action tell it: it is *)
(* offered to the operator, run only after an approval, once for each, and *)
(* from then on it is on record how the run ended; or it is rejected, and  *)
(* not run any more.  A decision that dies is forgotten, though not what   *)
(* it ran.  How sessions, flushes and row locks bring this about is the    *)
(* business of AlertChat, which is shown to implement it.                  *)
(***************************************************************************)
EXTENDS Naturals

CONSTANT Actions

VARIABLES
    stage,      \* Actions -> how far the action is
    ran,        \* Actions -> times its tool was run
    faults      \* requests that died

lifecycleVars == <<stage, ran, faults>>

LifecycleInit ==
    /\ stage = [a \in Actions |-> "absent"]
    /\ ran = [a \in Actions |-> 0]
    /\ faults = 0

Moves(a, from, to) ==
    /\ stage[a] = from
    /\ stage' = [stage EXCEPT ![a] = to]

(* The calls of one answer of the model are offered together.              *)
Offer(A) ==
    /\ \A a \in A : stage[a] = "absent"
    /\ stage' = [a \in Actions |-> IF a \in A THEN "offered" ELSE stage[a]]
    /\ UNCHANGED <<ran, faults>>

Approve(a) == Moves(a, "offered", "approved") /\ UNCHANGED <<ran, faults>>

Run(a) ==
    /\ Moves(a, "approved", "ran")
    /\ ran' = [ran EXCEPT ![a] = @ + 1]
    /\ UNCHANGED faults

Report(a, outcome) == Moves(a, "ran", outcome) /\ UNCHANGED <<ran, faults>>

Refuse(a) == Moves(a, "offered", "rejected") /\ UNCHANGED <<ran, faults>>

(* A request dies; a decision it had in hand is not on record then,        *)
(* whether or not the tool was run.                                        *)
Fault == faults' = faults + 1 /\ UNCHANGED <<stage, ran>>

Forget(a) ==
    /\ \E from \in {"approved", "ran"} : Moves(a, from, "offered")
    /\ faults' = faults + 1
    /\ UNCHANGED ran

LifecycleNext ==
    \/ \E A \in SUBSET Actions : Offer(A)
    \/ Fault
    \/ \E a \in Actions :
          \/ Approve(a)
          \/ Run(a)
          \/ \E outcome \in {"executed", "failed"} : Report(a, outcome)
          \/ Refuse(a)
          \/ Forget(a)

Lifecycle == LifecycleInit /\ [][LifecycleNext]_lifecycleVars
=============================================================================
