--------------------------- MODULE TenantLifecycle ---------------------------
(***************************************************************************)
(* What either tenant controller promises its caller, as the comments of   *)
(* models/nautobot_tenant.py tell the life of a row: a stack exists in one *)
(* cluster, the one asked for, which does not change while anything of the *)
(* stack is there; once its removal is under way nothing of it comes back, *)
(* and it is called destroyed when it is gone.  Not everything need be:    *)
(* the removal, and nothing else, may leave remains (a namespace, volumes, *)
(* secrets), in that cluster.  Sweeps, their sessions and what helm does   *)
(* are the business of TenantController, which is shown to implement this. *)
(***************************************************************************)
CONSTANTS Tenants, Clusters, Hub

VARIABLES
    phase,      \* Tenants -> none, living, leaving or gone
    home,       \* Tenants -> the cluster asked for
    present,    \* <<t, c>>: the cluster c holds something of the stack of t
    remains     \* <<t, c>>: ... or what the removal of it has left

lifecycleVars == <<phase, home, present, remains>>

LifecycleInit ==
    /\ phase = [t \in Tenants |-> "none"]
    /\ home = [t \in Tenants |-> Hub]
    /\ present = {}
    /\ remains = {}

Absent(t) == \A c \in Clusters : <<t, c>> \notin present

Open(t, c) ==
    /\ phase[t] = "none"
    /\ phase' = [phase EXCEPT ![t] = "living"]
    /\ home' = [home EXCEPT ![t] = c]
    /\ UNCHANGED <<present, remains>>

Move(t, c) ==
    /\ phase[t] = "living"
    /\ Absent(t)
    /\ home' = [home EXCEPT ![t] = c]
    /\ UNCHANGED <<phase, present, remains>>

(* Something of the stack appears, is repaired or is lost.                 *)
Raise(t) ==
    /\ phase[t] = "living"
    /\ present' = present \cup {<<t, home[t]>>}
    /\ UNCHANGED <<phase, home, remains>>

Lose(t) ==
    /\ phase[t] = "living"
    /\ present' = present \ {<<t, home[t]>>}
    /\ UNCHANGED <<phase, home, remains>>

(* From here on a removal is not called off.  The end of one sweep may be  *)
(* that moment for several tenants.  One that is gone may be asked to go   *)
(* again.                                                                  *)
Close(leavers) ==
    /\ \A t \in leavers : phase[t] \in {"living", "gone"}
    /\ phase' = [t \in Tenants |-> IF t \in leavers THEN "leaving" ELSE phase[t]]
    /\ UNCHANGED <<home, present, remains>>

Remove(t) ==
    /\ phase[t] = "leaving"
    /\ present' = present \ {<<t, home[t]>>}
    /\ \/ remains' = remains \ {<<t, home[t]>>}
       \/ /\ <<t, home[t]>> \in present \cup remains
          /\ remains' = remains \cup {<<t, home[t]>>}
    /\ UNCHANGED <<phase, home>>

(* What was left disappears.                                               *)
Clear(t) ==
    /\ phase[t] \in {"leaving", "gone"}
    /\ remains' = remains \ {<<t, home[t]>>}
    /\ UNCHANGED <<phase, home, present>>

Vanish(t) ==
    /\ phase[t] = "leaving"
    /\ Absent(t)
    /\ phase' = [phase EXCEPT ![t] = "gone"]
    /\ UNCHANGED <<home, present, remains>>

LifecycleNext ==
    \/ \E t \in Tenants :
          \/ \E c \in Clusters : Open(t, c) \/ Move(t, c)
          \/ Raise(t)
          \/ Lose(t)
          \/ Remove(t)
          \/ Clear(t)
          \/ Vanish(t)
    \/ \E leavers \in SUBSET Tenants : Close(leavers)

Lifecycle == LifecycleInit /\ [][LifecycleNext]_lifecycleVars
=============================================================================
