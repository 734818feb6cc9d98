----------------------- MODULE TenantControllerProofs -----------------------
(* Theorems about TenantController, for any set of tenants and clusters.   *)
EXTENDS TenantController, TLAPS

USE ControllerAssumption

(* What the loop has in hand: the objects its session loaded agree with    *)
(* where it is, and a visit that has torn down found the row deleting.     *)
InHand ==
    /\ \A t \in Tenants : loaded[t] # "absent" => at # "idle"
    /\ cur # NoTenant /\ at = "gone" => loaded[cur] = "deleting"
    /\ cur # NoTenant /\ at # "gone" =>
          loaded[cur] \in {"pending", "error", "provisioning", "active"}

LEMMA CommitType ==
    ASSUME TypeOK, NEW t \in Tenants, NEW s \in States, Commit(t, s)
    PROVE  state' \in [Tenants -> States \cup {"absent"}]
  BY DEF TypeOK, Commit

LEMMA DoneType ==
    ASSUME TypeOK, NEW t \in Tenants, DoneWith(t)
    PROVE  /\ loaded' \in [Tenants -> (States \ {"destroyed"}) \cup {"absent"}]
           /\ at' \in {"idle", "sweep", "gone", "apply", "touched", "applied"}
           /\ cur' \in Tenants \cup {NoTenant}
           /\ (cur' = NoTenant) <=> (at' \in {"idle", "sweep"})
  BY DEF TypeOK, DoneWith

LEMMA TypeStep == TypeOK /\ [Next]_vars => TypeOK'
<1> SUFFICES ASSUME TypeOK, [Next]_vars
             PROVE  TypeOK'
  OBVIOUS
<1> USE DEF TypeOK
<1>1. CASE UNCHANGED vars
  BY <1>1 DEF vars, rowVars, sweepVars
<1>2. CASE StartSweep
  BY <1>2 DEF StartSweep, rowVars, States, Unsettled
<1>3. CASE EndSweep
  BY <1>3 DEF EndSweep, rowVars
<1>4. CASE SweepDies
  BY <1>4 DEF SweepDies, rowVars
<1>5. ASSUME NEW t \in Tenants, Request(t)
      PROVE  TypeOK'
  BY <1>5 DEF Request, Create, Retarget, Delete, sweepVars, States, Unsettled
<1>6. ASSUME NEW t \in Tenants, NEW c \in Clusters, Drift(t, c) \/ Clear(t, c)
      PROVE  TypeOK'
  BY <1>6 DEF Drift, Clear, rowVars, sweepVars, Levels
<1>7. ASSUME NEW t \in Tenants, Reconcile(t)
      PROVE  TypeOK'
  <2>1. CASE Leave(t)
    BY <2>1, DoneType DEF Leave, rowVars
  <2>2. CASE TakeDown(t)
    BY <2>2 DEF TakeDown, rowVars, Levels, Vacant
  <2>3. CASE RecordGone(t)
    <3>1. "destroyed" \in States
      BY DEF States
    <3> QED
      BY <2>3, <3>1, CommitType, DoneType DEF RecordGone
  <2>4. CASE Poll(t)
    <3>1. "active" \in States
      BY DEF States
    <3> QED
      BY <2>4, <3>1, CommitType, DoneType DEF Poll
  <2>5. CASE Begin(t)
    <3>1. "provisioning" \in States
      BY DEF States, Unsettled
    <3> QED
      BY <2>5, <3>1, CommitType DEF Begin, BeginFrom
  <2>6. CASE Touch(t)
    BY <2>6 DEF Touch, rowVars, Levels
  <2>7. CASE Finish(t)
    BY <2>7 DEF Finish, rowVars, Levels
  <2>8. CASE Record(t)
    <3>1. Reached(t) \in States
      BY DEF Reached, States, Unsettled
    <3> QED
      BY <2>8, <3>1, CommitType, DoneType DEF Record
  <2>9. CASE Fail(t)
    <3>1. "error" \in States
      BY DEF States, Unsettled
    <3>2. state' \in [Tenants -> States \cup {"absent"}]
      BY <2>9, <3>1, CommitType DEF Fail
    <3>3. stack' \in [Tenants \X Clusters -> Levels]
      BY <2>9 DEF Fail, Levels
    <3> QED
      BY <2>9, <3>2, <3>3, DoneType DEF Fail
  <2> QED
    BY <1>7, <2>1, <2>2, <2>3, <2>4, <2>5, <2>6, <2>7, <2>8, <2>9 DEF Reconcile
<1> QED
  BY <1>1, <1>2, <1>3, <1>4, <1>5, <1>6, <1>7 DEF Next, Loop

LEMMA TypeInit == Init => TypeOK
  BY DEF Init, TypeOK, Kinds, States, Levels

(* Types of every variable, in every deployment.                           *)
THEOREM TenantTypes == Spec => []TypeOK
<1>1. Init => TypeOK
  BY TypeInit
<1>2. TypeOK /\ [Next]_vars => TypeOK'
  BY TypeStep
<1> QED
  BY <1>1, <1>2, PTL DEF Spec

-----------------------------------------------------------------------------
LEMMA InHandStep == TypeOK /\ InHand /\ [Next]_vars => InHand'
<1> SUFFICES ASSUME TypeOK, InHand, [Next]_vars
             PROVE  InHand'
  OBVIOUS
<1> USE DEF TypeOK, InHand
<1>1. CASE UNCHANGED vars
  BY <1>1 DEF vars, rowVars, sweepVars
<1>2. CASE StartSweep
  BY <1>2 DEF StartSweep
<1>3. CASE EndSweep
  BY <1>3 DEF EndSweep, Held
<1>4. CASE SweepDies
  BY <1>4 DEF SweepDies
<1>5. ASSUME NEW t \in Tenants, Request(t)
      PROVE  InHand'
  BY <1>5 DEF Request, Create, Retarget, Delete, sweepVars
<1>6. ASSUME NEW t \in Tenants, NEW c \in Clusters, Drift(t, c) \/ Clear(t, c)
      PROVE  InHand'
  BY <1>6 DEF Drift, Clear, sweepVars
<1>7. ASSUME NEW t \in Tenants, Reconcile(t)
      PROVE  InHand'
  <2>1. ASSUME DoneWith(t)
        PROVE  InHand'
    BY <2>1 DEF DoneWith
  <2>2. CASE TakeDown(t)
    BY <2>2 DEF TakeDown
  <2>3. CASE Begin(t)
    BY <2>3 DEF Begin, BeginFrom
  <2>4. CASE Touch(t)
    BY <2>4 DEF Touch
  <2>5. CASE Finish(t)
    BY <2>5 DEF Finish
  <2> QED
    BY <1>7, <2>1, <2>2, <2>3, <2>4, <2>5
       DEF Reconcile, Leave, RecordGone, Poll, Record, Fail
<1> QED
  BY <1>1, <1>2, <1>3, <1>4, <1>5, <1>6, <1>7 DEF Next, Loop

LEMMA DeleteStep ==
    ASSUME TypeOK, InHand, [Next]_vars, NEW d \in Tenants,
           state[d] = "deleting", loaded[d] \in {"absent", "deleting"}
    PROVE  state'[d] \in {"deleting", "destroyed"}
<1> USE DEF TypeOK
<1>1. CASE UNCHANGED vars
  BY <1>1 DEF vars, rowVars
<1>2. CASE StartSweep \/ EndSweep \/ SweepDies
  BY <1>2 DEF StartSweep, EndSweep, SweepDies, rowVars
<1>3. ASSUME NEW t \in Tenants, Request(t)
      PROVE  state'[d] \in {"deleting", "destroyed"}
  BY <1>3 DEF Request, Create, Retarget, Delete
<1>4. ASSUME NEW t \in Tenants, NEW c \in Clusters, Drift(t, c) \/ Clear(t, c)
      PROVE  state'[d] \in {"deleting", "destroyed"}
  BY <1>4 DEF Drift, Clear, rowVars
<1>5. ASSUME NEW t \in Tenants, Reconcile(t)
      PROVE  state'[d] \in {"deleting", "destroyed"}
  <2>1. ASSUME NEW s, Commit(t, s), t # d
        PROVE  state'[d] = "deleting"
    BY <2>1 DEF Commit
  <2>2. CASE Leave(t) \/ TakeDown(t) \/ Touch(t) \/ Finish(t)
    BY <2>2 DEF Leave, TakeDown, Touch, Finish, rowVars
  <2>3. CASE RecordGone(t)
    BY <2>3 DEF RecordGone, Commit
  <2>4. CASE Poll(t)
    BY <2>1, <2>4 DEF Poll
  <2>5. CASE Begin(t)
    BY <2>1, <2>5 DEF Begin, BeginFrom
  <2>6. CASE Record(t)
    BY <2>1, <2>6 DEF Record, InHand
  <2>7. CASE Fail(t)
    BY <2>1, <2>7 DEF Fail, InHand
  <2> QED
    BY <1>5, <2>2, <2>3, <2>4, <2>5, <2>6, <2>7 DEF Reconcile
<1> QED
  BY <1>1, <1>2, <1>3, <1>4, <1>5 DEF Next, Loop

(* A DELETE that finds the row in nobody's hand is not undone by anything  *)
(* but its completion: no POST and no sweep brings the tenant back.        *)
DeleteSticks ==
    [][\A t \in Tenants :
         Leaving(t) => state'[t] \in {"deleting", "destroyed"}]_vars

(* A DELETE that no pass of the loop has overtaken is undone by nothing,   *)
(* whatever requests, crashes and failures follow, and even when targets   *)
(* change late.                                                            *)
THEOREM DeleteKept == Spec => DeleteSticks
<1> DEFINE Kept == \A t \in Tenants :
                     Leaving(t) => state'[t] \in {"deleting", "destroyed"}
<1>1. Init => TypeOK /\ InHand
  BY TypeInit DEF Init, InHand
<1>2. TypeOK /\ InHand /\ [Next]_vars => (TypeOK /\ InHand)'
  BY TypeStep, InHandStep
<1>3. TypeOK /\ InHand /\ [Next]_vars => [Kept]_vars
  BY DeleteStep DEF Leaving
<1> QED
  BY <1>1, <1>2, <1>3, PTL DEF Spec, DeleteSticks
-----------------------------------------------------------------------------
(* Nothing of a tenant is where its row does not say: in the cluster of    *)
(* the target column only, and nowhere once the row says destroyed, which  *)
(* is when nobody will look again, but for what a teardown has left.       *)
NoOrphans ==
    \A t \in Tenants, c \in Clusters :
        stack[<<t, c>>] # "none" =>
            /\ c = target[t]
            /\ state[t] # "absent"
            /\ state[t] = "destroyed" => stack[<<t, c>>] = "residue"
            /\ stack[<<t, c>>] = "residue" => state[t] \in {"deleting", "destroyed"}

(* What makes NoOrphans inductive when targets do not change late: a row   *)
(* the session knows is still there and has the target the session knows,  *)
(* and once torn down a stack does not come back before that is recorded.  *)
Agree ==
    /\ \A t \in Tenants : Held(t) =>
          state[t] \notin {"absent", "destroyed"} /\ aim[t] = target[t]
    /\ \A t \in Tenants, c \in Clusters :
          stack[<<t, c>>] = "residue" => loaded[t] \in {"absent", "deleting"}
    /\ cur # NoTenant /\ at = "gone" => Empty(cur)

(* ... and a row the sweep loaded as deleting is still deleting.           *)
Closing == \A t \in Tenants : loaded[t] = "deleting" => state[t] = "deleting"

OInv == TypeOK /\ InHand /\ Agree /\ NoOrphans /\ Closing

(* Where something is applied there is no residue.                         *)
LEMMA NoResidue ==
    ASSUME OInv, NEW t \in Tenants, loaded[t] \notin {"absent", "deleting"}
    PROVE  Held(t) /\ \A c \in Clusters : stack[<<t, c>>] # "residue"
  BY DEF OInv, Agree, Held

LEMMA OrphanStep ==
    ASSUME LateRetargets = FALSE, OInv, [Next]_vars
    PROVE  Agree' /\ NoOrphans'
<1> USE DEF OInv, TypeOK, Agree, NoOrphans, Held, Empty, Vacant, Closing
<1>1. CASE UNCHANGED vars
  BY <1>1 DEF vars, rowVars, sweepVars
<1>2. CASE StartSweep
  BY <1>2 DEF StartSweep, rowVars
<1>3. CASE EndSweep
  BY <1>3 DEF EndSweep, rowVars
<1>4. CASE SweepDies
  BY <1>4 DEF SweepDies, rowVars
<1>5. ASSUME NEW t \in Tenants, Request(t)
      PROVE  Agree' /\ NoOrphans'
  <2>1. ASSUME NEW c \in Clusters, Create(t, c)
        PROVE  Agree' /\ NoOrphans'
    BY <2>1 DEF Create, sweepVars
  <2>2. ASSUME NEW c \in Clusters, Retarget(t, c)
        PROVE  Agree' /\ NoOrphans'
    BY <2>2 DEF Retarget, sweepVars
  <2>3. CASE Delete(t)
    BY <2>3 DEF Delete, sweepVars
  <2> QED
    BY <1>5, <2>1, <2>2, <2>3 DEF Request
<1>6. ASSUME NEW t \in Tenants, NEW c \in Clusters, Drift(t, c) \/ Clear(t, c)
      PROVE  Agree' /\ NoOrphans'
  BY <1>6 DEF Drift, Clear, rowVars, sweepVars
<1>7. ASSUME NEW t \in Tenants, Reconcile(t)
      PROVE  Agree' /\ NoOrphans'
  <2> DEFINE Kept(s) == s \notin {"absent", "destroyed"}
  <2>1. ASSUME NEW s, Commit(t, s), Kept(s), Held(t)
        PROVE  /\ Kept(state'[t])
               /\ \A u \in Tenants \ {t} : state'[u] = state[u]
    BY <2>1 DEF Commit
  <2> HIDE DEF Kept
  <2>2. CASE Leave(t)
    BY <2>2 DEF Leave, DoneWith, rowVars
  <2>3. CASE TakeDown(t)
    BY <2>3 DEF TakeDown, rowVars
  <2>4. CASE RecordGone(t)
    <3>1. \A u \in Tenants \ {t} : state'[u] = state[u] /\ loaded'[u] = loaded[u]
      BY <2>4 DEF RecordGone, Commit, DoneWith
    <3>2. Empty(t) /\ loaded'[t] = "absent" /\ state'[t] = "destroyed"
      BY <2>4 DEF RecordGone, DoneWith, Commit, InHand
    <3> QED
      BY <2>4, <3>1, <3>2 DEF RecordGone, DoneWith
  <2>5. CASE Poll(t)
    <3>1. /\ Kept(state'[t])
          /\ \A u \in Tenants \ {t} : state'[u] = state[u]
      BY <2>5, <2>1 DEF Poll, Kept
    <3> QED
      BY <2>5, <3>1 DEF Poll, DoneWith, Kept
  <2>6. CASE Begin(t)
    <3>1. /\ Kept(state'[t])
          /\ \A u \in Tenants \ {t} : state'[u] = state[u]
      BY <2>6, <2>1 DEF Begin, BeginFrom, Kept
    <3> QED
      BY <2>6, <3>1 DEF Begin, BeginFrom, Kept
  <2>7. CASE Touch(t) \/ Finish(t)
    <3>1. Held(t) /\ \A c \in Clusters : stack[<<t, c>>] # "residue"
      BY <2>7, NoResidue DEF Touch, Finish, InHand
    <3>2. UNCHANGED <<state, target, loaded, aim, cur>> /\ at' # "gone"
      BY <2>7 DEF Touch, Finish, rowVars
    <3>3. \A u \in Tenants, c \in Clusters :
             \/ stack'[<<u, c>>] = stack[<<u, c>>]
             \/ u = t /\ c = aim[t] /\ stack'[<<u, c>>] # "residue"
      <4>1. CASE Touch(t)
        <5>1. \A u \in Tenants, c \in Clusters :
                 stack'[<<u, c>>] = stack[<<u, c>>] \/ (u = t /\ c = aim[t])
          BY <4>1 DEF Touch
        <5>2. stack'[<<t, aim[t]>>] \in {"locked", "part", stack[<<t, aim[t]>>]}
          BY <4>1 DEF Touch
        <5>3. stack'[<<t, aim[t]>>] # "residue"
          BY <3>1, <5>2
        <5> HIDE DEF OInv, TypeOK, Agree, NoOrphans, Held, Empty, Closing
        <5> QED
          BY <5>1, <5>3
      <4>2. CASE Finish(t)
        BY <4>2 DEF Finish
      <4> QED
        BY <2>7, <4>1, <4>2
    <3> QED
      BY <3>1, <3>2, <3>3
  <2>8. CASE Record(t)
    <3>1. /\ Kept(Reached(t)) /\ Held(t)
          /\ \A c \in Clusters : stack[<<t, c>>] # "residue"
      BY <2>8, NoResidue DEF Record, Reached, InHand, Kept
    <3>2. /\ Kept(state'[t])
          /\ \A u \in Tenants \ {t} : state'[u] = state[u]
      BY <2>8, <2>1, <3>1 DEF Record
    <3> QED
      BY <2>8, <3>1, <3>2 DEF Record, DoneWith, Kept
  <2>9. CASE Fail(t)
    <3>1. Held(t) /\ \A c \in Clusters : stack[<<t, c>>] # "residue"
      BY <2>9, NoResidue DEF Fail, InHand
    <3>2. /\ Kept(state'[t])
          /\ \A u \in Tenants \ {t} : state'[u] = state[u]
      BY <2>9, <2>1, <3>1 DEF Fail, Kept
    <3>3. \A u \in Tenants, c \in Clusters :
             \/ stack'[<<u, c>>] = stack[<<u, c>>]
             \/ u = t /\ c = aim[t] /\ stack'[<<u, c>>] # "residue"
      <4>1. \A u \in Tenants, c \in Clusters :
               stack'[<<u, c>>] = stack[<<u, c>>] \/ (u = t /\ c = aim[t])
        BY <2>9 DEF Fail
      <4>2. stack'[<<t, aim[t]>>] \in {"part", stack[<<t, aim[t]>>]}
        BY <2>9 DEF Fail
      <4>3. stack'[<<t, aim[t]>>] # "residue"
        BY <3>1, <4>2
      <4> HIDE DEF OInv, TypeOK, Agree, NoOrphans, Held, Empty, Closing
      <4> QED
        BY <4>1, <4>3
    <3> QED
      BY <2>9, <3>1, <3>2, <3>3 DEF Fail, DoneWith, Kept
  <2> QED
    BY <1>7, <2>2, <2>3, <2>4, <2>5, <2>6, <2>7, <2>8, <2>9 DEF Reconcile
<1> QED
  BY <1>1, <1>2, <1>3, <1>4, <1>5, <1>6, <1>7 DEF Next, Loop

LEMMA ClosingStep ==
    ASSUME LateRetargets = FALSE, OInv, [Next]_vars
    PROVE  Closing'
<1> SUFFICES ASSUME NEW d \in Tenants, loaded'[d] = "deleting"
             PROVE  state'[d] = "deleting"
  BY DEF Closing
<1>1. CASE StartSweep
  BY <1>1 DEF StartSweep, rowVars, OInv, TypeOK
<1>2. CASE loaded[d] = "deleting"
  <2>1. state'[d] \in {"deleting", "destroyed"}
    BY <1>2, DeleteStep DEF OInv, Closing
  <2>2. state'[d] # "destroyed"
    BY OrphanStep DEF OInv, Agree, Held
  <2> QED
    BY <2>1, <2>2
<1>3. StartSweep \/ loaded[d] = "deleting"
  <2> SUFFICES ASSUME ~StartSweep
               PROVE  loaded[d] = "deleting"
    OBVIOUS
  <2> USE DEF OInv, TypeOK
  <2>1. CASE UNCHANGED vars
    BY <2>1 DEF vars, sweepVars
  <2>2. CASE EndSweep \/ SweepDies
    BY <2>2 DEF EndSweep, SweepDies
  <2>3. ASSUME NEW t \in Tenants, Request(t)
        PROVE  loaded[d] = "deleting"
    BY <2>3 DEF Request, Create, Retarget, Delete, sweepVars
  <2>4. ASSUME NEW t \in Tenants, NEW c \in Clusters, Drift(t, c) \/ Clear(t, c)
        PROVE  loaded[d] = "deleting"
    BY <2>4 DEF Drift, Clear, sweepVars
  <2>5. ASSUME NEW t \in Tenants, Reconcile(t)
        PROVE  loaded[d] = "deleting"
    BY <2>5 DEF Reconcile, Leave, TakeDown, RecordGone, Poll, Begin, BeginFrom,
                Touch, Finish, Record, Fail, DoneWith
  <2> QED
    BY <2>1, <2>2, <2>3, <2>4, <2>5 DEF Next, Loop
<1> QED
  BY <1>1, <1>2, <1>3

LEMMA OInvStep ==
    ASSUME LateRetargets = FALSE, OInv, [Next]_vars
    PROVE  OInv'
  BY TypeStep, InHandStep, OrphanStep, ClosingStep DEF OInv

LEMMA OInvInit == Init => OInv
  BY TypeInit DEF Init, OInv, InHand, Agree, NoOrphans, Held, Empty, Vacant, Closing

(* As long as nobody retargets a row whose first apply has begun, no       *)
(* cluster keeps anything of a tenant whose row does not lead there, for   *)
(* any number of tenants and clusters, crashes, failures and requests.     *)
THEOREM NothingOrphaned == LateRetargets = FALSE /\ Spec => []NoOrphans
<1>1. OInv => NoOrphans
  BY DEF OInv
<1>2. ASSUME LateRetargets = FALSE
      PROVE  Spec => []NoOrphans
  <2>1. OInv /\ [Next]_vars => OInv'
    BY <1>2, OInvStep
  <2> QED
    BY <1>1, <2>1, OInvInit, PTL DEF Spec
<1> QED
  BY <1>2

-----------------------------------------------------------------------------
(* The refinement of TenantLifecycle.                                      *)

(* A row the sweep works on, not to remove it, is living.                  *)
LEMMA HeldIsLiving ==
    ASSUME OInv, NEW t \in Tenants, Held(t), loaded[t] # "deleting"
    PROVE  Phase(t) = "living"
  BY DEF OInv, Agree, Held, Phase, Leaving

LEMMA PhaseKept ==
    ASSUME NEW t \in Tenants, state'[t] = state[t], loaded'[t] = loaded[t]
    PROVE  Phase(t)' = Phase(t)
  BY DEF Phase, Leaving

Same == Occupied' = Occupied /\ Residues' = Residues

(* A step that changes nothing the caller sees, but that some removals     *)
(* become definite.                                                        *)
OnlyCloses ==
    \A t \in Tenants :
        \/ Phase(t)' = Phase(t)
        \/ Phase(t) \in {"living", "gone"} /\ Phase(t)' = "leaving"

LEMMA ClosesRefines ==
    ASSUME target' = target,
           Same,
           OnlyCloses
    PROVE  Promise!LifecycleNext
<1> DEFINE leavers == {t \in Tenants : Phase(t)' # Phase(t)}
<1>1. Promise!Close(leavers)
  BY DEF Promise!Close, OnlyCloses, Same
<1>2. leavers \in SUBSET Tenants
  OBVIOUS
<1> QED
  BY <1>1, <1>2 DEF Promise!LifecycleNext

(* The sweep is done with a row, whose state it may have left deleting.    *)
LEMMA DoneRefines ==
    ASSUME OInv, NEW t \in Tenants, DoneWith(t), Held(t), loaded[t] # "deleting",
           NEW s \in {"active", "provisioning", "error"},
           state' = state \/ Commit(t, s),
           target' = target,
           Same
    PROVE  Promise!LifecycleNext
<1>1. Phase(t) = "living"
  BY HeldIsLiving
<1>2. Phase(t)' \in {"living", "leaving"}
  BY DEF DoneWith, Commit, OInv, TypeOK, Agree, Held, Phase, Leaving
<1>3. ASSUME NEW u \in Tenants, u # t
      PROVE  Phase(u)' = Phase(u)
  <2>1. state'[u] = state[u] /\ loaded'[u] = loaded[u]
    BY <1>3 DEF DoneWith, Commit, OInv, TypeOK
  <2> QED
    BY <2>1, PhaseKept
<1>4. OnlyCloses
  BY <1>1, <1>2, <1>3 DEF OnlyCloses
<1> QED
  BY <1>4, ClosesRefines

LEMMA RequestRefines ==
    ASSUME OInv, NEW t \in Tenants, LateRetargets = FALSE, Request(t)
    PROVE  Promise!LifecycleNext
<1> USE DEF OInv, TypeOK
<1>1. ASSUME NEW u \in Tenants, u # t
      PROVE  Phase(u)' = Phase(u)
  <2>1. state'[u] = state[u] /\ loaded'[u] = loaded[u]
    BY <1>1 DEF Request, Create, Retarget, Delete, sweepVars
  <2> QED
    BY <2>1, PhaseKept
<1>2. ASSUME NEW c \in Clusters, Create(t, c)
      PROVE  Promise!LifecycleNext
  <2>1. Phase(t) = "none" /\ Phase(t)' = "living"
    BY <1>2 DEF Create, Phase, Leaving
  <2>2. Promise!Open(t, c)
    BY <1>1, <1>2, <2>1 DEF Create, Promise!Open, Occupied, Residues, Vacant, Same
  <2> QED
    BY <2>2 DEF Promise!LifecycleNext
<1>3. ASSUME NEW c \in Clusters, Retarget(t, c)
      PROVE  Promise!LifecycleNext
  <2>1. Phase(t) = "living" /\ Phase(t)' = "living"
    BY <1>3 DEF Retarget, Phase, Leaving
  <2>2. Promise!Absent(t)
    BY <1>3 DEF Retarget, Empty, Promise!Absent, Occupied, Residues, Vacant, Same
  <2>3. Promise!Move(t, c)
    BY <1>1, <1>3, <2>1, <2>2 DEF Retarget, Promise!Move, Occupied, Residues, Vacant, Same
  <2> QED
    BY <2>3 DEF Promise!LifecycleNext
<1>4. CASE Delete(t)
  <2>1. \/ Phase(t)' = Phase(t)
        \/ Phase(t) \in {"living", "gone"} /\ Phase(t)' = "leaving"
    BY <1>4 DEF Delete, sweepVars, Agree, Held, Phase, Leaving
  <2>2. target' = target /\ Same
    BY <1>4 DEF Delete, Occupied, Residues, Vacant, Same
  <2>3. OnlyCloses
    BY <1>1, <2>1 DEF OnlyCloses
  <2> QED
    BY <2>2, <2>3, ClosesRefines
<1> QED
  BY <1>2, <1>3, <1>4 DEF Request

(* What a step does to the stack of t in its cluster while t is living.    *)
LEMMA RaiseRefines ==
    ASSUME OInv, NEW t \in Tenants, Phase(t) = "living", UNCHANGED <<state, target, loaded>>,
           NEW v \in Levels \ {"residue"}, stack' = [stack EXCEPT ![<<t, target[t]>>] = v]
    PROVE  Promise!LifecycleNext
<1>0. stack[<<t, target[t]>>] # "residue"
  BY DEF OInv, TypeOK, Agree, NoOrphans, Phase, Leaving
<1>1. \A u \in Tenants : Phase(u)' = Phase(u)
  BY PhaseKept
<1>2. CASE v = "none"
  <2>1. Promise!Lose(t)
    BY <1>0, <1>1, <1>2 DEF Promise!Lose, Occupied, Residues, Vacant, Same, OInv, TypeOK
  <2> QED
    BY <2>1 DEF Promise!LifecycleNext
<1>3. CASE v # "none"
  <2>1. Promise!Raise(t)
    BY <1>0, <1>1, <1>3 DEF Promise!Raise, Occupied, Residues, Vacant, Same, OInv, TypeOK
  <2> QED
    BY <2>1 DEF Promise!LifecycleNext
<1> QED
  BY <1>2, <1>3

LEMMA ReconcileRefines ==
    ASSUME OInv, NEW t \in Tenants, Reconcile(t)
    PROVE  Promise!LifecycleNext
<1> USE DEF OInv, TypeOK
<1>1. CASE Leave(t)
  <2>0. target' = target /\ Same
    BY <1>1 DEF Leave, rowVars, Occupied, Residues, Vacant, Same
  <2>1. CASE loaded[t] = "deleting"
    <3>1. state[t] = "deleting"
      BY <2>1 DEF Closing
    <3>2. \A u \in Tenants : Phase(u)' = Phase(u)
      BY <1>1, <2>1, <3>1 DEF Leave, DoneWith, rowVars, Phase, Leaving
    <3> QED
      BY <2>0, <3>2, ClosesRefines DEF OnlyCloses
  <2>2. CASE loaded[t] # "deleting"
    BY <1>1, <2>0, <2>2, DoneRefines DEF Leave, rowVars
  <2> QED
    BY <2>1, <2>2
<1>2. CASE TakeDown(t)
  <2>1. \A u \in Tenants : Phase(u)' = Phase(u)
    BY <1>2, PhaseKept DEF TakeDown, rowVars
  <2>2. Phase(t) = "leaving" /\ aim[t] = target[t]
    BY <1>2 DEF TakeDown, Closing, Agree, Held, Phase, Leaving
  <2>3. Promise!Remove(t)
    BY <1>2, <2>1, <2>2 DEF TakeDown, rowVars, Promise!Remove, Occupied, Residues, Vacant, Same
  <2> QED
    BY <2>3 DEF Promise!LifecycleNext
<1>3. CASE RecordGone(t)
  <2>1. loaded[t] = "deleting" /\ Empty(t)
    BY <1>3 DEF RecordGone, InHand, Agree
  <2>2. Phase(t) = "leaving"
    BY <2>1 DEF Closing, Phase, Leaving
  <2>3. Phase(t)' = "gone"
    BY <1>3, <2>1 DEF RecordGone, Commit, Phase
  <2>4. ASSUME NEW u \in Tenants, u # t
        PROVE  Phase(u)' = Phase(u)
    <3>1. state'[u] = state[u] /\ loaded'[u] = loaded[u]
      BY <1>3, <2>4 DEF RecordGone, Commit, DoneWith
    <3> QED
      BY <3>1, PhaseKept
  <2>5. Promise!Absent(t)
    BY <2>1 DEF Empty, Promise!Absent, Occupied, Residues, Vacant, Same
  <2>6. Promise!Vanish(t)
    BY <1>3, <2>2, <2>3, <2>4, <2>5 DEF RecordGone, Promise!Vanish, Occupied, Residues, Vacant, Same
  <2> QED
    BY <2>6 DEF Promise!LifecycleNext
<1>4. CASE Poll(t)
  BY <1>4, DoneRefines DEF Poll, Held, Occupied, Residues, Vacant, Same
<1>5. CASE Begin(t)
  <2>1. Held(t) /\ loaded[t] # "deleting"
    BY <1>5 DEF Begin, BeginFrom, Held
  <2>2. Phase(t) = "living"
    BY <2>1, HeldIsLiving
  <2>3. Phase(t)' = "living"
    <3>1. CASE UNCHANGED <<state, loaded>>
      BY <2>2, <3>1, PhaseKept
    <3>2. CASE Commit(t, "provisioning") /\ loaded' = [loaded EXCEPT ![t] = "provisioning"]
      BY <2>1, <3>2 DEF Commit, Agree, Phase, Leaving
    <3> QED
      BY <1>5, <3>1, <3>2 DEF Begin, BeginFrom
  <2>4. ASSUME NEW u \in Tenants, u # t
        PROVE  Phase(u)' = Phase(u)
    <3>1. state'[u] = state[u] /\ loaded'[u] = loaded[u]
      BY <1>5, <2>4 DEF Begin, BeginFrom, Commit
    <3> QED
      BY <3>1, PhaseKept
  <2>5. target' = target /\ Same
    BY <1>5 DEF Begin, BeginFrom, Occupied, Residues, Vacant, Same
  <2>6. OnlyCloses
    BY <2>2, <2>3, <2>4 DEF OnlyCloses
  <2> QED
    BY <2>5, <2>6, ClosesRefines
<1>6. CASE Touch(t) \/ Finish(t)
  <2>1. /\ Held(t) /\ loaded[t] # "deleting"
        /\ \A c \in Clusters : stack[<<t, c>>] # "residue"
    BY <1>6, NoResidue DEF Touch, Finish, InHand, Held
  <2>2. Phase(t) = "living" /\ aim[t] = target[t]
    BY <2>1, HeldIsLiving DEF Agree
  <2>3. UNCHANGED <<state, target, loaded>>
    BY <1>6 DEF Touch, Finish, rowVars
  <2>4. \E v \in Levels \ {"residue"} : stack' = [stack EXCEPT ![<<t, target[t]>>] = v]
    <3>1. CASE Touch(t)
      <4> DEFINE v == IF kind # "nautobot" THEN "locked"
                      ELSE IF stack[<<t, aim[t]>>] = "none" THEN "part"
                      ELSE stack[<<t, aim[t]>>]
      <4>1. v \in Levels \ {"residue"}
        BY <2>1, <2>2 DEF Levels
      <4>2. stack' = [stack EXCEPT ![<<t, target[t]>>] = v]
        BY <3>1, <2>2 DEF Touch
      <4> QED
        BY <4>1, <4>2
    <3>2. CASE Finish(t)
      BY <3>2, <2>2 DEF Finish, Levels
    <3> QED
      BY <1>6, <3>1, <3>2
  <2> QED
    BY <2>2, <2>3, <2>4, RaiseRefines
<1>7. CASE Record(t)
  <2>1. Held(t) /\ loaded[t] # "deleting"
    BY <1>7 DEF Record, InHand, Held
  <2>2. Reached(t) \in {"active", "provisioning", "error"}
    BY DEF Reached
  <2> QED
    BY <1>7, <2>1, <2>2, DoneRefines DEF Record, Occupied, Residues, Vacant, Same
<1>8. CASE Fail(t)
  <2>1. Held(t) /\ loaded[t] # "deleting"
    BY <1>8 DEF Fail, InHand, Held
  <2>2. Same
    BY <1>8 DEF Fail, Occupied, Residues, Vacant, Same
  <2> QED
    BY <1>8, <2>1, <2>2, DoneRefines DEF Fail
<1> QED
  BY <1>1, <1>2, <1>3, <1>4, <1>5, <1>6, <1>7, <1>8 DEF Reconcile

LEMMA StepRefines ==
    ASSUME OInv, LateRetargets = FALSE, [Next]_vars
    PROVE  [Promise!LifecycleNext]_(Promise!lifecycleVars)
<1> USE DEF OInv, TypeOK
<1>1. CASE UNCHANGED vars
  BY <1>1 DEF vars, rowVars, sweepVars, Phase, Leaving, Promise!lifecycleVars, Occupied, Residues, Vacant, Same
<1>2. CASE StartSweep
  <2>1. \A t \in Tenants : Phase(t)' = Phase(t)
    BY <1>2 DEF StartSweep, rowVars, InHand, Phase, Leaving
  <2>2. target' = target /\ Same
    BY <1>2 DEF StartSweep, rowVars, Occupied, Residues, Vacant, Same
  <2> QED
    BY <2>1, <2>2, ClosesRefines DEF OnlyCloses
<1>3. CASE EndSweep
  <2>1. \A t \in Tenants : Phase(t)' = Phase(t)
    BY <1>3, PhaseKept DEF EndSweep, rowVars
  <2>2. target' = target /\ Same
    BY <1>3 DEF EndSweep, rowVars, Occupied, Residues, Vacant, Same
  <2> QED
    BY <2>1, <2>2, ClosesRefines DEF OnlyCloses
<1>4. CASE SweepDies
  <2>1. OnlyCloses
    BY <1>4 DEF SweepDies, rowVars, Phase, Leaving, OnlyCloses
  <2>2. target' = target /\ Same
    BY <1>4 DEF SweepDies, rowVars, Occupied, Residues, Vacant, Same
  <2> QED
    BY <2>1, <2>2, ClosesRefines
<1>5. ASSUME NEW t \in Tenants, NEW c \in Clusters, Drift(t, c) \/ Clear(t, c)
      PROVE  Promise!LifecycleNext
  <2>1. UNCHANGED <<state, target, loaded>>
    BY <1>5 DEF Drift, Clear, rowVars, sweepVars
  <2>2. CASE Drift(t, c)
    <3>1. Phase(t) = "living" /\ c = target[t]
      BY <2>2 DEF Drift, Phase, Leaving, NoOrphans
    <3>2. \E v \in Levels \ {"residue"} : stack' = [stack EXCEPT ![<<t, target[t]>>] = v]
      BY <2>2, <3>1 DEF Drift, Levels
    <3> QED
      BY <2>1, <3>1, <3>2, RaiseRefines
  <2>3. CASE Clear(t, c)
    <3>1. \A u \in Tenants : Phase(u)' = Phase(u)
      BY <2>1, <2>3, PhaseKept DEF Clear, rowVars, sweepVars
    <3>2. c = target[t] /\ Phase(t) \in {"leaving", "gone"}
      BY <2>3 DEF Clear, NoOrphans, Agree, Phase, Leaving
    <3>3. Promise!Clear(t)
      BY <2>1, <2>3, <3>1, <3>2 DEF Clear, Promise!Clear, Occupied, Residues, Vacant
    <3> QED
      BY <3>3 DEF Promise!LifecycleNext
  <2> QED
    BY <1>5, <2>2, <2>3
<1> QED
  BY <1>1, <1>2, <1>3, <1>4, <1>5, RequestRefines, ReconcileRefines DEF Next, Loop

(* As long as nobody retargets a row late, either controller implements    *)
(* the life of a row, for any number of tenants and clusters: every        *)
(* request, every step of a sweep and every crash is a step of             *)
(* TenantLifecycle or a stutter.                                           *)
THEOREM Implements == LateRetargets = FALSE /\ Spec => ImplementsLifecycle
<1>1. Init => OInv
  BY OInvInit
<1>2. Init => Promise!LifecycleInit
  BY DEF Init, Promise!LifecycleInit, Phase, Occupied, Residues, Vacant
<1>3. ASSUME LateRetargets = FALSE
      PROVE  Spec => ImplementsLifecycle
  <2>1. OInv /\ [Next]_vars => OInv'
    BY <1>3, OInvStep
  <2>2. OInv /\ [Next]_vars => [Promise!LifecycleNext]_(Promise!lifecycleVars)
    BY <1>3, StepRefines
  <2> QED
    BY <1>1, <1>2, <2>1, <2>2, PTL DEF Spec, ImplementsLifecycle, Promise!Lifecycle
<1> QED
  BY <1>3
=============================================================================
