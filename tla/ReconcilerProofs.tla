-------------------------- MODULE ReconcilerProofs --------------------------
(***************************************************************************)
(* Theorems about Reconciler, for any tenant: types; that a device has no  *)
(* more open drift proposals than there are sweeps that can overlap, and   *)
(* so one when they do not; and that what a proposal shows is current when *)
(* they do not.  The bound is not inductive: a sweep that found no open    *)
(* proposal inserts its own three steps later, so Budget counts the visits *)
(* on their way together with the rows they will open.                     *)
(***************************************************************************)
EXTENDS Reconciler, FiniteSetTheorems, TLAPS

Visiting == {"checked", "read", "drifted"}

(* What a sweep is about to propose are configurations.                    *)
ReadsAreConfigs ==
    \A s \in Sweepers :
        /\ at[s] \in {"read", "drifted"} => want[s] \in Configs
        /\ at[s] = "drifted" => saw[s] \in Configs

(* The executor only holds a row that exists.                              *)
HeldExists == executing # NoRow => status[executing] # "absent"

HasOutcome == outcome # "none" => executing # NoRow

TInv == TypeOK /\ ReadsAreConfigs /\ HeldExists /\ HasOutcome

LEMMA InitTInv == Init => TInv
  BY DEF Init, TInv, TypeOK, ReadsAreConfigs, HeldExists, HasOutcome

LEMMA InsertType ==
    ASSUME TInv, NEW p \in Rows, NEW contents \in RowContents, Insert(p, contents)
    PROVE  /\ status' \in [Rows -> Open \cup Final \cup {"absent"}]
           /\ row' \in [Rows -> RowContents \cup {Unused}]
           /\ \A q \in Rows : status'[q] # "absent" => row'[q] \in RowContents
           /\ \A q \in Rows : status[q] # "absent" => status'[q] # "absent"
  BY DEF TInv, TypeOK, Insert, Open

LEMMA TInvStep == TInv /\ [Next]_vars => TInv'
  <1> SUFFICES ASSUME TInv, [Next]_vars
               PROVE  TInv'
    OBVIOUS
  <1> USE ReconcilerAssumption DEF TInv, TypeOK, ReadsAreConfigs, HeldExists, HasOutcome
  <1>1. ASSUME NEW s \in Sweepers,
               NEW D \in {Devices} \cup {{d} : d \in Devices}, StartSweep(s, D)
        PROVE  TInv'
    BY <1>1 DEF StartSweep, rowVars, execVars, bounds
  <1>2. ASSUME NEW s \in Sweepers, NEW d \in Devices, CheckOpen(s, d)
        PROVE  TInv'
    BY <1>2 DEF CheckOpen, rowVars, execVars, bounds
  <1>3. ASSUME NEW s \in Sweepers, ReadIntent(s)
        PROVE  TInv'
    BY <1>3 DEF ReadIntent, Leave, rowVars, execVars, bounds
  <1>4. ASSUME NEW s \in Sweepers, Collect(s)
        PROVE  TInv'
    BY <1>4 DEF Collect, Leave, rowVars, execVars, bounds
  <1>5. ASSUME NEW s \in Sweepers, DeviceFails(s)
        PROVE  TInv'
    BY <1>5 DEF DeviceFails, Leave, rowVars, execVars, bounds
  <1>6. ASSUME NEW s \in Sweepers, NEW p \in Rows, ProposeDrift(s, p)
        PROVE  TInv'
    <2> DEFINE contents == [device |-> dev[s], kind |-> "drift",
                            intended |-> want[s], observed |-> saw[s]]
    <2>1. contents \in RowContents
      BY <1>6 DEF ProposeDrift, RowContents
    <2>2. Insert(p, contents)
      BY <1>6 DEF ProposeDrift
    <2> HIDE DEF contents
    <2>3. QED
      BY <1>6, <2>1, <2>2, InsertType DEF ProposeDrift, Leave, execVars, bounds
  <1>7. ASSUME NEW s \in Sweepers, EndSweep(s)
        PROVE  TInv'
    BY <1>7 DEF EndSweep, rowVars, execVars, bounds
  <1>8. ASSUME NEW p \in Rows, NEW d \in Devices, NEW c \in EngineFacts,
               EngineProposes(p, d, c)
        PROVE  TInv'
    <2> DEFINE contents == [device |-> d, kind |-> "manual", intended |-> c,
                            observed |-> sot[d]]
    <2>1. contents \in RowContents
      BY DEF RowContents
    <2>2. Insert(p, contents)
      BY <1>8 DEF EngineProposes
    <2> HIDE DEF contents
    <2>3. QED
      BY <1>8, <2>1, <2>2, InsertType DEF EngineProposes, sweepVars, execVars
  <1>9. ASSUME NEW d \in Devices, NEW c \in SotEdits, EditIntent(d, c)
        PROVE  TInv'
    BY <1>9 DEF EditIntent, rowVars, sweepVars, execVars
  <1>10. ASSUME NEW d \in Devices, NEW c \in Configs, Drift(d, c)
         PROVE  TInv'
    BY <1>10 DEF Drift, rowVars, sweepVars, execVars
  <1>11. ASSUME NEW p \in Rows, NEW decision \in {"approved", "rejected"},
                Decide(p, decision)
         PROVE  TInv'
    BY <1>11 DEF Decide, Open, Final, sweepVars, execVars, bounds
  <1>12. ASSUME NEW p \in Rows, Take(p)
         PROVE  TInv'
    BY <1>12 DEF Take, Open, Final, sweepVars, bounds
  <1>13. ASSUME NEW result \in Outcomes, NEW c \in Configs, Push(result, c)
         PROVE  TInv'
    <2>1. row[executing] \in RowContents /\ executing \in Rows
      BY <1>13 DEF Push
    <2>2. row[executing].intended \in Configs
      BY <2>1 DEF RowContents
    <2>3. QED
      BY <1>13, <2>1, <2>2 DEF Push, Outcomes, rowVars, sweepVars, bounds
  <1>14. CASE Record
    BY <1>14 DEF Record, Final, sweepVars, bounds
  <1>15. CASE UNCHANGED vars
    BY <1>15 DEF vars, rowVars, sweepVars, execVars, bounds
  <1>16. QED
    BY <1>1, <1>2, <1>3, <1>4, <1>5, <1>6, <1>7, <1>8, <1>9, <1>10, <1>11,
       <1>12, <1>13, <1>14, <1>15 DEF Next, SweepNext, ExecutorNext

(* Every variable keeps its type: in particular a row is never opened with *)
(* anything but configurations in it.                                      *)
THEOREM ReconcilerTypes == Spec => []TypeOK
  <1>1. TInv => TypeOK
    BY DEF TInv
  <1>2. QED
    BY <1>1, InitTInv, TInvStep, PTL DEF Spec

-----------------------------------------------------------------------------
FinitePool == IsFiniteSet(Sweepers)

OpenDrift(p) == IsOpen(p) /\ row[p].kind = "drift"

(* The sweeps that found no open proposal for d and may open one.          *)
Visitors(d) == {s \in Sweepers : at[s] \in Visiting /\ dev[s] = d}

(* A visit only begins when nothing is open: what the visits of a device   *)
(* open side by side is counted from the last time there was nothing.      *)
Budget(d) ==
    /\ IsFiniteSet(OpenDrifts(d))
    /\ Cardinality(OpenDrifts(d)) + Cardinality(Visitors(d)) <= Cardinality(Sweepers)

DInv == TInv /\ \A d \in Devices : Budget(d)

(* Apart from a sweep's insert, no step opens a drift row or moves one to  *)
(* another device.                                                         *)
LEMMA DriftRowsOnlyFromSweeps ==
    ASSUME TInv, [Next]_vars,
           ~ \E s \in Sweepers, p \in Rows : ProposeDrift(s, p)
    PROVE  \A p \in Rows : OpenDrift(p)' => OpenDrift(p) /\ row'[p] = row[p]
  <1> USE DEF TInv, TypeOK, OpenDrift, IsOpen
  <1>1. CASE UNCHANGED status /\ UNCHANGED row
    BY <1>1
  <1>2. ASSUME NEW p \in Rows, NEW d \in Devices, NEW c \in EngineFacts,
               EngineProposes(p, d, c)
        PROVE  \A q \in Rows : OpenDrift(q)' => OpenDrift(q) /\ row'[q] = row[q]
    BY <1>2 DEF EngineProposes, Insert
  <1>3. ASSUME NEW p \in Rows, NEW decision \in {"approved", "rejected"},
               Decide(p, decision)
        PROVE  \A q \in Rows : OpenDrift(q)' => OpenDrift(q) /\ row'[q] = row[q]
    BY <1>3 DEF Decide, Open
  <1>4. ASSUME NEW p \in Rows, Take(p)
        PROVE  \A q \in Rows : OpenDrift(q)' => OpenDrift(q) /\ row'[q] = row[q]
    BY <1>4 DEF Take, Open
  <1>5. CASE Record
    BY <1>5 DEF Record, Open
  <1>6. QED
    BY <1>1, <1>2, <1>3, <1>4, <1>5 DEF Next, SweepNext, ExecutorNext, StartSweep,
       CheckOpen, ReadIntent, Collect, DeviceFails, EndSweep, EditIntent, Drift,
       Push, vars, rowVars

(* A visit begins with the check, and only a visit in progress goes on.    *)
LEMMA VisitsBeginWithTheCheck ==
    ASSUME TInv, [Next]_vars, NEW s \in Sweepers, at'[s] \in Visiting
    PROVE  \/ at[s] \in Visiting /\ dev'[s] = dev[s]
           \/ ~HasOpen(dev'[s]) /\ UNCHANGED <<status, row>>
  <1> USE DEF TInv, TypeOK, Visiting
  <1>1. CASE UNCHANGED <<at, dev>>
    BY <1>1
  <1>2. ASSUME NEW t \in Sweepers, SweepNext(t)
        PROVE  \/ at[s] \in Visiting /\ dev'[s] = dev[s]
               \/ ~HasOpen(dev'[s]) /\ UNCHANGED <<status, row>>
    <2>1. ASSUME NEW d \in Devices, CheckOpen(t, d)
          PROVE  \/ at[s] \in Visiting /\ dev'[s] = dev[s]
                 \/ ~HasOpen(dev'[s]) /\ UNCHANGED <<status, row>>
      <3>1. CASE s = t /\ ~HasOpen(d)
        BY <2>1, <3>1 DEF CheckOpen, rowVars
      <3>2. CASE s # t \/ HasOpen(d)
        BY <2>1, <3>2 DEF CheckOpen
      <3>3. QED
        BY <3>1, <3>2
    <2>2. QED
      BY <1>2, <2>1 DEF SweepNext, StartSweep, ReadIntent, Collect, DeviceFails,
         ProposeDrift, EndSweep, Leave
  <1>3. QED
    BY <1>1, <1>2 DEF Next, ExecutorNext, EngineProposes, EditIntent, Drift, Decide,
       Take, Push, Record, vars, sweepVars

LEMMA VisitorsFinite ==
    ASSUME FinitePool, NEW d
    PROVE  /\ IsFiniteSet(Visitors(d))
           /\ Cardinality(Visitors(d)) \in Nat
           /\ Cardinality(Sweepers) \in Nat
           /\ Cardinality(Visitors(d)) <= Cardinality(Sweepers)
  <1>1. Visitors(d) \in SUBSET Sweepers
    BY DEF Visitors
  <1>2. QED
    BY <1>1, FS_Subset, FS_CardinalityType DEF FinitePool

LEMMA BudgetEmpty ==
    ASSUME FinitePool, NEW d, OpenDrifts(d) = {}
    PROVE  Budget(d)
  <1>1. IsFiniteSet(OpenDrifts(d)) /\ Cardinality(OpenDrifts(d)) = 0
    BY FS_EmptySet
  <1>2. /\ Cardinality(Visitors(d)) \in Nat
        /\ Cardinality(Visitors(d)) <= Cardinality(Sweepers)
    BY VisitorsFinite
  <1>3. QED
    BY <1>1, <1>2 DEF Budget

LEMMA BudgetKept ==
    ASSUME FinitePool, NEW d, Budget(d),
           OpenDrifts(d)' \subseteq OpenDrifts(d),
           Visitors(d)' \subseteq Visitors(d)
    PROVE  Budget(d)'
  <1>1. /\ IsFiniteSet(OpenDrifts(d)')
        /\ Cardinality(OpenDrifts(d)') \in Nat
        /\ Cardinality(OpenDrifts(d)) \in Nat
        /\ Cardinality(OpenDrifts(d)') <= Cardinality(OpenDrifts(d))
    BY FS_Subset, FS_CardinalityType DEF Budget
  <1>2. /\ Cardinality(Visitors(d)') \in Nat
        /\ Cardinality(Visitors(d)) \in Nat
        /\ Cardinality(Visitors(d)') <= Cardinality(Visitors(d))
        /\ Cardinality(Sweepers) \in Nat
    BY VisitorsFinite, FS_Subset, FS_CardinalityType
  <1>3. Cardinality(OpenDrifts(d)) + Cardinality(Visitors(d)) <= Cardinality(Sweepers)
    BY DEF Budget
  <1>4. Cardinality(OpenDrifts(d)') + Cardinality(Visitors(d)') <= Cardinality(Sweepers)
    BY <1>1, <1>2, <1>3
  <1>5. QED
    BY <1>1, <1>4 DEF Budget

(* The insert of a sweep: one visit fewer, one row more.                   *)
LEMMA BudgetPropose ==
    ASSUME FinitePool, TInv, NEW d \in Devices, Budget(d),
           NEW s \in Sweepers, NEW p \in Rows, ProposeDrift(s, p)
    PROVE  Budget(d)'
  <1>1. /\ at[s] = "drifted"
        /\ at' = [at EXCEPT ![s] = "sweep"] /\ dev' = dev
        /\ row'[p].device = dev[s]
        /\ \A q \in Rows \ {p} : status'[q] = status[q] /\ row'[q] = row[q]
        /\ ~IsOpen(p)
    BY DEF TInv, TypeOK, ProposeDrift, Leave, Insert, Insertable
  <1>2. Visitors(d)' \subseteq Visitors(d) \ {s}
    BY <1>1 DEF Visitors, Visiting, TInv, TypeOK
  <1>3. CASE dev[s] # d
    <2>1. OpenDrifts(d)' \subseteq OpenDrifts(d)
      BY <1>1, <1>3 DEF OpenDrifts, IsOpen
    <2>2. QED
      BY <1>2, <2>1, BudgetKept
  <1>4. CASE dev[s] = d
    <2> DEFINE O == OpenDrifts(d)
    <2>1. O' \subseteq O \cup {p}
      BY <1>1 DEF OpenDrifts, IsOpen
    <2>2. IsFiniteSet(O) /\ Cardinality(O) \in Nat
      BY FS_CardinalityType DEF Budget
    <2>3. /\ IsFiniteSet(O \cup {p})
          /\ Cardinality(O \cup {p}) \in Nat
          /\ Cardinality(O \cup {p}) <= Cardinality(O) + 1
      <3>1. /\ IsFiniteSet(O \cup {p})
            /\ Cardinality(O \cup {p}) = IF p \in O THEN Cardinality(O) ELSE Cardinality(O) + 1
        BY <2>2, FS_AddElement
      <3>2. QED
        BY <2>2, <3>1
    <2>4. /\ IsFiniteSet(O')
          /\ Cardinality(O') \in Nat
          /\ Cardinality(O') <= Cardinality(O \cup {p})
      BY <2>1, <2>3, FS_Subset, FS_CardinalityType
    <2>5. s \in Visitors(d)
      BY <1>1, <1>4 DEF Visitors, Visiting
    <2>6. /\ IsFiniteSet(Visitors(d) \ {s})
          /\ Cardinality(Visitors(d) \ {s}) = Cardinality(Visitors(d)) - 1
          /\ Cardinality(Visitors(d)) \in Nat
          /\ Cardinality(Sweepers) \in Nat
      BY <2>5, VisitorsFinite, FS_RemoveElement
    <2>7. /\ Cardinality(Visitors(d)') \in Nat
          /\ Cardinality(Visitors(d)') <= Cardinality(Visitors(d) \ {s})
      BY <1>2, <2>6, FS_Subset, FS_CardinalityType
    <2>8. Cardinality(O) + Cardinality(Visitors(d)) <= Cardinality(Sweepers)
      BY DEF Budget
    <2>9. Cardinality(O') + Cardinality(Visitors(d)') <= Cardinality(Sweepers)
      BY <2>2, <2>3, <2>4, <2>6, <2>7, <2>8
    <2>10. QED
      BY <2>4, <2>9 DEF Budget
  <1>5. QED
    BY <1>3, <1>4

LEMMA DInvStep == FinitePool /\ DInv /\ [Next]_vars => DInv'
  <1> SUFFICES ASSUME FinitePool, DInv, [Next]_vars
               PROVE  DInv'
    OBVIOUS
  <1>1. TInv /\ TInv'
    BY TInvStep DEF DInv
  <1>2. ASSUME NEW d \in Devices
        PROVE  Budget(d)'
    <2>1. CASE \E s \in Sweepers, p \in Rows : ProposeDrift(s, p)
      BY <1>1, <2>1, BudgetPropose DEF DInv
    <2>2. CASE ~ \E s \in Sweepers, p \in Rows : ProposeDrift(s, p)
      <3>1. \A p \in Rows : OpenDrift(p)' => OpenDrift(p) /\ row'[p] = row[p]
        BY <1>1, <2>2, DriftRowsOnlyFromSweeps
      <3>2. OpenDrifts(d)' \subseteq OpenDrifts(d)
        BY <3>1 DEF OpenDrifts, OpenDrift, IsOpen
      <3>3. CASE OpenDrifts(d) = {}
        <4>1. OpenDrifts(d)' = {}
          BY <3>2, <3>3
        <4>2. IsFiniteSet(OpenDrifts(d)') /\ Cardinality(OpenDrifts(d)') = 0
          BY <4>1, FS_EmptySet
        <4>3. Visitors(d)' \in SUBSET Sweepers
          BY DEF Visitors
        <4>4. /\ Cardinality(Visitors(d)') \in Nat
              /\ Cardinality(Visitors(d)') <= Cardinality(Sweepers)
          BY <4>3, FS_Subset, FS_CardinalityType DEF FinitePool
        <4>5. QED
          BY <4>2, <4>4 DEF Budget
      <3>4. CASE OpenDrifts(d) # {}
        <4>1. HasOpen(d)
          BY <3>4 DEF OpenDrifts, HasOpen
        <4>2. Visitors(d)' \subseteq Visitors(d)
          BY <1>1, <4>1, VisitsBeginWithTheCheck DEF Visitors
        <4>3. QED
          BY <3>2, <4>2, BudgetKept DEF DInv
      <3>5. QED
        BY <3>3, <3>4
    <2>3. QED
      BY <2>1, <2>2
  <1>3. QED
    BY <1>1, <1>2 DEF DInv

LEMMA InitDInv == FinitePool /\ Init => DInv
  <1> SUFFICES ASSUME FinitePool, Init
               PROVE  DInv
    OBVIOUS
  <1>1. \A d \in Devices : OpenDrifts(d) = {}
    BY DEF Init, OpenDrifts, IsOpen, Open
  <1>2. QED
    BY <1>1, BudgetEmpty, InitTInv DEF DInv

(* Whatever the LLM, the operators and the executor do, no device ever has *)
(* more open drift proposals than there are sweeps that can overlap        *)
(* (_has_open_proposal in workers/reconciler.py).                          *)
THEOREM DriftProposalsFew ==
    ASSUME FinitePool
    PROVE  Spec => []DriftProposalsBounded
  <1>1. Init => DInv
    BY InitDInv
  <1>2. DInv /\ [Next]_vars => DInv'
    BY DInvStep
  <1>3. DInv => DriftProposalsBounded
    <2> SUFFICES ASSUME DInv, NEW d \in Devices
                 PROVE  Cardinality(OpenDrifts(d)) <= Cardinality(Sweepers)
      BY DEF DriftProposalsBounded
    <2>1. /\ Cardinality(OpenDrifts(d)) \in Nat
          /\ Cardinality(OpenDrifts(d)) + Cardinality(Visitors(d)) <= Cardinality(Sweepers)
      BY FS_CardinalityType DEF DInv, Budget
    <2>2. Cardinality(Visitors(d)) \in Nat /\ Cardinality(Sweepers) \in Nat
      BY VisitorsFinite
    <2>3. QED
      BY <2>1, <2>2
  <1>4. QED
    BY <1>1, <1>2, <1>3, PTL DEF Spec

-----------------------------------------------------------------------------
OneSweepAtATime == \A s, t \in Sweepers : s = t

(* What _has_open_proposal is for.                                         *)
OneOpenDriftPerDevice ==
    \A p, q \in {x \in Rows : IsOpen(x) /\ row[x].kind = "drift"} :
        p # q => row[p].device # row[q].device

(* Between its check and its insert a sweep's device has no open drift row. *)
NothingOpenedMeanwhile ==
    \A s \in Sweepers, p \in Rows :
        at[s] \in Visiting /\ OpenDrift(p) => row[p].device # dev[s]

LEMMA OneSweepPool ==
    ASSUME OneSweepAtATime
    PROVE  FinitePool /\ Cardinality(Sweepers) <= 1
  <1>1. Sweepers = {} \/ \E s \in Sweepers : Sweepers = {s}
    BY DEF OneSweepAtATime
  <1>2. CASE Sweepers = {}
    <2>1. IsFiniteSet({}) /\ Cardinality({}) = 0
      BY FS_EmptySet
    <2>2. QED
      BY <1>2, <2>1 DEF FinitePool
  <1>3. ASSUME NEW s, Sweepers = {s}
        PROVE  FinitePool /\ Cardinality(Sweepers) <= 1
    <2>1. IsFiniteSet({s}) /\ Cardinality({s}) = 1
      BY FS_Singleton
    <2>2. QED
      BY <1>3, <2>1 DEF FinitePool
  <1>4. QED
    BY <1>1, <1>2, <1>3

(* A set with a member counts.                                             *)
LEMMA MemberCounts ==
    ASSUME NEW S, IsFiniteSet(S), NEW x \in S
    PROVE  /\ Cardinality(S) \in Nat /\ 1 <= Cardinality(S)
           /\ Cardinality(S) <= 1 => S = {x}
  <1>1. IsFiniteSet({x}) /\ Cardinality({x}) = 1
    BY FS_Singleton
  <1>2. {x} \in SUBSET S
    OBVIOUS
  <1>3. /\ Cardinality({x}) <= Cardinality(S)
        /\ Cardinality(S) = Cardinality({x}) => S = {x}
    BY <1>2, FS_Subset
  <1>4. Cardinality(S) \in Nat
    BY FS_CardinalityType
  <1>5. QED
    BY <1>1, <1>3, <1>4

LEMMA OneSweepFinds ==
    ASSUME OneSweepAtATime, DInv
    PROVE  NothingOpenedMeanwhile /\ OneOpenDriftPerDevice
  <1>1. FinitePool /\ Cardinality(Sweepers) <= 1
    BY OneSweepPool
  <1>2. ASSUME NEW d \in Devices
        PROVE  /\ IsFiniteSet(OpenDrifts(d)) /\ IsFiniteSet(Visitors(d))
               /\ Cardinality(OpenDrifts(d)) \in Nat /\ Cardinality(Visitors(d)) \in Nat
               /\ Cardinality(OpenDrifts(d)) + Cardinality(Visitors(d)) <= 1
    <2>1. /\ IsFiniteSet(OpenDrifts(d)) /\ IsFiniteSet(Visitors(d))
          /\ Cardinality(OpenDrifts(d)) \in Nat /\ Cardinality(Visitors(d)) \in Nat
          /\ Cardinality(Sweepers) \in Nat
      BY <1>1, VisitorsFinite, FS_CardinalityType DEF DInv, Budget
    <2>2. Cardinality(OpenDrifts(d)) + Cardinality(Visitors(d)) <= Cardinality(Sweepers)
      BY DEF DInv, Budget
    <2>3. QED
      BY <1>1, <2>1, <2>2
  <1>3. ASSUME NEW s \in Sweepers, NEW p \in Rows, at[s] \in Visiting, OpenDrift(p),
               row[p].device = dev[s]
        PROVE  FALSE
    <2>1. dev[s] \in Devices /\ p \in OpenDrifts(dev[s]) /\ s \in Visitors(dev[s])
      BY <1>3 DEF DInv, TInv, TypeOK, OpenDrifts, OpenDrift, Visitors
    <2>2. 1 <= Cardinality(OpenDrifts(dev[s])) /\ 1 <= Cardinality(Visitors(dev[s]))
      BY <1>2, <2>1, MemberCounts
    <2>3. QED
      BY <1>2, <2>1, <2>2
  <1>4. ASSUME NEW p \in Rows, NEW q \in Rows, OpenDrift(p), OpenDrift(q), p # q,
               row[p].device = row[q].device
        PROVE  FALSE
    <2> DEFINE d == row[p].device
    <2>1. d \in Devices
      BY <1>4 DEF DInv, TInv, TypeOK, OpenDrift, IsOpen, Open, RowContents
    <2>2. p \in OpenDrifts(d) /\ q \in OpenDrifts(d)
      BY <1>4 DEF OpenDrifts, OpenDrift
    <2>3. Cardinality(OpenDrifts(d)) <= 1
      BY <1>2, <2>1
    <2>4. OpenDrifts(d) = {p}
      BY <1>2, <2>1, <2>2, <2>3, MemberCounts
    <2>5. QED
      BY <1>4, <2>2, <2>4
  <1>5. QED
    BY <1>3, <1>4 DEF NothingOpenedMeanwhile, OneOpenDriftPerDevice, OpenDrift

(* With one sweep at a time, no device ever has two open drift proposals.  *)
THEOREM OneOpenDrift ==
    ASSUME OneSweepAtATime
    PROVE  Spec => []OneOpenDriftPerDevice
  <1>1. Init => DInv
    BY InitDInv, OneSweepPool
  <1>2. DInv /\ [Next]_vars => DInv'
    BY DInvStep, OneSweepPool
  <1>3. DInv => OneOpenDriftPerDevice
    BY OneSweepFinds
  <1>4. QED
    BY <1>1, <1>2, <1>3, PTL DEF Spec

-----------------------------------------------------------------------------
(* What the executor holds was approved and is open still.                 *)
HeldIsApproved == executing # NoRow => status[executing] = "approved"

(* Without the LLM all open rows are sweeps'.                              *)
OnlyDriftRows == manuals = 0 => \A p \in Rows : IsOpen(p) => row[p].kind = "drift"

(* What a sweep collected is current until it inserts its row.             *)
SawIsCurrent ==
    drifts = 0 /\ manuals = 0 =>
        \A s \in Sweepers : at[s] = "drifted" => saw[s] = running[dev[s]]

ShowInv == DInv /\ HeldIsApproved /\ OnlyDriftRows /\ SawIsCurrent

LEMMA BoundsGrow ==
    ASSUME TInv, [Next]_vars
    PROVE  (drifts' = 0 => drifts = 0) /\ (manuals' = 0 => manuals = 0)
  <1> USE DEF TInv, TypeOK
  <1>1. CASE UNCHANGED <<drifts, manuals>>
    BY <1>1
  <1>2. ASSUME NEW p \in Rows, NEW d \in Devices, NEW c \in EngineFacts,
               EngineProposes(p, d, c)
        PROVE  (drifts' = 0 => drifts = 0) /\ (manuals' = 0 => manuals = 0)
    BY <1>2 DEF EngineProposes
  <1>3. ASSUME NEW d \in Devices, NEW c \in Configs, Drift(d, c)
        PROVE  (drifts' = 0 => drifts = 0) /\ (manuals' = 0 => manuals = 0)
    BY <1>3 DEF Drift
  <1>4. QED
    BY <1>1, <1>2, <1>3 DEF Next, SweepNext, ExecutorNext, StartSweep, CheckOpen,
       ReadIntent, Collect, DeviceFails, ProposeDrift, EndSweep, EditIntent, Decide,
       Take, Push, Record, vars, bounds

LEMMA HeldStep ==
    ASSUME TInv, HeldIsApproved, [Next]_vars
    PROVE  HeldIsApproved'
  <1> USE DEF TInv, TypeOK, HeldIsApproved
  <1>1. CASE UNCHANGED <<status, executing>>
    BY <1>1
  <1>2. ASSUME NEW p \in Rows, NEW contents, Insert(p, contents), UNCHANGED executing
        PROVE  HeldIsApproved'
    BY <1>2 DEF Insert, Insertable
  <1>3. ASSUME NEW p \in Rows, NEW decision \in {"approved", "rejected"},
               Decide(p, decision)
        PROVE  HeldIsApproved'
    BY <1>3 DEF Decide, execVars
  <1>4. ASSUME NEW p \in Rows, Take(p)
        PROVE  HeldIsApproved'
    BY <1>4 DEF Take
  <1>5. CASE Record
    BY <1>5 DEF Record
  <1>6. QED
    BY <1>1, <1>2, <1>3, <1>4, <1>5 DEF Next, SweepNext, ExecutorNext, StartSweep,
       CheckOpen, ReadIntent, Collect, DeviceFails, ProposeDrift, EndSweep,
       EngineProposes, EditIntent, Drift, Push, vars, rowVars, execVars

LEMMA OnlyDriftStep ==
    ASSUME TInv, OnlyDriftRows, [Next]_vars
    PROVE  OnlyDriftRows'
  <1> USE DEF TInv, TypeOK, OnlyDriftRows, IsOpen
  <1>0. SUFFICES ASSUME manuals' = 0
                 PROVE  \A p \in Rows : IsOpen(p)' => row'[p].kind = "drift"
    OBVIOUS
  <1>m. manuals = 0
    BY <1>0, BoundsGrow
  <1>1. CASE UNCHANGED rowVars
    BY <1>1, <1>m DEF rowVars
  <1>2. ASSUME NEW s \in Sweepers, NEW p \in Rows, ProposeDrift(s, p)
        PROVE  \A q \in Rows : IsOpen(q)' => row'[q].kind = "drift"
    BY <1>2, <1>m DEF ProposeDrift, Insert
  <1>3. ASSUME NEW p \in Rows, NEW decision \in {"approved", "rejected"},
               Decide(p, decision)
        PROVE  \A q \in Rows : IsOpen(q)' => row'[q].kind = "drift"
    BY <1>3, <1>m DEF Decide, Open
  <1>4. ASSUME NEW p \in Rows, Take(p)
        PROVE  \A q \in Rows : IsOpen(q)' => row'[q].kind = "drift"
    BY <1>4, <1>m DEF Take, Open
  <1>5. CASE Record
    BY <1>5, <1>m DEF Record, Open
  <1>6. ASSUME NEW p \in Rows, NEW d \in Devices, NEW c \in EngineFacts,
               EngineProposes(p, d, c)
        PROVE  FALSE
    BY <1>0, <1>6, <1>m DEF EngineProposes
  <1>7. QED
    BY <1>1, <1>2, <1>3, <1>4, <1>5, <1>6 DEF Next, SweepNext, ExecutorNext, StartSweep,
       CheckOpen, ReadIntent, Collect, DeviceFails, EndSweep, EditIntent, Drift, Push,
       vars

(* A push may only reach a device a sweep has just collected if it has an  *)
(* open row, which the sweep would have found.                             *)
LEMMA SawStep ==
    ASSUME OneSweepAtATime, ShowInv, [Next]_vars
    PROVE  SawIsCurrent'
  <1> USE DEF TInv, TypeOK, Visiting
  <1>t. TInv
    BY DEF ShowInv, DInv
  <1>0. SUFFICES ASSUME drifts' = 0, manuals' = 0, NEW s \in Sweepers, at'[s] = "drifted"
                 PROVE  saw'[s] = running'[dev'[s]]
    BY DEF SawIsCurrent
  <1>m. drifts = 0 /\ manuals = 0
    BY <1>0, <1>t, BoundsGrow
  <1>c. at[s] = "drifted" => saw[s] = running[dev[s]]
    BY <1>m DEF ShowInv, SawIsCurrent
  <1>1. CASE UNCHANGED <<sweepVars, running>>
    BY <1>0, <1>1, <1>c DEF sweepVars
  <1>2. ASSUME NEW t \in Sweepers, SweepNext(t)
        PROVE  saw'[s] = running'[dev'[s]]
    <2>1. t = s
      BY DEF OneSweepAtATime
    <2>2. CASE Collect(s)
      BY <1>0, <1>t, <2>2 DEF Collect, Leave
    <2>3. CASE ~Collect(s)
      BY <1>0, <1>2, <1>t, <2>1, <2>3 DEF SweepNext, StartSweep, CheckOpen, ReadIntent,
         DeviceFails, ProposeDrift, EndSweep, Leave
    <2>4. QED
      BY <2>2, <2>3
  <1>3. ASSUME NEW result \in Outcomes, NEW c \in Configs, Push(result, c)
        PROVE  saw'[s] = running'[dev'[s]]
    <2>1. /\ executing \in Rows /\ status[executing] = "approved"
          /\ at[s] = "drifted" /\ UNCHANGED <<saw, dev>>
      BY <1>0, <1>3, <1>t DEF ShowInv, HeldIsApproved, Push, sweepVars
    <2>2. OpenDrift(executing)
      BY <1>m, <2>1 DEF ShowInv, OnlyDriftRows, OpenDrift, IsOpen, Open
    <2>3. row[executing].device # dev[s]
      BY <2>1, <2>2, OneSweepFinds DEF ShowInv, NothingOpenedMeanwhile
    <2>4. running'[dev[s]] = running[dev[s]]
      BY <1>3, <1>t, <2>3 DEF Push
    <2>5. QED
      BY <1>c, <2>1, <2>4
  <1>4. ASSUME NEW d \in Devices, NEW c \in Configs, Drift(d, c)
        PROVE  FALSE
    BY <1>0, <1>4, <1>m DEF Drift
  <1>5. QED
    BY <1>1, <1>2, <1>3, <1>4 DEF Next, ExecutorNext, EngineProposes, EditIntent,
       Decide, Take, Record, vars

(* With one sweep at a time, what a drift proposal shows its approver is   *)
(* what the device runs when the proposal is opened: see                   *)
(* ProposalShowsTheDevice (_reconcile_device in workers/reconciler.py).    *)
THEOREM ShownIsCurrent ==
    ASSUME OneSweepAtATime
    PROVE  Spec => ProposalShowsTheDevice
  <1>1. Init => ShowInv
    <2> SUFFICES ASSUME Init PROVE ShowInv
      OBVIOUS
    <2>1. DInv
      BY InitDInv, OneSweepPool
    <2>2. HeldIsApproved /\ OnlyDriftRows /\ SawIsCurrent
      BY DEF Init, HeldIsApproved, OnlyDriftRows, SawIsCurrent, IsOpen, Open
    <2>3. QED
      BY <2>1, <2>2 DEF ShowInv
  <1>2. ShowInv /\ [Next]_vars => ShowInv'
    <2> SUFFICES ASSUME ShowInv, [Next]_vars
                 PROVE  ShowInv'
      OBVIOUS
    <2>1. DInv'
      BY DInvStep, OneSweepPool DEF ShowInv
    <2>2. HeldIsApproved' /\ OnlyDriftRows'
      BY HeldStep, OnlyDriftStep DEF ShowInv, DInv
    <2>3. SawIsCurrent'
      BY SawStep
    <2>4. QED
      BY <2>1, <2>2, <2>3 DEF ShowInv
  <1>3. ShowInv /\ [Next]_vars =>
          [\A p \in Rows :
              (/\ drifts = 0 /\ manuals = 0
               /\ status[p] # "pending"
               /\ status'[p] = "pending"
               /\ row'[p].kind = "drift")
                => row'[p].observed = running[row'[p].device]]_vars
    <2> SUFFICES ASSUME ShowInv, [Next]_vars, NEW p \in Rows,
                        drifts = 0, manuals = 0,
                        status[p] # "pending", status'[p] = "pending",
                        row'[p].kind = "drift"
                 PROVE  row'[p].observed = running[row'[p].device]
      OBVIOUS
    <2> USE DEF TInv, TypeOK
    <2>t. TInv
      BY DEF ShowInv, DInv
    <2>1. ASSUME NEW s \in Sweepers, NEW q \in Rows, ProposeDrift(s, q)
          PROVE  row'[p].observed = running[row'[p].device]
      <3>1. at[s] = "drifted" /\ saw[s] = running[dev[s]]
        BY <2>1 DEF ShowInv, SawIsCurrent, ProposeDrift
      <3>2. p = q
        BY <2>1, <2>t DEF ProposeDrift, Insert
      <3>3. row'[p].observed = saw[s] /\ row'[p].device = dev[s]
        BY <2>1, <2>t, <3>2 DEF ProposeDrift, Insert
      <3>4. QED
        BY <3>1, <3>3
    <2>2. ASSUME NEW q \in Rows, NEW d \in Devices, NEW c \in EngineFacts,
                 EngineProposes(q, d, c)
          PROVE  FALSE
      <3>1. p = q
        BY <2>2, <2>t DEF EngineProposes, Insert
      <3>2. QED
        BY <2>2, <2>t, <3>1 DEF EngineProposes, Insert
    <2>3. CASE UNCHANGED status
      BY <2>3
    <2>4. ASSUME NEW q \in Rows, NEW decision \in {"approved", "rejected"},
                 Decide(q, decision)
          PROVE  FALSE
      BY <2>4, <2>t DEF Decide
    <2>5. ASSUME NEW q \in Rows, Take(q)
          PROVE  FALSE
      BY <2>5, <2>t DEF Take
    <2>6. CASE Record
      BY <2>6, <2>t DEF Record
    <2>7. QED
      BY <2>1, <2>2, <2>3, <2>4, <2>5, <2>6 DEF Next, SweepNext, ExecutorNext,
         StartSweep, CheckOpen, ReadIntent, Collect, DeviceFails, EndSweep, EditIntent,
         Drift, Push, vars, rowVars
  <1>4. QED
    BY <1>1, <1>2, <1>3, PTL DEF Spec, ProposalShowsTheDevice
=============================================================================
