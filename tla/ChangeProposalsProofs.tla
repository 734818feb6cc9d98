------------------------ MODULE ChangeProposalsProofs ------------------------
(***************************************************************************)
(* Theorems about ChangeProposals, for any sets of proposals, devices,     *)
(* configurations, executor slots and requests, and with every race and    *)
(* crash the module allows.                                                *)
(*                                                                         *)
(* None of the safety invariants is inductive: OneExecutorPerRow needs to  *)
(* know who holds each row lock, OnlyApprovedConfigRuns what a tick is     *)
(* about to push, OutcomesAreBacked that the row in a tick's hand had been *)
(* approved when it was loaded.  IInv adds these facts.                    *)
(***************************************************************************)
EXTENDS ChangeProposals, FiniteSetTheorems, TLAPS

InHand  == {"loaded", "ready"} \cup Working
HasPrepared == {"rendered"} \cup Results

ApprovedRowsExist == \A p \in approvals : Exists(p)

(* The row a tick works on exists and was approved once, and the tick's    *)
(* session saw it approved.                                                *)
RowInHand ==
    \A t \in Ticks :
        at[t] \in InHand => /\ Exists(cur[t])
                            /\ cur[t] \in approvals
                            /\ seen[t] = "approved"

(* An operator only decides a row that exists.                             *)
RowDecided == \A r \in Requests : reqAt[r] = "read" => Exists(Target[r])

(* The row lock of the row in hand, and no other, is held by the tick.     *)
LockDiscipline ==
    /\ \A t \in Ticks : at[t] \in Working => rowLock[cur[t]] = t
    /\ \A t \in Ticks, p \in Proposals :
          rowLock[p] = t => at[t] \in Working /\ cur[t] = p

(* What is about to be pushed is what was reviewed.                        *)
PreparedIsReviewed ==
    \A t \in Ticks :
        at[t] \in HasPrepared => /\ fresh[t] \in Configs
                                 /\ fresh[t] = content[cur[t]].intended

PushedBeforeRecorded ==
    \A t \in Ticks : at[t] \in Results => pushes[cur[t]] > 0

IInv ==
    /\ TypeOK
    /\ ApprovedRowsExist
    /\ RowInHand
    /\ RowDecided
    /\ LockDiscipline
    /\ PreparedIsReviewed
    /\ PushedBeforeRecorded
    /\ OutcomesAreBacked
    /\ OnlyApprovedConfigRuns

USE DEF Results, Reported

-----------------------------------------------------------------------------
(* Type correctness.                                                       *)

LEMMA InitType == Init => TypeOK
  BY ConstantsAssumption DEF Init, TypeOK, Statuses, TickPoints, Exists

(* What CommitStatus and CloseSession do to the types, once for the five   *)
(* actions that end a session.                                             *)
LEMMA CloseSessionType ==
    ASSUME TypeOK, NEW t \in Ticks, CloseSession(t)
    PROVE  /\ rowLock' \in [Proposals -> Ticks \cup {Free}]
           /\ seen' \in [Ticks -> Statuses]
           /\ fresh' \in [Ticks -> Configs \cup {Blank}]
  BY DEF TypeOK, CloseSession, Statuses

LEMMA CommitStatusType ==
    ASSUME TypeOK, NEW t \in Ticks, NEW outcome \in Statuses,
           Exists(cur[t]), CommitStatus(t, outcome),
           stamped' \in SUBSET Proposals
    PROVE  TypeOK'
  <1>1. /\ rowLock' \in [Proposals -> Ticks \cup {Free}]
        /\ seen' \in [Ticks -> Statuses]
        /\ fresh' \in [Ticks -> Configs \cup {Blank}]
    BY CloseSessionType DEF CommitStatus
  <1>2. status' \in [Proposals -> Statuses \cup {"absent"}]
    BY DEF CommitStatus, TypeOK
  <1>3. \A p \in Proposals : Exists(p)' => Exists(p)
    BY DEF CommitStatus, TypeOK, Exists
  <1>4. at' \in [Ticks -> TickPoints]
    BY DEF CommitStatus, TypeOK, TickPoints
  <1>5. QED
    BY <1>1, <1>2, <1>3, <1>4 DEF CommitStatus, TypeOK, requestVars

(* Every step keeps the types.  Precheck puts the reviewed content of the  *)
(* row in hand into fresh, which is a configuration only because that row  *)
(* exists: hence RowInHand among the hypotheses, RowDecided likewise for   *)
(* Decide and PreparedIsReviewed for Push.                                 *)
LEMMA TypeStep ==
    ASSUME TypeOK, RowInHand, RowDecided, PreparedIsReviewed, [Next]_vars
    PROVE  TypeOK'
  <1> USE ConstantsAssumption
  <1>1. ASSUME NEW p \in Proposals, NEW k \in Kinds, NEW d \in Devices,
                 NEW c \in Configs \cup {BadSpec}, Propose(p, k, d, c)
       PROVE  TypeOK'
    BY <1>1 DEF TypeOK, Propose, Exists, Contents, Statuses, tickVars, requestVars
  <1>2. ASSUME NEW d \in Devices, NEW c \in SotEdits, EditSot(d, c)
       PROVE  TypeOK'
    BY <1>2 DEF TypeOK, EditSot, Exists, rowVars, tickVars, requestVars
  <1>3. ASSUME NEW r \in Requests, ReadForDecision(r)
       PROVE  TypeOK'
    BY <1>3 DEF TypeOK, ReadForDecision, Exists, rowVars, tickVars
  <1>4. ASSUME NEW r \in Requests, NEW decision \in Decisions, Decide(r, decision)
       PROVE  TypeOK'
    <2>1. Exists(Target[r]) /\ Target[r] \in Proposals
      BY <1>4 DEF Decide, RowDecided
    <2>2. \A p \in Proposals : Exists(p)' => Exists(p)
      BY <1>4, <2>1 DEF TypeOK, Decide, Exists
    <2>3. /\ status' \in [Proposals -> Statuses \cup {"absent"}]
          /\ approvals' \in SUBSET Proposals
      BY <1>4, <2>1 DEF TypeOK, Decide, Decisions, Statuses
    <2>4. clock' \in Nat /\ approvedAt' \in [Proposals -> Nat]
      BY <1>4, <2>1 DEF TypeOK, Decide
    <2>5. QED
      BY <1>4, <2>2, <2>3, <2>4 DEF TypeOK, Decide, tickVars
  <1>5. ASSUME NEW r \in Requests, RefuseDecision(r)
       PROVE  TypeOK'
    BY <1>5 DEF TypeOK, RefuseDecision, Exists, rowVars, tickVars
  <1>6. ASSUME NEW t \in Ticks, StartTick(t)
       PROVE  TypeOK'
    BY <1>6 DEF TypeOK, StartTick, Due, TickPoints, Exists, rowVars, requestVars
  <1>7. ASSUME NEW t \in Ticks, NEW p \in Proposals, Load(t, p)
       PROVE  TypeOK'
    BY <1>7 DEF TypeOK, Load, TickPoints, Statuses, Exists, rowVars, requestVars
  <1>8. ASSUME NEW t \in Ticks, EndTick(t)
       PROVE  TypeOK'
    BY <1>8 DEF TypeOK, EndTick, TickPoints, Exists, rowVars, requestVars
  <1>9. ASSUME NEW t \in Ticks, Resolve(t)
       PROVE  TypeOK'
    BY <1>9 DEF TypeOK, Resolve, TickPoints, Exists, rowVars, requestVars
  <1>10. ASSUME NEW t \in Ticks, Skip(t)
       PROVE  TypeOK'
    <2>1. /\ rowLock' \in [Proposals -> Ticks \cup {Free}]
          /\ seen' \in [Ticks -> Statuses]
          /\ fresh' \in [Ticks -> Configs \cup {Blank}]
      BY <1>10, CloseSessionType DEF Skip
    <2>2. QED
      BY <1>10, <2>1 DEF TypeOK, Skip, TickPoints, Exists, rowVars, requestVars
  <1>11. ASSUME NEW t \in Ticks, LockRow(t)
       PROVE  TypeOK'
    BY <1>11 DEF TypeOK, LockRow, TickPoints, Exists, rowVars, requestVars
  <1>12. ASSUME NEW t \in Ticks, Render(t)
       PROVE  TypeOK'
    <2>1. Exists(cur[t])
      BY <1>12 DEF Render, RowInHand, InHand, Working
    <2>2. CASE Prepare(t, sot[Row(t).device]) /\ sot[Row(t).device] \in Configs
      BY <2>2 DEF TypeOK, Prepare, TickPoints, Exists, rowVars, requestVars
    <2>3. CASE CommitStatus(t, "stale") /\ UNCHANGED stamped
      BY <2>1, <2>3, CommitStatusType DEF TypeOK, Statuses
    <2>4. QED
      BY <1>12, <2>2, <2>3 DEF Render
  <1>13. ASSUME NEW t \in Ticks, Precheck(t)
       PROVE  TypeOK'
    <2>1. Exists(cur[t])
      BY <1>13 DEF Precheck, RowInHand, InHand, Working
    <2>2. CASE Prepare(t, Row(t).intended) /\ Row(t).intended # BadSpec
      <3>1. Row(t).intended \in Configs
        BY <2>1, <2>2 DEF TypeOK, Contents, Row
      <3>2. QED
        BY <2>2, <3>1 DEF TypeOK, Prepare, TickPoints, Exists, rowVars, requestVars
    <2>3. CASE /\ CommitStatus(t, "stale") \/ CommitStatus(t, "failed")
               /\ UNCHANGED stamped
      BY <2>1, <2>3, CommitStatusType DEF TypeOK, Statuses
    <2>4. QED
      BY <1>13, <2>2, <2>3 DEF Precheck
  <1>14. ASSUME NEW t \in Ticks, NEW result \in Results, Push(t, result)
       PROVE  TypeOK'
    <2>1. /\ Exists(cur[t]) /\ Row(t).device \in Devices
          /\ fresh[t] \in Configs
      BY <1>14 DEF Push, RowInHand, InHand, Working, PreparedIsReviewed,
         HasPrepared, Row, TypeOK, Contents
    <2>2. running' \in [Devices -> SUBSET Configs]
      BY <1>14, <2>1 DEF Push, TypeOK
    <2>3. /\ at' \in [Ticks -> TickPoints]
          /\ pushes' \in [Proposals -> Nat]
      BY <1>14 DEF Push, TypeOK, TickPoints
    <2>4. QED
      BY <1>14, <2>2, <2>3 DEF TypeOK, Push, Exists, rowVars, requestVars
  <1>15. ASSUME NEW t \in Ticks, Record(t)
       PROVE  TypeOK'
    <2>1. Exists(cur[t])
      BY <1>15 DEF Record, RowInHand, InHand, Working
    <2>2. CommitStatus(t, "executed") \/ CommitStatus(t, "failed")
      BY <1>15 DEF Record
    <2>3. stamped' \in SUBSET Proposals
      BY <1>15 DEF Record, TypeOK
    <2>4. QED
      BY <2>1, <2>2, <2>3, CommitStatusType DEF Statuses
  <1>16. ASSUME NEW t \in Ticks, Raise(t)
       PROVE  TypeOK'
    <2>1. /\ rowLock' \in [Proposals -> Ticks \cup {Free}]
          /\ seen' \in [Ticks -> Statuses]
          /\ fresh' \in [Ticks -> Configs \cup {Blank}]
      BY <1>16, CloseSessionType DEF Raise
    <2>2. faults' \in Nat
      BY <1>16 DEF TypeOK, Raise
    <2>3. at' \in [Ticks -> TickPoints] /\ batch' \in [Ticks -> SUBSET Proposals]
      BY <1>16 DEF TypeOK, Raise, TickPoints
    <2>4. QED
      BY <1>16, <2>1, <2>2, <2>3 DEF TypeOK, Raise, Exists, rowVars, requestVars
  <1>17. ASSUME NEW t \in Ticks, Crash(t) \/ Escape(t)
       PROVE  TypeOK'
    <2>1. /\ rowLock' \in [Proposals -> Ticks \cup {Free}]
          /\ seen' \in [Ticks -> Statuses]
          /\ fresh' \in [Ticks -> Configs \cup {Blank}]
      BY <1>17, CloseSessionType DEF Crash, Escape
    <2>2. faults' \in Nat
      BY <1>17 DEF TypeOK, Crash, Escape
    <2>3. at' \in [Ticks -> TickPoints] /\ batch' \in [Ticks -> SUBSET Proposals]
      BY <1>17 DEF TypeOK, Crash, Escape, TickPoints
    <2>4. QED
      BY <1>17, <2>1, <2>2, <2>3 DEF TypeOK, Crash, Escape, Exists, rowVars, requestVars
  <1>18. CASE UNCHANGED vars
    BY <1>18 DEF TypeOK, Exists, vars, rowVars, tickVars, requestVars
  <1>19. QED
    BY <1>1, <1>2, <1>3, <1>4, <1>5, <1>6, <1>7, <1>8, <1>9, <1>10, <1>11, <1>12, <1>13, <1>14, <1>15, <1>16, <1>17, <1>18
    DEF Next, RequestNext, TickNext

-----------------------------------------------------------------------------
(* What a step leaves alone.                                               *)

(* A step of nobody's tick: an author, the SoT, an operator.               *)
Outside ==
    \/ \E p \in Proposals, k \in Kinds, d \in Devices, c \in Configs \cup {BadSpec} :
          Propose(p, k, d, c)
    \/ \E d \in Devices, c \in SotEdits : EditSot(d, c)
    \/ \E r \in Requests : RequestNext(r)

LEMMA OutsideFrame ==
    ASSUME Outside
    PROVE  UNCHANGED <<tickVars, rowLock, running, pushes, stamped>>
  BY DEF Outside, Propose, EditSot, RequestNext, ReadForDecision, Decide,
         RefuseDecision, rowVars, tickVars

(* A tick works on its own run: the others' are untouched.                 *)
LEMMA OtherTicks ==
    ASSUME TypeOK, NEW t \in Ticks, TickNext(t), NEW u \in Ticks \ {t}
    PROVE  /\ at'[u] = at[u]
           /\ batch'[u] = batch[u]
           /\ cur'[u] = cur[u]
           /\ seen'[u] = seen[u]
           /\ fresh'[u] = fresh[u]
  <1> USE DEF TypeOK
  <1>1. CASE StartTick(t)
    BY <1>1 DEF StartTick
  <1>2. ASSUME NEW p \in Proposals, Load(t, p)
       PROVE  /\ at'[u] = at[u]
              /\ batch'[u] = batch[u]
              /\ cur'[u] = cur[u]
              /\ seen'[u] = seen[u]
              /\ fresh'[u] = fresh[u]
    BY <1>2 DEF Load
  <1>3. CASE EndTick(t)
    BY <1>3 DEF EndTick
  <1>4. CASE Resolve(t)
    BY <1>4 DEF Resolve
  <1>5. CASE Skip(t) \/ Escape(t)
    BY <1>5 DEF Skip, Escape, CloseSession
  <1>6. CASE LockRow(t)
    BY <1>6 DEF LockRow
  <1>7. CASE Render(t)
    BY <1>7 DEF Render, Prepare, CommitStatus, CloseSession
  <1>8. CASE Precheck(t)
    BY <1>8 DEF Precheck, Prepare, CommitStatus, CloseSession
  <1>9. ASSUME NEW result \in Results, Push(t, result)
       PROVE  /\ at'[u] = at[u]
              /\ batch'[u] = batch[u]
              /\ cur'[u] = cur[u]
              /\ seen'[u] = seen[u]
              /\ fresh'[u] = fresh[u]
    BY <1>9 DEF Push
  <1>10. CASE Record(t)
    BY <1>10 DEF Record, CommitStatus, CloseSession
  <1>11. CASE Raise(t)
    BY <1>11 DEF Raise, CloseSession
  <1>12. CASE Crash(t)
    BY <1>12 DEF Crash, CloseSession
  <1>13. QED
    BY <1>1, <1>2, <1>3, <1>4, <1>5, <1>6, <1>7, <1>8, <1>9, <1>10, <1>11, <1>12 DEF TickNext

(* Rows are never deleted nor their content edited, approvals never        *)
(* withdrawn, pushes and executed_at never undone.                         *)
LEMMA RowsStay ==
    ASSUME TypeOK, RowInHand, RowDecided, Next
    PROVE  /\ \A p \in Proposals :
                  Exists(p) => Exists(p)' /\ content'[p] = content[p]
           /\ approvals \subseteq approvals'
           /\ stamped \subseteq stamped'
           /\ \A p \in Proposals : pushes'[p] >= pushes[p]
  <1> DEFINE Stay == /\ \A p \in Proposals :
                             Exists(p) => Exists(p)' /\ content'[p] = content[p]
                     /\ approvals \subseteq approvals'
                     /\ stamped \subseteq stamped'
                     /\ \A p \in Proposals : pushes'[p] >= pushes[p]
  <1>1. ASSUME Outside
        PROVE  Stay
    <2>1. UNCHANGED <<pushes, stamped>>
      BY <1>1, OutsideFrame
    <2>2. approvals \subseteq approvals'
      BY <1>1 DEF Outside, Propose, EditSot, RequestNext, ReadForDecision,
                  Decide, RefuseDecision
    <2>3. ASSUME NEW p \in Proposals, Exists(p)
          PROVE  Exists(p)' /\ content'[p] = content[p]
      BY <1>1, <2>3 DEF TypeOK, Exists, Outside, Propose, EditSot, RequestNext,
           ReadForDecision, Decide, RefuseDecision, Decisions, rowVars
    <2>4. QED
      BY <2>1, <2>2, <2>3 DEF TypeOK
  <1>2. ASSUME NEW t \in Ticks, TickNext(t)
        PROVE  Stay
    <2>1. UNCHANGED <<content, approvals>> /\ stamped \subseteq stamped'
      BY <1>2 DEF TickNext, StartTick, Load, EndTick, Resolve, Skip, Escape, LockRow,
                  Render, Precheck, Push, Record, Raise, Crash, Prepare,
                  CommitStatus, rowVars
    <2>2. \A p \in Proposals : pushes'[p] >= pushes[p]
      <3>1. \/ UNCHANGED pushes
            \/ pushes' = [pushes EXCEPT ![cur[t]] = pushes[cur[t]] + 1]
        BY <1>2 DEF TickNext, StartTick, Load, EndTick, Resolve, Skip, Escape, LockRow,
                    Render, Precheck, Push, Record, Raise, Crash, Prepare,
                    CommitStatus
      <3>2. QED
        BY <3>1 DEF TypeOK
    <2>3. \A p \in Proposals : Exists(p) => Exists(p)'
      <3>1. \/ UNCHANGED status
            \/ \E outcome \in {"executed", "failed", "stale"} :
                  status' = [status EXCEPT ![cur[t]] = outcome]
        BY <1>2 DEF TickNext, StartTick, Load, EndTick, Resolve, Skip, Escape, LockRow,
                    Render, Precheck, Push, Record, Raise, Crash, Prepare,
                    CommitStatus, rowVars
      <3>2. QED
        BY <3>1 DEF TypeOK, Exists
    <2>4. QED
      BY <2>1, <2>2, <2>3
  <1>3. QED
    BY <1>1, <1>2 DEF Next, Outside

-----------------------------------------------------------------------------
(* The parts of the inductive invariant, one lemma each.                   *)

LEMMA ApprovedRowsExistStep ==
    ASSUME IInv, Next
    PROVE  ApprovedRowsExist'
  <1> USE DEF IInv
  <1>1. \A p \in approvals' : p \in approvals \/ \E r \in Requests :
            reqAt[r] = "read" /\ p = Target[r]
    BY DEF TypeOK, Next, RequestNext, TickNext, Propose, EditSot,
           ReadForDecision, Decide, RefuseDecision, StartTick, Load, EndTick,
           Resolve, Skip, Escape, LockRow, Render, Precheck, Push, Record, Raise,
           Crash, Prepare, CommitStatus
  <1>2. QED
    BY <1>1, RowsStay, ConstantsAssumption DEF ApprovedRowsExist, RowDecided, TypeOK

LEMMA RowDecidedStep ==
    ASSUME IInv, Next
    PROVE  RowDecided'
  <1> USE DEF IInv
  <1>1. ASSUME NEW r \in Requests, reqAt'[r] = "read"
        PROVE  reqAt[r] = "read" \/ Exists(Target[r])
    BY <1>1 DEF TypeOK, Next, RequestNext, TickNext, Propose, EditSot,
           ReadForDecision, Decide, RefuseDecision, StartTick, Load, EndTick,
           Resolve, Skip, Escape, LockRow, Render, Precheck, Push, Record, Raise,
           Crash, Prepare, CommitStatus, requestVars
  <1>2. QED
    BY <1>1, RowsStay, ConstantsAssumption DEF RowDecided

(* A tick takes only an approved row in hand, and only such a row has been *)
(* in approvals since: OutcomesAreBacked at the moment of the load.        *)
LEMMA RowInHandStep ==
    ASSUME IInv, Next
    PROVE  RowInHand'
  <1> USE DEF IInv
  <1> DEFINE Held(u) == at[u] \in InHand =>
                           /\ Exists(cur[u])
                           /\ cur[u] \in approvals
                           /\ seen[u] = "approved"
  <1>1. ASSUME NEW u \in Ticks,
               at'[u] = at[u], cur'[u] = cur[u], seen'[u] = seen[u]
        PROVE  Held(u)'
    BY <1>1, RowsStay DEF RowInHand, TypeOK
  <1>2. ASSUME Outside
        PROVE  RowInHand'
    BY <1>1, <1>2, OutsideFrame DEF RowInHand, tickVars
  <1>3. ASSUME NEW t \in Ticks, TickNext(t)
        PROVE  RowInHand'
    <2>1. \A u \in Ticks \ {t} : Held(u)'
      BY <1>1, <1>3, OtherTicks
    <2>2. Held(t)'
      <3> USE DEF TypeOK, InHand, Working
      <3>1. CASE StartTick(t)
        BY <3>1 DEF StartTick
      <3>2. ASSUME NEW p \in Proposals, Load(t, p)
            PROVE  Held(t)'
        BY <1>1, <3>2 DEF Load, Exists, OutcomesAreBacked, rowVars
      <3>3. CASE EndTick(t)
        BY <3>3 DEF EndTick
      <3>4. CASE Resolve(t)
        BY <3>4, RowsStay DEF Resolve, RowInHand
      <3>5. CASE Skip(t) \/ Escape(t)
        BY <3>5 DEF Skip, Escape, CloseSession
      <3>6. CASE LockRow(t)
        BY <3>6, RowsStay DEF LockRow, RowInHand
      <3>7. CASE Render(t)
        BY <3>7, RowsStay DEF Render, Prepare, CommitStatus, CloseSession, RowInHand
      <3>8. CASE Precheck(t)
        BY <3>8, RowsStay DEF Precheck, Prepare, CommitStatus, CloseSession, RowInHand
      <3>9. ASSUME NEW result \in Results, Push(t, result)
            PROVE  Held(t)'
        BY <3>9, RowsStay DEF Push, RowInHand
      <3>10. CASE Record(t)
        BY <3>10 DEF Record, CommitStatus, CloseSession
      <3>11. CASE Raise(t)
        BY <3>11 DEF Raise, CloseSession
      <3>12. CASE Crash(t)
        BY <3>12 DEF Crash, CloseSession
      <3>13. QED
        BY <1>3, <3>1, <3>2, <3>3, <3>4, <3>5, <3>6, <3>7, <3>8, <3>9, <3>10, <3>11, <3>12 DEF TickNext
    <2>3. QED
      BY <2>1, <2>2 DEF RowInHand
  <1>4. QED
    BY <1>2, <1>3 DEF Next, Outside

(* A lock is taken by LockRow when it is free, and given up together with  *)
(* the place in the run that needs it.                                     *)
LEMMA LockDisciplineStep ==
    ASSUME IInv, Next
    PROVE  LockDiscipline'
  <1> USE ConstantsAssumption DEF IInv
  <1>1. ASSUME Outside
        PROVE  LockDiscipline'
    BY <1>1, OutsideFrame DEF LockDiscipline, tickVars
  <1>2. ASSUME NEW t \in Ticks, TickNext(t)
        PROVE  LockDiscipline'
    <2> DEFINE Frame == \A u \in Ticks \ {t} : at'[u] = at[u] /\ cur'[u] = cur[u]
    <2> USE DEF TypeOK, LockDiscipline, Working
    <2>1. Frame
      BY <1>2, OtherTicks
    <2>2. ASSUME at'[t] \notin Working, CloseSession(t)
          PROVE  LockDiscipline'
      BY <2>1, <2>2 DEF CloseSession
    <2>3. ASSUME UNCHANGED rowLock, cur'[t] = cur[t],
                 at'[t] \in Working <=> at[t] \in Working
          PROVE  LockDiscipline'
      BY <2>1, <2>3
    <2>4. CASE LockRow(t)
      BY <2>1, <2>4 DEF LockRow
    <2>5. ASSUME NEW p \in Proposals, Load(t, p)
          PROVE  LockDiscipline'
      BY <2>1, <2>5 DEF Load
    <2>6. CASE StartTick(t) \/ EndTick(t) \/ Resolve(t)
      BY <2>3, <2>6 DEF StartTick, EndTick, Resolve
    <2>7. CASE Skip(t) \/ Escape(t) \/ Record(t) \/ Raise(t) \/ Crash(t)
      BY <2>2, <2>7 DEF Skip, Escape, Record, Raise, Crash, CommitStatus
    <2>8. CASE Render(t) \/ Precheck(t)
      <3>1. CASE \E x : Prepare(t, x)
        BY <2>3, <2>8, <3>1 DEF Render, Precheck, Prepare
      <3>2. CASE \E outcome : CommitStatus(t, outcome)
        BY <2>2, <3>2 DEF CommitStatus
      <3>3. QED
        BY <2>8, <3>1, <3>2 DEF Render, Precheck
    <2>9. ASSUME NEW result \in Results, Push(t, result)
          PROVE  LockDiscipline'
      BY <2>3, <2>9 DEF Push
    <2>10. QED
      BY <1>2, <2>4, <2>5, <2>6, <2>7, <2>8, <2>9 DEF TickNext
  <1>3. QED
    BY <1>1, <1>2 DEF Next, Outside

(* Render and Precheck prepare what was reviewed, and nothing changes a    *)
(* row's content before the push.                                          *)
LEMMA PreparedIsReviewedStep ==
    ASSUME IInv, Next
    PROVE  PreparedIsReviewed'
  <1> USE DEF IInv
  <1> DEFINE Reviewed(u) == at[u] \in HasPrepared =>
                               /\ fresh[u] \in Configs
                               /\ fresh[u] = content[cur[u]].intended
  <1>1. ASSUME NEW u \in Ticks, fresh'[u] = fresh[u], cur'[u] = cur[u],
               at'[u] \in HasPrepared => at[u] \in HasPrepared
        PROVE  Reviewed(u)'
    BY <1>1, RowsStay DEF PreparedIsReviewed, RowInHand, InHand, HasPrepared,
                          Working, TypeOK
  <1>2. ASSUME Outside
        PROVE  PreparedIsReviewed'
    BY <1>1, <1>2, OutsideFrame DEF PreparedIsReviewed, tickVars
  <1>3. ASSUME NEW t \in Ticks, TickNext(t)
        PROVE  PreparedIsReviewed'
    <2>1. \A u \in Ticks \ {t} : Reviewed(u)'
      BY <1>1, <1>3, OtherTicks
    <2>2. ASSUME Render(t) \/ Precheck(t)
          PROVE  Reviewed(t)'
      <3>1. ASSUME NEW outcome, CommitStatus(t, outcome)
            PROVE  Reviewed(t)'
        BY <3>1 DEF CommitStatus, TypeOK, HasPrepared
      <3>2. ASSUME NEW x \in Configs, Prepare(t, x), x = Row(t).intended
            PROVE  Reviewed(t)'
        BY <3>2 DEF Prepare, Row, TypeOK, rowVars
      <3>3. CASE Render(t)
        BY <3>1, <3>2, <3>3 DEF Render
      <3>4. CASE Precheck(t)
        <4>1. Exists(cur[t])
          BY <3>4 DEF Precheck, RowInHand, InHand, Working
        <4>2. Row(t).intended # BadSpec => Row(t).intended \in Configs
          BY <4>1 DEF TypeOK, Contents, Row
        <4>3. QED
          BY <3>1, <3>2, <3>4, <4>2 DEF Precheck
      <3>5. QED
        BY <2>2, <3>3, <3>4
    <2>3. ASSUME ~(Render(t) \/ Precheck(t))
          PROVE  Reviewed(t)'
      <3>1. \/ at'[t] \notin HasPrepared
            \/ /\ fresh'[t] = fresh[t]
               /\ cur'[t] = cur[t]
               /\ at'[t] \in HasPrepared => at[t] \in HasPrepared
        BY <1>3, <2>3 DEF TickNext, StartTick, Load, EndTick, Resolve, Skip, Escape,
             LockRow, Push, Record, Raise, Crash, CommitStatus, HasPrepared,
             TypeOK
      <3>2. QED
        BY <1>1, <3>1
    <2>4. QED
      BY <2>1, <2>2, <2>3 DEF PreparedIsReviewed
  <1>4. QED
    BY <1>2, <1>3 DEF Next, Outside

LEMMA PushedBeforeRecordedStep ==
    ASSUME IInv, Next
    PROVE  PushedBeforeRecorded'
  <1> USE DEF IInv
  <1> DEFINE Pushed(u) == at[u] \in Results => pushes[cur[u]] > 0
  <1>1. ASSUME NEW u \in Ticks, at'[u] = at[u], cur'[u] = cur[u]
        PROVE  Pushed(u)'
    <2>1. pushes'[cur[u]] >= pushes[cur[u]]
      BY RowsStay DEF TypeOK
    <2>2. pushes[cur[u]] \in Nat /\ pushes'[cur[u]] \in Nat
      BY TypeStep DEF TypeOK
    <2>3. QED
      BY <1>1, <2>1, <2>2 DEF PushedBeforeRecorded
  <1>2. ASSUME Outside
        PROVE  PushedBeforeRecorded'
    BY <1>1, <1>2, OutsideFrame DEF PushedBeforeRecorded, tickVars
  <1>3. ASSUME NEW t \in Ticks, TickNext(t)
        PROVE  PushedBeforeRecorded'
    <2>1. \A u \in Ticks \ {t} : Pushed(u)'
      BY <1>1, <1>3, OtherTicks
    <2>2. ASSUME NEW result \in Results, Push(t, result)
          PROVE  Pushed(t)'
      BY <2>2 DEF Push, TypeOK
    <2>3. ASSUME ~\E result \in Results : Push(t, result)
          PROVE  Pushed(t)'
      BY <1>3, <2>3 DEF TickNext, StartTick, Load, EndTick, Resolve, Skip, Escape,
           LockRow, Render, Precheck, Record, Raise, Crash, Prepare,
           CommitStatus, TypeOK, PushedBeforeRecorded
    <2>4. QED
      BY <2>1, <2>2, <2>3 DEF PushedBeforeRecorded
  <1>4. QED
    BY <1>2, <1>3 DEF Next, Outside

(* The audit columns: a status is written by Decide, which records the     *)
(* approval with it, or by a tick on the row it has in hand.               *)
LEMMA OutcomesAreBackedStep ==
    ASSUME IInv, Next
    PROVE  OutcomesAreBacked'
  <1> USE DEF IInv
  <1> DEFINE Backed(p) ==
               /\ status[p] \in {"approved", "executed", "failed", "stale"}
                     => p \in approvals
               /\ pushes[p] > 0 => p \in approvals
               /\ status[p] = "executed" => p \in stamped /\ pushes[p] > 0
  <1>1. ASSUME NEW p \in Proposals, status'[p] = status[p],
               pushes'[p] = pushes[p] \/ p \in approvals
        PROVE  Backed(p)'
    <2>1. pushes'[p] >= pushes[p] /\ pushes[p] \in Nat /\ pushes'[p] \in Nat
      BY RowsStay, TypeStep DEF TypeOK
    <2>2. QED
      BY <1>1, <2>1, RowsStay DEF OutcomesAreBacked
  <1>2. ASSUME Outside
        PROVE  OutcomesAreBacked'
    <2>1. UNCHANGED <<pushes, stamped>>
      BY <1>2, OutsideFrame
    <2>2. ASSUME NEW p \in Proposals, status'[p] # status[p]
          PROVE  \/ status'[p] \in {"pending", "rejected"}
                 \/ status'[p] = "approved" /\ p \in approvals'
      BY <1>2, <2>2 DEF Outside, RequestNext, Propose, EditSot, ReadForDecision,
           Decide, RefuseDecision, Decisions, TypeOK, rowVars
    <2>3. ASSUME NEW p \in Proposals
          PROVE  Backed(p)'
      BY <1>1, <2>1, <2>2, RowsStay DEF OutcomesAreBacked
    <2>4. QED
      BY <2>3 DEF OutcomesAreBacked
  <1>3. ASSUME NEW t \in Ticks, TickNext(t)
        PROVE  OutcomesAreBacked'
    <2>1. CASE \E result \in Results : Push(t, result)
      <3>1. cur[t] \in approvals
        BY <2>1 DEF Push, RowInHand, InHand, Working
      <3>2. ASSUME NEW p \in Proposals
            PROVE  Backed(p)'
        BY <1>1, <2>1, <3>1 DEF Push, TypeOK, rowVars
      <3>3. QED
        BY <3>2 DEF OutcomesAreBacked
    <2>2. CASE Record(t)
      <3>1. /\ cur[t] \in approvals
            /\ at[t] \in Results => pushes[cur[t]] > 0
        BY <2>2 DEF Record, RowInHand, InHand, Working, PushedBeforeRecorded
      <3>2. ASSUME NEW p \in Proposals, p # cur[t]
            PROVE  Backed(p)'
        BY <1>1, <2>2, <3>2 DEF Record, CommitStatus, TypeOK
      <3>3. ASSUME NEW p \in Proposals, p = cur[t]
            PROVE  Backed(p)'
        BY <2>2, <3>1, <3>3 DEF Record, CommitStatus, TypeOK
      <3>4. QED
        BY <3>2, <3>3 DEF OutcomesAreBacked
    <2>3. CASE Render(t) \/ Precheck(t)
      <3>1. cur[t] \in approvals
        BY <2>3 DEF Render, Precheck, RowInHand, InHand, Working
      <3>2. UNCHANGED pushes
        BY <2>3 DEF Render, Precheck, Prepare, CommitStatus
      <3>3. \/ UNCHANGED status
            \/ \E outcome \in {"stale", "failed"} :
                  status' = [status EXCEPT ![cur[t]] = outcome]
        BY <2>3 DEF Render, Precheck, Prepare, CommitStatus, rowVars
      <3>4. ASSUME NEW p \in Proposals, p # cur[t] \/ status'[p] = status[p]
            PROVE  Backed(p)'
        BY <1>1, <3>2, <3>3, <3>4 DEF TypeOK
      <3>5. ASSUME NEW p \in Proposals, p = cur[t],
                   status'[p] \in {"stale", "failed"}
            PROVE  Backed(p)'
        BY <3>1, <3>5, RowsStay
      <3>6. status'[cur[t]] = status[cur[t]] \/ status'[cur[t]] \in {"stale", "failed"}
        BY <3>3 DEF TypeOK
      <3>7. QED
        BY <3>4, <3>5, <3>6 DEF OutcomesAreBacked, TypeOK
    <2>4. CASE UNCHANGED <<status, pushes>>
      BY <1>1, <2>4 DEF OutcomesAreBacked
    <2>5. QED
      BY <1>3, <2>1, <2>2, <2>3, <2>4 DEF TickNext, StartTick, Load, EndTick,
           Resolve, Skip, Escape, LockRow, Raise, Crash, rowVars
  <1>4. QED
    BY <1>2, <1>3 DEF Next, Outside

(* Only Push touches a device, and with the reviewed content of a row that *)
(* is in approvals; rows and approvals stay.                               *)
LEMMA OnlyApprovedConfigRunsStep ==
    ASSUME IInv, Next
    PROVE  OnlyApprovedConfigRuns'
  <1> USE DEF IInv
  <1> DEFINE Sanctioned(d, x) == \E p \in approvals : /\ Exists(p)
                                                      /\ content[p].device = d
                                                      /\ content[p].intended = x
  <1>1. ASSUME NEW d \in Devices, NEW x, Sanctioned(d, x)
        PROVE  Sanctioned(d, x)'
    BY <1>1, RowsStay DEF TypeOK
  <1>2. CASE UNCHANGED running
    BY <1>1, <1>2 DEF OnlyApprovedConfigRuns
  <1>3. ASSUME NEW t \in Ticks, NEW result \in Results,
               Push(t, result)
        PROVE  OnlyApprovedConfigRuns'
    <2>1. /\ cur[t] \in approvals
          /\ Exists(cur[t])
          /\ fresh[t] = content[cur[t]].intended
      BY <1>3 DEF Push, RowInHand, InHand, Working, PreparedIsReviewed, HasPrepared
    <2>2. ASSUME NEW d \in Devices, NEW c \in running'[d]
          PROVE  c \in running[d] \/ (d = Row(t).device /\ c = fresh[t])
      BY <1>3, <2>2 DEF Push, TypeOK
    <2>3. ASSUME NEW d \in Devices, NEW c \in running'[d]
          PROVE  Sanctioned(d, c)
      BY <2>1, <2>2, <2>3 DEF Row, OnlyApprovedConfigRuns
    <2>4. QED
      BY <1>1, <2>3 DEF OnlyApprovedConfigRuns
  <1>4. \/ UNCHANGED running
        \/ \E t \in Ticks, result \in Results : Push(t, result)
    BY OutsideFrame DEF Next, Outside, TickNext, StartTick, Load, EndTick, Resolve,
       Skip, Escape, LockRow, Render, Precheck, Record, Raise, Crash, Prepare, CommitStatus
  <1>5. QED
    BY <1>2, <1>3, <1>4

-----------------------------------------------------------------------------
(* The theorems.                                                           *)

LEMMA InitIInv == Init => IInv
  <1> SUFFICES ASSUME Init PROVE IInv
    OBVIOUS
  <1>1. TypeOK
    BY InitType
  <1>2. /\ ApprovedRowsExist
        /\ RowInHand
        /\ RowDecided
        /\ PreparedIsReviewed
        /\ PushedBeforeRecorded
    BY DEF Init, ApprovedRowsExist, RowInHand, RowDecided, PreparedIsReviewed,
           PushedBeforeRecorded, InHand, HasPrepared, Working
  <1>3. LockDiscipline
    BY ConstantsAssumption DEF Init, LockDiscipline, Working
  <1>4. OutcomesAreBacked /\ OnlyApprovedConfigRuns
    BY DEF Init, OutcomesAreBacked, OnlyApprovedConfigRuns
  <1>5. QED
    BY <1>1, <1>2, <1>3, <1>4 DEF IInv

LEMMA IInvStep == IInv /\ [Next]_vars => IInv'
  <1>1. ASSUME IInv, Next
        PROVE  IInv'
    BY <1>1, TypeStep, ApprovedRowsExistStep, RowInHandStep, RowDecidedStep,
       LockDisciplineStep, PreparedIsReviewedStep, PushedBeforeRecordedStep,
       OutcomesAreBackedStep, OnlyApprovedConfigRunsStep
    DEF IInv
  <1>2. ASSUME IInv, UNCHANGED vars
        PROVE  IInv'
    BY <1>2 DEF IInv, TypeOK, ApprovedRowsExist, RowInHand, RowDecided,
           LockDiscipline, PreparedIsReviewed, PushedBeforeRecorded,
           OutcomesAreBacked, OnlyApprovedConfigRuns, Exists, vars, rowVars,
           tickVars, requestVars
  <1>3. QED
    BY <1>1, <1>2

LEMMA Inductive == Spec => []IInv
  BY InitIInv, IInvStep, PTL DEF Spec

(* Every variable keeps its type, in any deployment.                       *)
THEOREM TypeCorrect == Spec => []TypeOK
  <1>1. IInv => TypeOK
    BY DEF IInv
  <1>2. QED
    BY <1>1, Inductive, PTL

(* No device ever runs anything but the reviewed content of a proposal     *)
(* approved for it, whatever races and crashes (change_proposals.execute). *)
THEOREM OnlyApproved == Spec => []OnlyApprovedConfigRuns
  <1>1. IInv => OnlyApprovedConfigRuns
    BY DEF IInv
  <1>2. QED
    BY <1>1, Inductive, PTL

(* The row lock really serialises the executors: a row is executed by one  *)
(* tick at a time, which holds its lock throughout.                        *)
THEOREM OneExecutor == Spec => []OneExecutorPerRow
  <1>1. ASSUME IInv PROVE OneExecutorPerRow
    BY <1>1 DEF IInv, LockDiscipline, OneExecutorPerRow
  <1>2. QED
    BY <1>1, Inductive, PTL

(* A row says approved, executed, failed or stale only after an approval,  *)
(* and executed only after a push.                                         *)
THEOREM Backed == Spec => []OutcomesAreBacked
  <1>1. IInv => OutcomesAreBacked
    BY DEF IInv
  <1>2. QED
    BY <1>1, Inductive, PTL

-----------------------------------------------------------------------------
(* How often a proposal is pushed.                                         *)

FinitePool == IsFiniteSet(Ticks)

Holding   == {"loaded", "ready", "locked", "rendered"}
Reporting == Results

(* The ticks that may still push p: they have it in hand or in their batch. *)
MayPush(p) == {t \in Ticks : \/ p \in batch[t]
                             \/ cur[t] = p /\ at[t] \in Holding}

(* Its push is done and the outcome not yet committed.                     *)
Unrecorded(p) == \E t \in Ticks : at[t] \in Reporting /\ cur[t] = p

(* A row in hand has left the batch it came with.                          *)
HandNotQueued == \A t \in Ticks : at[t] \in InHand => cur[t] \notin batch[t]

(* Until an outcome is recorded every push but one on its way was followed *)
(* by a fault; afterwards no tick takes the row up again, and each of      *)
(* those that still have it pushes it at most once.                        *)
Budget(p) ==
    /\ p \notin stamped => pushes[p] <= faults + (IF Unrecorded(p) THEN 1 ELSE 0)
    /\ p \in stamped =>
          pushes[p] + Cardinality(MayPush(p)) <= Cardinality(Ticks) + faults

PInv == IInv /\ HandNotQueued /\ \A p \in Proposals : Budget(p)

LEMMA MayPushFinite ==
    ASSUME FinitePool, NEW p
    PROVE  /\ IsFiniteSet(MayPush(p))
           /\ Cardinality(MayPush(p)) \in Nat
           /\ Cardinality(Ticks) \in Nat
           /\ Cardinality(MayPush(p)) <= Cardinality(Ticks)
  <1>1. MayPush(p) \in SUBSET Ticks
    BY DEF MayPush
  <1>2. QED
    BY <1>1, FS_Subset, FS_CardinalityType DEF FinitePool

LEMMA MayPushShrinks ==
    ASSUME FinitePool, NEW p, MayPush(p)' \subseteq MayPush(p)
    PROVE  /\ Cardinality(MayPush(p)') \in Nat
           /\ Cardinality(MayPush(p)') <= Cardinality(MayPush(p))
  BY MayPushFinite, FS_Subset, FS_CardinalityType

(* A tick drops out of those that may push p.                              *)
LEMMA MayPushLoses ==
    ASSUME NEW S, IsFiniteSet(S), NEW t \in S, NEW T, T \subseteq S \ {t}
    PROVE  /\ Cardinality(T) \in Nat
           /\ Cardinality(T) + 1 <= Cardinality(S)
  <1>1. /\ IsFiniteSet(S \ {t})
        /\ Cardinality(S \ {t}) = Cardinality(S) - 1
    BY FS_RemoveElement
  <1>2. /\ IsFiniteSet(T)
        /\ Cardinality(T) <= Cardinality(S \ {t})
    BY <1>1, FS_Subset
  <1>3. QED
    BY <1>1, <1>2, FS_CardinalityType

LEMMA HandNotQueuedStep ==
    ASSUME IInv, HandNotQueued, Next
    PROVE  HandNotQueued'
  <1> USE DEF IInv
  <1>1. CASE Outside
    BY <1>1, OutsideFrame DEF HandNotQueued, tickVars
  <1>2. ASSUME NEW t \in Ticks, TickNext(t)
        PROVE  HandNotQueued'
    <2>1. \A u \in Ticks \ {t} : /\ at'[u] = at[u]
                                 /\ batch'[u] = batch[u]
                                 /\ cur'[u] = cur[u]
      BY <1>2, OtherTicks
    <2>2. at'[t] \in InHand => cur'[t] \notin batch'[t]
      BY <1>2 DEF TypeOK, TickNext, StartTick, Load, EndTick, Resolve, Skip, Escape,
         LockRow, Render, Precheck, Push, Record, Raise, Crash, Prepare,
         CommitStatus, HandNotQueued, InHand, Working
    <2>3. QED
      BY <2>1, <2>2 DEF HandNotQueued
  <1>3. QED
    BY <1>1, <1>2 DEF Next, Outside

(* A step that neither pushes nor records p and gives p to no tick.        *)
LEMMA BudgetKept ==
    ASSUME FinitePool, TypeOK, NEW p \in Proposals, Budget(p),
           pushes'[p] = pushes[p],
           p \in stamped' <=> p \in stamped,
           p \in stamped => MayPush(p)' \subseteq MayPush(p),
           \/ faults' = faults /\ (Unrecorded(p) => Unrecorded(p)')
           \/ faults' = faults + 1
    PROVE  Budget(p)'
  <1>1. faults \in Nat /\ pushes[p] \in Nat
    BY DEF TypeOK
  <1>2. CASE p \notin stamped
    BY <1>1, <1>2 DEF Budget
  <1>3. CASE p \in stamped
    <2>1. /\ Cardinality(MayPush(p)) \in Nat
          /\ Cardinality(Ticks) \in Nat
          /\ Cardinality(MayPush(p)') \in Nat
          /\ Cardinality(MayPush(p)') <= Cardinality(MayPush(p))
      BY <1>3, MayPushFinite, MayPushShrinks
    <2>2. pushes[p] + Cardinality(MayPush(p)) <= Cardinality(Ticks) + faults
      BY <1>3 DEF Budget
    <2>3. p \in stamped' /\ (p \notin stamped') = FALSE
      BY <1>3
    <2>4. faults' \in {faults, faults + 1}
      OBVIOUS
    <2>5. pushes'[p] + Cardinality(MayPush(p)') <= Cardinality(Ticks) + faults'
      BY <1>1, <2>1, <2>2, <2>4
    <2>6. QED
      BY <2>3, <2>5 DEF Budget
  <1>4. QED
    BY <1>2, <1>3

LEMMA BudgetPush ==
    ASSUME FinitePool, IInv, HandNotQueued, NEW p \in Proposals, Budget(p),
           NEW t \in Ticks, NEW result \in Reporting, Push(t, result), cur[t] = p
    PROVE  Budget(p)'
  <1> USE DEF IInv
  <1>1. /\ at[t] = "rendered" /\ at'[t] = result
        /\ pushes'[p] = pushes[p] + 1
        /\ UNCHANGED <<cur, batch, stamped, faults>>
        /\ \A u \in Ticks \ {t} : at'[u] = at[u]
    BY DEF Push, TypeOK, rowVars
  <1>2. faults \in Nat /\ pushes[p] \in Nat
    BY DEF TypeOK
  <1>3. CASE p \notin stamped
    <2>1. rowLock[p] = t
      BY <1>1 DEF LockDiscipline, Working
    <2>2. ~Unrecorded(p)
      BY <1>1, <2>1 DEF LockDiscipline, Working, Unrecorded, Reporting
    <2>3. Unrecorded(p)'
      BY <1>1 DEF Unrecorded
    <2>4. QED
      BY <1>1, <1>2, <1>3, <2>2, <2>3 DEF Budget
  <1>4. CASE p \in stamped
    <2>1. t \in MayPush(p)
      BY <1>1 DEF MayPush, Holding
    <2>2. p \notin batch[t]
      BY <1>1 DEF HandNotQueued, InHand, Working
    <2>3. MayPush(p)' \subseteq MayPush(p) \ {t}
      BY <1>1, <2>2 DEF MayPush, Holding, Reporting
    <2>4. /\ Cardinality(MayPush(p)') \in Nat
          /\ Cardinality(MayPush(p)') + 1 <= Cardinality(MayPush(p))
      BY <2>1, <2>3, MayPushFinite, MayPushLoses
    <2>5. QED
      BY <1>1, <1>2, <1>4, <2>4, MayPushFinite DEF Budget
  <1>5. QED
    BY <1>3, <1>4

LEMMA BudgetRecord ==
    ASSUME FinitePool, IInv, HandNotQueued, NEW p \in Proposals, Budget(p),
           NEW t \in Ticks, Record(t), cur[t] = p
    PROVE  Budget(p)'
  <1> USE DEF IInv
  <1>1. /\ at[t] \in Reporting /\ at'[t] = "batch"
        /\ UNCHANGED <<cur, batch, pushes, faults>>
        /\ p \in stamped'
        /\ \A u \in Ticks \ {t} : at'[u] = at[u]
    BY DEF Record, CommitStatus, Reporting, TypeOK
  <1>2. faults \in Nat /\ pushes[p] \in Nat
    BY DEF TypeOK
  <1>3. p \notin batch[t]
    BY <1>1 DEF HandNotQueued, InHand, Working, Reporting
  <1>4. CASE p \notin stamped
    <2>1. MayPush(p)' \subseteq Ticks \ {t}
      BY <1>1, <1>3 DEF MayPush, Holding
    <2>2. /\ Cardinality(MayPush(p)') \in Nat
          /\ Cardinality(MayPush(p)') + 1 <= Cardinality(Ticks)
      BY <2>1, MayPushLoses DEF FinitePool
    <2>3. pushes[p] <= faults + 1
      BY <1>2, <1>4 DEF Budget
    <2>4. Cardinality(Ticks) \in Nat
      BY MayPushFinite
    <2>5. pushes'[p] + Cardinality(MayPush(p)') <= Cardinality(Ticks) + faults'
      BY <1>1, <1>2, <2>2, <2>3, <2>4
    <2>6. QED
      BY <1>1, <2>5 DEF Budget
  <1>5. CASE p \in stamped
    <2>1. MayPush(p)' \subseteq MayPush(p)
      BY <1>1, <1>3 DEF MayPush, Holding
    <2>2. QED
      BY <1>1, <1>2, <1>5, <2>1, MayPushFinite, MayPushShrinks DEF Budget
  <1>6. QED
    BY <1>4, <1>5

LEMMA BudgetStep ==
    ASSUME FinitePool, PInv, Next
    PROVE  \A p \in Proposals : Budget(p)'
  <1> SUFFICES ASSUME NEW p \in Proposals
               PROVE  Budget(p)'
    OBVIOUS
  <1> USE DEF PInv, IInv
  <1>1. CASE Outside
    <2>1. UNCHANGED <<tickVars, pushes, stamped>>
      BY <1>1, OutsideFrame
    <2>2. UNCHANGED faults
      BY <1>1 DEF Outside, Propose, EditSot, RequestNext, ReadForDecision,
         Decide, RefuseDecision
    <2>3. MayPush(p)' = MayPush(p) /\ Unrecorded(p)' = Unrecorded(p)
      BY <2>1 DEF tickVars, MayPush, Unrecorded
    <2>4. QED
      BY <2>1, <2>2, <2>3, BudgetKept
  <1>2. ASSUME NEW t \in Ticks, TickNext(t)
        PROVE  Budget(p)'
    <2>1. \A u \in Ticks \ {t} : /\ at'[u] = at[u]
                                 /\ batch'[u] = batch[u]
                                 /\ cur'[u] = cur[u]
      BY <1>2, OtherTicks
    <2> DEFINE Takes == p \in batch[t] \/ (cur[t] = p /\ at[t] \in Holding)
    <2>2. ASSUME Takes' => Takes
          PROVE  MayPush(p)' \subseteq MayPush(p)
      BY <2>1, <2>2 DEF MayPush
    <2>3. ASSUME at[t] \in Reporting /\ cur[t] = p => at'[t] \in Reporting /\ cur'[t] = p
          PROVE  Unrecorded(p) => Unrecorded(p)'
      BY <2>1, <2>3 DEF Unrecorded
    <2>4. CASE StartTick(t)
      <3>1. /\ at[t] = "idle" /\ at'[t] = "batch" /\ cur' = cur
            /\ batch'[t] \subseteq Due
            /\ UNCHANGED <<pushes, stamped, faults>>
        BY <2>4 DEF StartTick, TypeOK, rowVars
      <3>2. p \in stamped => (Takes' => Takes)
        BY <3>1 DEF Due, Holding
      <3>3. QED
        BY <2>2, <2>3, <3>1, <3>2, BudgetKept DEF Reporting
    <2>5. ASSUME NEW q \in Proposals, Load(t, q)
          PROVE  Budget(p)'
      <3>1. /\ at[t] = "batch" /\ at'[t] \in {"batch", "loaded"}
            /\ UNCHANGED <<pushes, stamped, faults>>
            /\ Takes' => Takes
        BY <2>5 DEF Load, TypeOK, Holding, rowVars
      <3>2. QED
        BY <2>2, <2>3, <3>1, BudgetKept DEF Reporting
    <2>6. CASE \/ EndTick(t) \/ Resolve(t) \/ Skip(t) \/ Escape(t) \/ LockRow(t)
               \/ Render(t) \/ Precheck(t)
      <3>1. /\ at[t] \notin Reporting
            /\ UNCHANGED <<pushes, stamped, faults>>
            /\ Takes' => Takes
        BY <2>6 DEF EndTick, Resolve, Skip, Escape, LockRow, Render, Precheck, Prepare,
           CommitStatus, TypeOK, Holding, Reporting, rowVars
      <3>2. QED
        BY <2>2, <2>3, <3>1, BudgetKept
    <2>7. CASE Raise(t) \/ Crash(t)
      <3>1. /\ faults' = faults + 1
            /\ UNCHANGED <<pushes, stamped>>
            /\ Takes' => Takes
        BY <2>7 DEF Raise, Crash, TypeOK, Holding, rowVars
      <3>2. QED
        BY <2>2, <3>1, BudgetKept
    <2>8. ASSUME NEW result \in Results, Push(t, result)
          PROVE  Budget(p)'
      <3>1. CASE cur[t] = p
        BY <2>8, <3>1, BudgetPush DEF Reporting
      <3>2. CASE cur[t] # p
        <4>1. /\ UNCHANGED <<cur, batch, stamped, faults>>
              /\ pushes'[p] = pushes[p]
          BY <2>8, <3>2 DEF Push, TypeOK, rowVars
        <4>2. QED
          BY <2>2, <2>3, <3>2, <4>1, BudgetKept
      <3>3. QED
        BY <3>1, <3>2
    <2>9. CASE Record(t)
      <3>1. CASE cur[t] = p
        BY <2>9, <3>1, BudgetRecord
      <3>2. CASE cur[t] # p
        <4>1. /\ UNCHANGED <<cur, batch, pushes, faults>>
              /\ p \in stamped' <=> p \in stamped
          BY <2>9, <3>2 DEF Record, CommitStatus
        <4>2. QED
          BY <2>2, <2>3, <3>2, <4>1, BudgetKept
      <3>3. QED
        BY <3>1, <3>2
    <2>10. QED
      BY <1>2, <2>4, <2>5, <2>6, <2>7, <2>8, <2>9 DEF TickNext
  <1>3. QED
    BY <1>1, <1>2 DEF Next, Outside

LEMMA PushInvariant ==
    ASSUME FinitePool
    PROVE  Spec => []PInv
  <1>1. Init => PInv
    <2> SUFFICES ASSUME Init PROVE PInv
      OBVIOUS
    <2>1. IInv
      BY InitIInv
    <2>2. HandNotQueued
      BY DEF Init, HandNotQueued, InHand, Working
    <2>3. \A p \in Proposals : p \notin stamped /\ pushes[p] = 0 /\ faults = 0
      BY DEF Init
    <2>4. \A p \in Proposals : Budget(p)
      BY <2>3 DEF Budget
    <2>5. QED
      BY <2>1, <2>2, <2>4 DEF PInv
  <1>2. PInv /\ [Next]_vars => PInv'
    <2>1. ASSUME PInv, Next
          PROVE  PInv'
      BY <2>1, IInvStep, HandNotQueuedStep, BudgetStep DEF PInv
    <2>2. ASSUME PInv, UNCHANGED vars
          PROVE  PInv'
      <3>1. IInv'
        BY <2>2, IInvStep DEF PInv
      <3>2. \A p \in Proposals : MayPush(p)' = MayPush(p) /\ Unrecorded(p)' = Unrecorded(p)
        BY <2>2 DEF vars, tickVars, MayPush, Unrecorded
      <3>3. QED
        BY <2>2, <3>1, <3>2 DEF PInv, HandNotQueued, Budget, vars, rowVars, tickVars
    <2>3. QED
      BY <2>1, <2>2
  <1>3. QED
    BY <1>1, <1>2, PTL DEF Spec

LEMMA BudgetBounds ==
    ASSUME FinitePool, PInv
    PROVE  PushesBounded
  <1> SUFFICES ASSUME NEW p \in Proposals
               PROVE  pushes[p] <= Cardinality(Ticks) + faults
    BY DEF PushesBounded
  <1>1. /\ faults \in Nat /\ pushes[p] \in Nat
        /\ Cardinality(Ticks) \in Nat /\ Cardinality(MayPush(p)) \in Nat
    BY MayPushFinite DEF PInv, IInv, TypeOK
  <1>2. Unrecorded(p) => Cardinality(Ticks) # 0
    BY FS_EmptySet DEF Unrecorded, FinitePool
  <1>3. Budget(p)
    BY DEF PInv
  <1>4. QED
    BY <1>1, <1>2, <1>3 DEF Budget

(* However ticks, decisions and crashes interleave, a proposal is pushed   *)
(* at most once per executor slot and once per crash or exception: the     *)
(* bound that executed_at puts on the double pushes of overlapping ticks.  *)
THEOREM PushesAreFew ==
    ASSUME FinitePool
    PROVE  Spec => []PushesBounded
  <1>1. PInv => PushesBounded
    BY BudgetBounds
  <1>2. QED
    BY <1>1, PushInvariant, PTL

OneTick == \A t, u \in Ticks : t = u

(* If ticks do not overlap, a proposal is pushed once, and once more for   *)
(* each crash or exception that kept its outcome from being recorded,      *)
(* however many requests decide it.                                        *)
THEOREM NoDuplicates ==
    ASSUME OneTick
    PROVE  Spec => [](\A p \in Proposals : pushes[p] <= 1 + faults)
  <1>1. FinitePool /\ Cardinality(Ticks) <= 1 /\ Cardinality(Ticks) \in Nat
    <2>1. CASE Ticks = {}
      BY <2>1, FS_EmptySet DEF FinitePool
    <2>2. ASSUME NEW t \in Ticks
          PROVE  FinitePool /\ Cardinality(Ticks) <= 1 /\ Cardinality(Ticks) \in Nat
      <3>1. Ticks = {t}
        BY DEF OneTick
      <3>2. IsFiniteSet({t}) /\ Cardinality({t}) = 1
        BY FS_Singleton
      <3>3. QED
        BY <3>1, <3>2 DEF FinitePool
    <2>3. QED
      BY <2>1, <2>2
  <1>2. TypeOK /\ PushesBounded => \A p \in Proposals : pushes[p] <= 1 + faults
    BY <1>1 DEF PushesBounded, TypeOK
  <1>3. QED
    BY <1>1, <1>2, TypeCorrect, PushesAreFew, PTL

-----------------------------------------------------------------------------
(* What is recorded is in force, as long as ticks do not overlap.          *)

InForce ==
    \A t \in Ticks : at[t] = "succeeded"
        => running[Row(t).device] = {Row(t).intended}

(* What the step of a tick does to the status column.                      *)
LEMMA TickStatus ==
    ASSUME TypeOK, NEW t \in Ticks, TickNext(t)
    PROVE  /\ \/ UNCHANGED status
              \/ /\ at[t] \in Working
                 /\ at'[t] = "batch"
                 /\ \E outcome \in {"executed", "failed", "stale"} :
                       /\ status' = [status EXCEPT ![cur[t]] = outcome]
                       /\ outcome = "executed" => at[t] \in Reported
           /\ UNCHANGED <<content, approvedAt, approvals, reqAt, reqSeen, sot>>
           /\ at'[t] \in InHand =>
                 \/ at[t] \in InHand /\ cur'[t] = cur[t]
                 \/ status[cur'[t]] = "approved" /\ UNCHANGED status
  <1> DEFINE Goal ==
           /\ \/ UNCHANGED status
              \/ /\ at[t] \in Working
                 /\ at'[t] = "batch"
                 /\ \E outcome \in {"executed", "failed", "stale"} :
                       /\ status' = [status EXCEPT ![cur[t]] = outcome]
                       /\ outcome = "executed" => at[t] \in Reported
           /\ UNCHANGED <<content, approvedAt, approvals, reqAt, reqSeen, sot>>
           /\ at'[t] \in InHand =>
                 \/ at[t] \in InHand /\ cur'[t] = cur[t]
                 \/ status[cur'[t]] = "approved" /\ UNCHANGED status
  <1> USE DEF TypeOK, rowVars, requestVars, InHand, Working
  <1>1. CASE StartTick(t) \/ EndTick(t) \/ Resolve(t) \/ LockRow(t)
    BY <1>1 DEF StartTick, EndTick, Resolve, LockRow
  <1>2. ASSUME NEW p \in Proposals, Load(t, p)
        PROVE  Goal
    BY <1>2 DEF Load
  <1>3. CASE Skip(t) \/ Escape(t) \/ Raise(t) \/ Crash(t)
    BY <1>3 DEF Skip, Escape, Raise, Crash
  <1>4. CASE Render(t)
    BY <1>4 DEF Render, Prepare, CommitStatus
  <1>5. CASE Precheck(t)
    BY <1>5 DEF Precheck, Prepare, CommitStatus
  <1>6. ASSUME NEW result \in Results, Push(t, result)
        PROVE  Goal
    BY <1>6 DEF Push
  <1>7. CASE Record(t)
    BY <1>7 DEF Record, CommitStatus
  <1>8. QED
    BY <1>1, <1>2, <1>3, <1>4, <1>5, <1>6, <1>7 DEF TickNext

LEMMA InForceStep ==
    ASSUME OneTick, IInv, InForce, Next
    PROVE  InForce'
  <1> USE DEF IInv
  <1>1. CASE Outside
    <2>1. \A t \in Ticks : at'[t] = at[t] /\ cur'[t] = cur[t]
      BY <1>1, OutsideFrame DEF tickVars
    <2>2. running' = running
      BY <1>1, OutsideFrame
    <2>3. ASSUME NEW t \in Ticks, at[t] = "succeeded"
          PROVE  Row(t)' = Row(t)
      BY <2>1, <2>3, RowsStay DEF Row, RowInHand, InHand, Working, TypeOK
    <2>4. QED
      BY <2>1, <2>2, <2>3 DEF InForce
  <1>2. ASSUME NEW t \in Ticks, TickNext(t)
        PROVE  InForce'
    <2>1. \A u \in Ticks : u = t
      BY DEF OneTick
    <2>2. CASE Push(t, "succeeded")
      <3>1. /\ running' = [running EXCEPT ![Row(t).device] = {fresh[t]}]
            /\ Row(t)' = Row(t) /\ at[t] = "rendered"
        BY <2>2 DEF Push, Row, rowVars
      <3>2. Exists(cur[t]) /\ fresh[t] = Row(t).intended
        BY <3>1 DEF RowInHand, InHand, Working, PreparedIsReviewed, HasPrepared, Row
      <3>3. Row(t).device \in Devices
        BY <3>2 DEF TypeOK, Contents, Row
      <3>4. QED
        BY <2>1, <3>1, <3>2, <3>3 DEF InForce, TypeOK
    <2>3. CASE ~Push(t, "succeeded")
      <3>1. at'[t] # "succeeded"
        BY <1>2, <2>3 DEF TickNext, StartTick, Load, EndTick, Resolve, Skip, Escape,
           LockRow, Render, Precheck, Push, Record, Raise, Crash, Prepare,
           CommitStatus, TypeOK
      <3>2. QED
        BY <2>1, <3>1 DEF InForce
    <2>4. QED
      BY <2>2, <2>3
  <1>3. QED
    BY <1>1, <1>2 DEF Next, Outside

LEMMA InForceInvariant ==
    ASSUME OneTick
    PROVE  Spec => [](IInv /\ InForce)
  <1>1. Init => IInv /\ InForce
    BY InitIInv DEF Init, InForce
  <1>2. IInv /\ InForce /\ [Next]_vars => (IInv /\ InForce)'
    <2>1. ASSUME IInv, InForce, Next
          PROVE  (IInv /\ InForce)'
      BY <2>1, IInvStep, InForceStep
    <2>2. ASSUME IInv, InForce, UNCHANGED vars
          PROVE  (IInv /\ InForce)'
      BY <2>2, IInvStep DEF InForce, Row, vars, rowVars, tickVars
    <2>3. QED
      BY <2>1, <2>2
  <1>3. QED
    BY <1>1, <1>2, PTL DEF Spec

(* However many requests raced to decide a row and whatever was edited     *)
(* meanwhile, its device runs what was reviewed and nothing else when the  *)
(* row is recorded as executed, or its own push claimed a success it did   *)
(* not have.                                                               *)
THEOREM RecordIsTrue ==
    ASSUME OneTick
    PROVE  Spec => RecordMatchesDevice
  <1>1. ASSUME IInv, InForce, [Next]_vars
        PROVE  \A p \in Proposals :
                   status[p] = "approved" /\ status'[p] = "executed"
                       => \/ running[content[p].device] = {content[p].intended}
                          \/ \E t \in Ticks : cur[t] = p /\ at[t] = "claimed"
    <2> SUFFICES ASSUME NEW p \in Proposals,
                        status[p] = "approved", status'[p] = "executed"
                 PROVE  \/ running[content[p].device] = {content[p].intended}
                        \/ \E t \in Ticks : cur[t] = p /\ at[t] = "claimed"
      OBVIOUS
    <2> USE <1>1 DEF IInv
    <2>1. ~UNCHANGED vars
      BY DEF vars, rowVars
    <2>2. ~Outside
      BY DEF Outside, Propose, EditSot, RequestNext, ReadForDecision,
         Decide, RefuseDecision, Decisions, Exists, TypeOK, rowVars
    <2>3. PICK t \in Ticks : TickNext(t)
      BY <2>1, <2>2 DEF Next, Outside
    <2>4. p = cur[t] /\ at[t] \in Reported
      BY <2>3, TickStatus DEF TypeOK
    <2>5. QED
      BY <2>4 DEF InForce, Row
  <1>2. QED
    BY <1>1, InForceInvariant, PTL DEF Spec, RecordMatchesDevice

-----------------------------------------------------------------------------
(* The documented deployment: ticks do not overlap and each proposal is    *)
(* decided by one request.                                                 *)

OneDecision == \A q, r \in Requests : Target[q] = Target[r] => q = r

(* Nobody but its tick writes a row in hand, which therefore stays as it   *)
(* was loaded.                                                             *)
HandIsApproved == \A t \in Ticks : at[t] \in InHand => status[cur[t]] = "approved"

(* What a request read of its row still holds.                             *)
ReadIsCurrent ==
    \A r \in Requests : reqAt[r] = "read" /\ reqSeen[r] = "pending"
                            => status[Target[r]] = "pending"

SInv == IInv /\ HandIsApproved /\ ReadIsCurrent

LEMMA InitSInv == Init => SInv
  <1> SUFFICES ASSUME Init PROVE SInv
    OBVIOUS
  <1>1. IInv
    BY InitIInv
  <1>2. HandIsApproved /\ ReadIsCurrent
    BY DEF Init, HandIsApproved, ReadIsCurrent, InHand, Working
  <1>3. QED
    BY <1>1, <1>2 DEF SInv

LEMMA HandIsApprovedStep ==
    ASSUME OneTick, SInv, Next
    PROVE  HandIsApproved'
  <1> USE DEF SInv, IInv
  <1>1. ASSUME NEW t \in Ticks, TickNext(t)
        PROVE  HandIsApproved'
    <2>1. \A u \in Ticks : u = t
      BY DEF OneTick
    <2>2. at'[t] \in InHand => status'[cur'[t]] = "approved"
      BY <1>1, TickStatus DEF HandIsApproved, InHand, Working
    <2>3. QED
      BY <2>1, <2>2 DEF HandIsApproved
  <1>2. ASSUME Outside
        PROVE  HandIsApproved'
    <2>1. \A t \in Ticks : at'[t] = at[t] /\ cur'[t] = cur[t]
      BY <1>2, OutsideFrame DEF tickVars
    <2>2. ASSUME NEW p \in Proposals, status[p] = "approved"
          PROVE  status'[p] = "approved"
      BY <1>2, <2>2 DEF Outside, Propose, EditSot, RequestNext, ReadForDecision,
         Decide, RefuseDecision, ReadIsCurrent, Exists, TypeOK, rowVars
    <2>3. QED
      BY <2>1, <2>2 DEF HandIsApproved, TypeOK
  <1>3. QED
    BY <1>1, <1>2 DEF Next, Outside

LEMMA ReadIsCurrentStep ==
    ASSUME OneDecision, SInv, Next
    PROVE  ReadIsCurrent'
  <1> USE ConstantsAssumption DEF SInv, IInv
  <1>1. ASSUME NEW t \in Ticks, TickNext(t)
        PROVE  ReadIsCurrent'
    <2>1. /\ UNCHANGED <<reqAt, reqSeen>>
          /\ \/ UNCHANGED status
             \/ /\ at[t] \in Working
                /\ \A p \in Proposals \ {cur[t]} : status'[p] = status[p]
      BY <1>1, TickStatus DEF TypeOK
    <2>2. at[t] \in Working => status[cur[t]] = "approved"
      BY DEF HandIsApproved, InHand
    <2>3. QED
      BY <2>1, <2>2 DEF ReadIsCurrent
  <1>2. ASSUME NEW p \in Proposals, NEW k \in Kinds, NEW d \in Devices,
               NEW c \in Configs \cup {BadSpec}, Propose(p, k, d, c)
        PROVE  ReadIsCurrent'
    BY <1>2 DEF Propose, ReadIsCurrent, TypeOK, requestVars
  <1>3. ASSUME NEW d \in Devices, NEW c \in SotEdits, EditSot(d, c)
        PROVE  ReadIsCurrent'
    BY <1>3 DEF EditSot, ReadIsCurrent, rowVars, requestVars
  <1>4. ASSUME NEW q \in Requests, ReadForDecision(q) \/ RefuseDecision(q)
        PROVE  ReadIsCurrent'
    BY <1>4 DEF ReadForDecision, RefuseDecision, ReadIsCurrent, TypeOK, rowVars
  <1>5. ASSUME NEW q \in Requests, NEW decision \in Decisions, Decide(q, decision)
        PROVE  ReadIsCurrent'
    <2>1. \A r \in Requests \ {q} : Target[r] # Target[q]
      BY DEF OneDecision
    <2>2. QED
      BY <1>5, <2>1 DEF Decide, ReadIsCurrent, TypeOK
  <1>6. QED
    BY <1>1, <1>2, <1>3, <1>4, <1>5 DEF Next, RequestNext

LEMMA SInvStep ==
    ASSUME OneTick, OneDecision
    PROVE  SInv /\ [Next]_vars => SInv'
  <1>1. ASSUME SInv, Next
        PROVE  SInv'
    <2>1. IInv'
      BY <1>1, IInvStep DEF SInv
    <2>2. QED
      BY <1>1, <2>1, HandIsApprovedStep, ReadIsCurrentStep DEF SInv
  <1>2. ASSUME SInv, UNCHANGED vars
        PROVE  SInv'
    <2>1. IInv'
      BY <1>2, IInvStep DEF SInv
    <2>2. QED
      BY <1>2, <2>1 DEF SInv, HandIsApproved, ReadIsCurrent, vars, rowVars,
         tickVars, requestVars
  <1>3. QED
    BY <1>1, <1>2

LEMMA SerialInvariant ==
    ASSUME OneTick, OneDecision
    PROVE  Spec => []SInv
  <1>1. Init => SInv
    BY InitSInv
  <1>2. SInv /\ [Next]_vars => SInv'
    BY SInvStep
  <1>3. QED
    BY <1>1, <1>2, PTL DEF Spec

(* execute() pushes a row only while its committed status is approved.     *)
THEOREM ApprovedWhenPushed ==
    ASSUME OneTick, OneDecision
    PROVE  Spec => PushOnlyWhileApproved
  <1>1. ASSUME SInv, [Next]_vars
        PROVE  \A p \in Proposals : pushes'[p] # pushes[p] => status[p] = "approved"
    <2>1. ASSUME UNCHANGED pushes
          PROVE  \A p \in Proposals : pushes'[p] = pushes[p]
      BY <2>1
    <2>2. ASSUME NEW t \in Ticks, NEW result \in Results, Push(t, result)
          PROVE  \A p \in Proposals : pushes'[p] # pushes[p] => status[p] = "approved"
      BY <1>1, <2>2 DEF Push, SInv, HandIsApproved, InHand, Working, IInv, TypeOK
    <2>3. \/ UNCHANGED pushes
          \/ \E t \in Ticks, result \in Results : Push(t, result)
      BY <1>1, OutsideFrame DEF Next, Outside, vars, TickNext, StartTick, Load,
         EndTick, Resolve, Skip, Escape, LockRow, Render, Precheck, Record, Raise, Crash,
         Prepare, CommitStatus
    <2>4. QED
      BY <2>1, <2>2, <2>3
  <1>2. QED
    BY <1>1, SerialInvariant, PTL DEF Spec, PushOnlyWhileApproved

(* Rejected, executed, failed and stale rows are never written again.      *)
THEOREM FinalStays ==
    ASSUME OneTick, OneDecision
    PROVE  Spec => FinalRowsNeverChange
  <1>1. ASSUME SInv, [Next]_vars
        PROVE  \A p \in Proposals :
                   status[p] \in {"rejected", "executed", "failed", "stale"}
                       => /\ status'[p] = status[p]
                          /\ approvedAt'[p] = approvedAt[p]
                          /\ p \in stamped' => p \in stamped
    <2> SUFFICES ASSUME NEW p \in Proposals,
                        status[p] \in {"rejected", "executed", "failed", "stale"}
                 PROVE  /\ status'[p] = status[p]
                        /\ approvedAt'[p] = approvedAt[p]
                        /\ p \in stamped' => p \in stamped
      OBVIOUS
    <2> USE <1>1 DEF SInv, IInv
    <2>1. CASE UNCHANGED vars
      BY <2>1 DEF vars, rowVars
    <2>2. CASE Outside
      <3>1. stamped' = stamped
        BY <2>2, OutsideFrame
      <3>2. status'[p] = status[p] /\ approvedAt'[p] = approvedAt[p]
        BY <2>2, ConstantsAssumption DEF Outside, Propose, EditSot, RequestNext,
           ReadForDecision, Decide, RefuseDecision, ReadIsCurrent, Exists, TypeOK,
           rowVars
      <3>3. QED
        BY <3>1, <3>2
    <2>3. ASSUME NEW t \in Ticks, TickNext(t)
          PROVE  /\ status'[p] = status[p]
                 /\ approvedAt'[p] = approvedAt[p]
                 /\ p \in stamped' => p \in stamped
      <3>1. at[t] \in Working => p # cur[t]
        BY DEF HandIsApproved, InHand
      <3>2. status'[p] = status[p] /\ approvedAt'[p] = approvedAt[p]
        BY <2>3, <3>1, TickStatus DEF TypeOK
      <3>3. stamped' = stamped \/ (at[t] \in Working /\ stamped' = stamped \cup {cur[t]})
        BY <2>3 DEF TickNext, StartTick, Load, EndTick, Resolve, Skip, Escape, LockRow,
           Render, Precheck, Push, Record, Raise, Crash, Prepare, CommitStatus,
           rowVars, Working
      <3>4. QED
        BY <3>1, <3>2, <3>3
    <2>4. QED
      BY <2>1, <2>2, <2>3 DEF Next, Outside
  <1>2. QED
    BY <1>1, SerialInvariant, PTL DEF Spec, FinalRowsNeverChange

-----------------------------------------------------------------------------
(* The pipeline implements the lifecycle.                                  *)

Applied == {p \in Proposals : pushes[p] > 0}

LEMMA RefinesInit == Init => Promise!LifecycleInit
  BY DEF Init, Promise!LifecycleInit, Nothing, Blank

(* Authors and operators.                                                  *)
LEMMA OutsideRefines ==
    ASSUME SInv, Outside
    PROVE  [Promise!LifecycleNext]_(Promise!lifecycleVars)
  <1> USE ConstantsAssumption DEF SInv, IInv
  <1>1. ASSUME UNCHANGED <<status, content, running, pushes>>
        PROVE  UNCHANGED Promise!lifecycleVars
    BY <1>1 DEF Promise!lifecycleVars
  <1>2. ASSUME NEW p \in Proposals, NEW k \in Kinds, NEW d \in Devices,
               NEW c \in Configs \cup {BadSpec}, Propose(p, k, d, c)
        PROVE  Promise!LifecycleNext
    <2>1. [kind |-> k, device |-> d, intended |-> c] \in Promise!Contents
      BY DEF Promise!Contents
    <2>2. Promise!Author(p)
      BY <1>2, <2>1 DEF Propose, Exists, Promise!Author
    <2>3. QED
      BY <2>2 DEF Promise!LifecycleNext
  <1>3. ASSUME NEW d \in Devices, NEW c \in SotEdits, EditSot(d, c)
        PROVE  UNCHANGED Promise!lifecycleVars
    BY <1>1, <1>3 DEF EditSot, rowVars
  <1>4. ASSUME NEW r \in Requests, ReadForDecision(r) \/ RefuseDecision(r)
        PROVE  UNCHANGED Promise!lifecycleVars
    BY <1>1, <1>4 DEF ReadForDecision, RefuseDecision, rowVars
  <1>5. ASSUME NEW r \in Requests, NEW decision \in Decisions, Decide(r, decision)
        PROVE  Promise!LifecycleNext
    <2>1. status[Target[r]] = "pending" /\ Target[r] \in Proposals
      BY <1>5 DEF Decide, ReadIsCurrent
    <2>2. Promise!Resolution(Target[r], decision)
      BY <1>5, <2>1 DEF Decide, Promise!Resolution
    <2>3. QED
      BY <2>1, <2>2 DEF Promise!LifecycleNext, Decisions
  <1>6. QED
    BY <1>2, <1>3, <1>4, <1>5 DEF Outside, RequestNext

LEMMA ApplyIsNext ==
    ASSUME NEW p \in Proposals, Promise!Apply(p)
    PROVE  Promise!LifecycleNext
  BY DEF Promise!LifecycleNext

(* A tick pushes (Apply), commits an outcome (Finish), or does nothing the *)
(* lifecycle sees.                                                         *)
LEMMA TickRefines ==
    ASSUME SInv, NEW t \in Ticks, TickNext(t)
    PROVE  [Promise!LifecycleNext]_(Promise!lifecycleVars)
  <1> USE DEF SInv, IInv
  <1> DEFINE p == cur[t]
  <1>0. p \in Proposals
    BY DEF TypeOK
  <1>1. ASSUME NEW result \in Results, Push(t, result)
        PROVE  Promise!LifecycleNext
    <2>1. /\ status[p] = "approved"
          /\ fresh[t] = content[p].intended
      BY <1>1 DEF Push, HandIsApproved, InHand, Working, PreparedIsReviewed,
         HasPrepared
    <2>2. \A q \in Proposals : pushes'[q] = IF q = p THEN pushes[q] + 1 ELSE pushes[q]
      BY <1>1 DEF Push, TypeOK
    <2>3. Applied' = Applied \cup {p}
      BY <1>0, <2>2 DEF Applied, TypeOK
    <2>4. ASSUME NEW q \in Proposals, q = p
          PROVE  Promise!LifecycleNext
      <3>1. Promise!Apply(q)
        BY <1>1, <2>1, <2>3, <2>4 DEF Push, Row, rowVars, Applied, Promise!Apply
      <3>2. QED
        BY <3>1, ApplyIsNext
    <2>5. QED
      BY <1>0, <2>4
  <1>2. ASSUME ~\E result \in Results : Push(t, result)
        PROVE  [Promise!LifecycleNext]_(Promise!lifecycleVars)
    <2>1. UNCHANGED <<content, running, pushes>>
      BY <1>2 DEF TickNext, StartTick, Load, EndTick, Resolve, Skip, Escape, LockRow,
         Render, Precheck, Record, Raise, Crash, Prepare, CommitStatus, rowVars
    <2>2. CASE UNCHANGED status
      BY <2>1, <2>2 DEF Promise!lifecycleVars
    <2>3. CASE ~UNCHANGED status
      <3>1. PICK outcome \in {"executed", "failed", "stale"} :
                /\ at[t] \in Working
                /\ status' = [status EXCEPT ![p] = outcome]
                /\ outcome = "executed" => at[t] \in Reported
        BY <2>3, TickStatus
      <3>2. status[p] = "approved"
        BY <3>1 DEF HandIsApproved, InHand
      <3>3. outcome = "executed" => p \in Applied
        BY <1>0, <3>1 DEF PushedBeforeRecorded, Applied
      <3>4. Promise!Finish(p, outcome)
        BY <2>1, <3>1, <3>2, <3>3 DEF Applied, Promise!Finish
      <3>5. QED
        BY <1>0, <3>4 DEF Promise!LifecycleNext
    <2>4. QED
      BY <2>2, <2>3
  <1>3. QED
    BY <1>1, <1>2

(* Ticks, sessions and locks bring about the lifecycle of docs/02: every   *)
(* step of the pipeline is one of its steps, or none that it sees.         *)
THEOREM Implements ==
    ASSUME OneTick, OneDecision
    PROVE  Spec => ImplementsLifecycle
  <1>1. Init => Promise!LifecycleInit
    BY RefinesInit
  <1>2. SInv /\ [Next]_vars => [Promise!LifecycleNext]_(Promise!lifecycleVars)
    <2>1. ASSUME UNCHANGED vars
          PROVE  UNCHANGED Promise!lifecycleVars
      BY <2>1 DEF vars, rowVars, Promise!lifecycleVars
    <2>2. QED
      BY <2>1, OutsideRefines, TickRefines DEF Next, Outside
  <1>3. QED
    BY <1>1, <1>2, SerialInvariant, PTL DEF Spec, ImplementsLifecycle, Promise!Lifecycle
=============================================================================
