-------------------------- MODULE DevicePushProofs --------------------------
(* Theorems about DevicePush, for any pushes, items and files.             *)
EXTENDS DevicePush, TLAPS

USE PushAssumption

LEMMA AuthorsDef ==
    ASSUME NEW c \in Configs, NEW p \in Pushes
    PROVE  p \in Authors(c) <=> \E i \in Items : c[i] = p
  BY DEF Authors, Range, Configs

LEMMA AuthorsType == \A c : Authors(c) \subseteq Pushes
  BY DEF Authors

LEMMA OverType ==
    ASSUME NEW p \in Pushes, NEW S, NEW c \in Configs
    PROVE  Over(p, S, c) \in Configs
  BY DEF Over, Configs, Values

LEMMA GoToType ==
    ASSUME TypeOK, NEW p \in Pushes, NEW s \in Steps, GoTo(p, s)
    PROVE  at' \in [Pushes -> Steps] /\ result' = result
  BY DEF GoTo, TypeOK

LEMMA EndType ==
    ASSUME TypeOK, NEW p \in Pushes,
           NEW r \in {"success", "failed", "rolled_back"}, End(p, r)
    PROVE  /\ at' \in [Pushes -> Steps]
           /\ result' \in [Pushes -> {"none", "success", "failed", "rolled_back"}]
  BY DEF End, TypeOK, Steps

LEMMA RaiseType ==
    ASSUME TypeOK, NEW p \in Pushes, Raise(p)
    PROVE  /\ at' \in [Pushes -> Steps]
           /\ result' \in [Pushes -> {"none", "success", "failed", "rolled_back"}]
<1>1. "restoring" \in Steps
  BY DEF Steps
<1> QED
  BY <1>1, GoToType, EndType DEF Raise, TypeOK

LEMMA AnsweredType ==
    ASSUME TypeOK, NEW p \in Pushes, NEW s \in Steps, Answered(p, s)
    PROVE  /\ at' \in [Pushes -> Steps]
           /\ result' \in [Pushes -> {"none", "success", "failed", "rolled_back"}]
  BY GoToType, RaiseType DEF Answered, TypeOK

LEMMA DisturbsType ==
    ASSUME TypeOK, NEW p \in Pushes, Disturbs(p)
    PROVE  disturbed' \subseteq Pushes
  BY DEF Disturbs, Active, TypeOK

LEMMA TypeInit == Init => TypeOK
<1> SUFFICES ASSUME Init
             PROVE  TypeOK
  OBVIOUS
<1>1. Factory \in Configs
  BY DEF Factory, Configs, Values
<1>2. [i \in Items |-> Missing] \in Configs
  BY DEF Configs, Values
<1> QED
  BY <1>1, <1>2 DEF Init, TypeOK, Steps, Flows

LEMMA NetconfType ==
    ASSUME TypeOK, NEW p \in Pushes,
           \/ EditConfig(p) \/ CommitConfirmed(p) \/ CommitRefused(p)
           \/ Confirm(p) \/ ConfirmRefused(p)
    PROVE  TypeOK'
<1>1. Committed(p) \in Configs
  BY OverType DEF Committed, TypeOK
<1>2. {"edited", "settling", "unsettled"} \subseteq Steps
  BY DEF Steps
<1>3. CASE EditConfig(p)
  <2>1. /\ todo' \in [Pushes -> SUBSET Items]
        /\ refused' \in [Pushes -> SUBSET Items]
    BY <1>3 DEF EditConfig, TypeOK
  <2>2. candidate' \in Configs
    BY <1>3, OverType DEF EditConfig, TypeOK
  <2> QED
    BY <1>2, <1>3, <2>1, <2>2, AnsweredType, DisturbsType
    DEF EditConfig, TypeOK, remoteVars
<1>4. CASE CommitConfirmed(p)
  <2>1. /\ running' \in Configs /\ fallback' \in Configs
        /\ todo' \in [Pushes -> SUBSET Items]
    BY <1>1, <1>4 DEF CommitConfirmed, TypeOK
  <2>2. kept' \subseteq Pushes
    BY <1>4, AuthorsType DEF CommitConfirmed, TypeOK
  <2> QED
    BY <1>2, <1>4, <2>1, <2>2, AnsweredType, DisturbsType
    DEF CommitConfirmed, TypeOK, remoteVars
<1>5. CASE Confirm(p)
  <2>1. running' \in Configs /\ todo' \in [Pushes -> SUBSET Items]
    BY <1>1, <1>5 DEF Confirm, TypeOK
  <2>2. kept' \subseteq Pushes
    BY <1>5, AuthorsType DEF Confirm, TypeOK
  <2> QED
    BY <1>5, <2>1, <2>2, EndType, RaiseType, DisturbsType
    DEF Confirm, TypeOK, remoteVars
<1>6. CASE CommitRefused(p)
  BY <1>2, <1>6, GoToType
  DEF CommitRefused, TypeOK, remoteVars, deviceVars, ghostVars
<1>7. CASE ConfirmRefused(p)
  BY <1>7, EndType DEF ConfirmRefused, TypeOK, remoteVars, deviceVars
<1> QED
  BY <1>3, <1>4, <1>5, <1>6, <1>7

LEMMA SendingType ==
    ASSUME TypeOK, NEW p \in Pushes,
           \/ Snapshot(p) \/ AllSent(p) \/ SaveStartup(p) \/ SaveRefused(p)
           \/ Restore(p)
           \/ \E i \in Items : Send(p, i) \/ Refuse(p, i)
    PROVE  TypeOK'
<1>1. {"sending", "storing"} \subseteq Steps
  BY DEF Steps
<1>2. CASE Snapshot(p)
  <2>1. archive' \in [Pushes -> Configs]
    BY <1>2 DEF Snapshot, TypeOK, Configs, Values
  <2> QED
    BY <1>1, <1>2, <2>1, AnsweredType
    DEF Snapshot, TypeOK, remoteVars, deviceVars, ghostVars
<1>3. CASE AllSent(p)
  BY <1>1, <1>3, GoToType, EndType
  DEF AllSent, TypeOK, remoteVars, deviceVars, ghostVars
<1>4. CASE SaveStartup(p)
  BY <1>4, EndType, RaiseType DEF SaveStartup, TypeOK, remoteVars, ghostVars
<1>5. CASE Restore(p)
  <2>1. running' \in Configs
    BY <1>5 DEF Restore, TypeOK, Configs
  <2> QED
    BY <1>5, <2>1, EndType, DisturbsType DEF Restore, TypeOK, remoteVars
<1>6. ASSUME NEW i \in Items, Send(p, i)
      PROVE  TypeOK'
  <2>1. running' \in Configs
    BY <1>6 DEF Send, TypeOK, Configs, Values
  <2>2. todo' \in [Pushes -> SUBSET Items]
    BY <1>6 DEF Send, Sent, TypeOK
  <2> QED
    BY <1>1, <1>6, <2>1, <2>2, GoToType, RaiseType, DisturbsType
    DEF Send, TypeOK, remoteVars
<1>7. ASSUME NEW i \in Items, Refuse(p, i)
      PROVE  TypeOK'
  BY <1>7 DEF Refuse, Sent, TypeOK, remoteVars, deviceVars
<1>8. CASE SaveRefused(p)
  BY <1>8, EndType DEF SaveRefused, TypeOK, remoteVars, deviceVars
<1> QED
  BY <1>2, <1>3, <1>4, <1>5, <1>6, <1>7, <1>8

LEMMA RemoteType ==
    ASSUME TypeOK, NEW p \in Pushes,
           \/ Stage(p) \/ StartDeploy(p) \/ Approve(p)
           \/ DeployEndedBadly(p) \/ DeployCompleted(p) \/ DeployRuns(p)
           \/ ApplyResources(p) \/ ApplyPowerJob(p) \/ WatchJob(p)
           \/ WatchWorkflow(p)
    PROVE  TypeOK'
<1>1. {"starting", "gate", "polling", "powering", "watching"} \subseteq Steps
  BY DEF Steps
<1>2. Over(p, Touches[p], candidate) \in Configs
  BY OverType DEF TypeOK
<1>3. \A f \in Flows : Applied(f) \in Flows
  BY DEF Applied, Flows
<1>4. CASE Stage(p)
  BY <1>1, <1>2, <1>4, AnsweredType, DisturbsType
  DEF Stage, TypeOK, remoteVars
<1>5. CASE StartDeploy(p)
  BY <1>1, <1>5, AnsweredType
  DEF StartDeploy, TypeOK, Flows, deviceVars, ghostVars
<1>6. CASE Approve(p)
  BY <1>1, <1>6, AnsweredType DEF Approve, TypeOK, Flows, deviceVars, ghostVars
<1>7. CASE DeployEndedBadly(p) \/ DeployCompleted(p)
  BY <1>7, EndType
  DEF DeployEndedBadly, DeployCompleted, TypeOK, remoteVars, deviceVars, ghostVars
<1>8. CASE DeployRuns(p)
  <2>1. flow' \in [Pushes -> Flows]
    BY <1>8 DEF DeployRuns, TypeOK, Flows
  <2> QED
    BY <1>8, <2>1, DisturbsType DEF DeployRuns, TypeOK
<1>9. CASE ApplyResources(p)
  BY <1>1, <1>2, <1>3, <1>9, AnsweredType, RaiseType, DisturbsType
  DEF ApplyResources, TypeOK
<1>10. CASE ApplyPowerJob(p)
  BY <1>1, <1>3, <1>10, AnsweredType
  DEF ApplyPowerJob, TypeOK, deviceVars, ghostVars
<1>11. CASE WatchJob(p)
  BY <1>1, <1>11, GoToType, EndType
  DEF WatchJob, TypeOK, remoteVars, deviceVars, ghostVars
<1>12. CASE WatchWorkflow(p)
  BY <1>12, EndType
  DEF WatchWorkflow, TypeOK, remoteVars, deviceVars, ghostVars
<1> QED
  BY <1>4, <1>5, <1>6, <1>7, <1>8, <1>9, <1>10, <1>11, <1>12

LEMMA TypeStep == TypeOK /\ [Next]_vars => TypeOK'
<1> SUFFICES ASSUME TypeOK, [Next]_vars
             PROVE  TypeOK'
  OBVIOUS
<1>1. CASE UNCHANGED vars
  BY <1>1 DEF vars, remoteVars, deviceVars, ghostVars, TypeOK
<1>2. ASSUME NEW p \in Pushes, Step(p)
      PROVE  TypeOK'
  <2>1. CASE Open(p)
    <3>1. {"open", "saving", "staging", "filing", "sending"} \subseteq Steps
      BY DEF Steps
    <3> QED
      BY <2>1, <3>1, GoToType
      DEF Open, TypeOK, remoteVars, deviceVars, ghostVars
  <2>2. CASE CallFails(p)
    BY <2>2, RaiseType
    DEF CallFails, TypeOK, remoteVars, deviceVars, ghostVars
  <2>3. CASE Crash(p)
    BY <2>3 DEF Crash, TypeOK, Steps, remoteVars, deviceVars, ghostVars
  <2> QED
    BY <1>2, <2>1, <2>2, <2>3, NetconfType, SendingType, RemoteType DEF Step
<1>3. CASE Expire
  BY <1>3 DEF Expire, Active, TypeOK, remoteVars
<1>4. CASE Reload
  BY <1>4 DEF Reload, Active, TypeOK, remoteVars
<1>5. CASE HostRuns
  BY <1>5 DEF HostRuns, Active, TypeOK, Flows
<1> QED
  BY <1>1, <1>2, <1>3, <1>4, <1>5 DEF Next

(* Types of every variable, for every device and any number of pushes.     *)
THEOREM PushTypes == Spec => []TypeOK
<1>1. Init => TypeOK
  BY TypeInit
<1>2. TypeOK /\ [Next]_vars => TypeOK'
  BY TypeStep
<1> QED
  BY <1>1, <1>2, PTL DEF Spec

-----------------------------------------------------------------------------
(* Each adapter takes its own steps only, a push that has a result is      *)
(* over, and timers, workflows and jobs exist for their adapters only.     *)
OnCourse(p) ==
    /\ result[p] # "none" => at[p] = "done"
    /\ at[p] \in {"open", "edited", "settling", "unsettled"} => kind \in Netconf
    /\ at[p] \in {"saving", "restoring"} => kind = "linux_ssh"
    /\ at[p] = "sending" => kind \in {"eos", "linux_ssh", "redfish"}
    /\ at[p] = "storing" => kind = "eos"
    /\ at[p] \in {"staging", "starting", "gate"} => kind = "config_manager"
    /\ at[p] \in {"filing", "powering", "watching"} => kind = "tinkerbell"
    /\ at[p] = "polling" => kind \in Remote
    /\ flow[p] # "absent" => kind = "config_manager"

Courses ==
    /\ \A p \in Pushes : OnCourse(p)
    /\ window => kind \in Netconf
    /\ job # "absent" \/ imaging # "absent" => kind = "tinkerbell"

LEMMA CoursesInit == Init => Courses
  BY DEF Init, Courses, OnCourse

(* What a call of p does to the executor's own variables.                  *)
LEMMA GoToFrame ==
    ASSUME TypeOK, NEW p \in Pushes, NEW s, GoTo(p, s)
    PROVE  /\ at'[p] = s
           /\ \A q \in Pushes \ {p} : at'[q] = at[q]
           /\ result' = result
  BY DEF GoTo, TypeOK

LEMMA EndFrame ==
    ASSUME TypeOK, NEW p \in Pushes, NEW r, End(p, r)
    PROVE  /\ at'[p] = "done"
           /\ result'[p] = r
           /\ \A q \in Pushes \ {p} : at'[q] = at[q] /\ result'[q] = result[q]
  BY DEF End, TypeOK

LEMMA RaiseFrame ==
    ASSUME TypeOK, NEW p \in Pushes, Raise(p)
    PROVE  /\ kind = "linux_ssh" => at'[p] = "restoring" /\ result' = result
           /\ kind # "linux_ssh" => at'[p] = "done" /\ result'[p] = "failed"
           /\ \A q \in Pushes \ {p} : at'[q] = at[q] /\ result'[q] = result[q]
  BY GoToFrame, EndFrame DEF Raise

LEMMA CoursesStep == TypeOK /\ Courses /\ [Next]_vars => Courses'
<1> SUFFICES ASSUME TypeOK, Courses, [Next]_vars
             PROVE  Courses'
  OBVIOUS
<1> USE DEF Courses, OnCourse, Netconf, Remote
<1>1. CASE UNCHANGED vars
  BY <1>1 DEF vars, remoteVars, deviceVars
<1>2. ASSUME NEW p \in Pushes, Step(p)
      PROVE  Courses'
  <2> USE GoToFrame, EndFrame, RaiseFrame
  <2>1. CASE Open(p)
    BY <2>1 DEF Open, remoteVars, deviceVars, TypeOK, Kinds
  <2>2. CASE CallFails(p)
    BY <2>2 DEF CallFails, Active, remoteVars, deviceVars
  <2>3. CASE Crash(p)
    BY <2>3 DEF Crash, remoteVars, deviceVars, TypeOK
  <2>4. CASE EditConfig(p)
    BY <2>4 DEF EditConfig, Answered, remoteVars
  <2>5. CASE CommitConfirmed(p) \/ CommitRefused(p)
    BY <2>5 DEF CommitConfirmed, CommitRefused, Answered, remoteVars, deviceVars
  <2>6. CASE Confirm(p) \/ ConfirmRefused(p)
    BY <2>6 DEF Confirm, ConfirmRefused, remoteVars, deviceVars
  <2>7. CASE Snapshot(p)
    BY <2>7 DEF Snapshot, Answered, remoteVars, deviceVars
  <2>8. CASE Restore(p)
    BY <2>8 DEF Restore, remoteVars
  <2>9. ASSUME NEW i \in Items, Send(p, i)
        PROVE  Courses'
    BY <2>9 DEF Send, remoteVars
  <2>10. ASSUME NEW i \in Items, Refuse(p, i)
         PROVE  Courses'
    BY <2>10 DEF Refuse, remoteVars, deviceVars
  <2>11. CASE AllSent(p)
    BY <2>11 DEF AllSent, remoteVars, deviceVars
  <2>12. CASE SaveStartup(p) \/ SaveRefused(p)
    BY <2>12 DEF SaveStartup, SaveRefused, remoteVars, deviceVars
  <2>13. CASE Stage(p)
    BY <2>13 DEF Stage, Answered, remoteVars
  <2>14. CASE StartDeploy(p)
    BY <2>14 DEF StartDeploy, Answered, deviceVars, TypeOK
  <2>15. CASE Approve(p)
    BY <2>15 DEF Approve, Answered, deviceVars, TypeOK
  <2>16. CASE DeployEndedBadly(p)
    BY <2>16 DEF DeployEndedBadly, remoteVars, deviceVars
  <2>17. CASE DeployCompleted(p)
    BY <2>17 DEF DeployCompleted, remoteVars, deviceVars
  <2>18. CASE DeployRuns(p)
    BY <2>18 DEF DeployRuns, TypeOK
  <2>19. CASE ApplyResources(p)
    BY <2>19 DEF ApplyResources, Answered
  <2>20. CASE ApplyPowerJob(p)
    BY <2>20 DEF ApplyPowerJob, Answered, deviceVars
  <2>21. CASE WatchJob(p)
    BY <2>21 DEF WatchJob, remoteVars, deviceVars
  <2>22. CASE WatchWorkflow(p)
    BY <2>22 DEF WatchWorkflow, remoteVars, deviceVars
  <2> QED
    BY <1>2, <2>1, <2>2, <2>3, <2>4, <2>5, <2>6, <2>7, <2>8, <2>9, <2>10,
       <2>11, <2>12, <2>13, <2>14, <2>15, <2>16, <2>17, <2>18, <2>19, <2>20,
       <2>21, <2>22 DEF Step
<1>3. CASE Expire
  BY <1>3 DEF Expire, remoteVars
<1>4. CASE Reload
  BY <1>4 DEF Reload, remoteVars
<1>5. CASE HostRuns
  BY <1>5 DEF HostRuns
<1> QED
  BY <1>1, <1>2, <1>3, <1>4, <1>5 DEF Next

-----------------------------------------------------------------------------
LEMMA SurvivorInit == Init => NoSilentSurvivor
<1>1. Init => Authors(running) = {}
  BY DEF Init, Factory, Authors, Range
<1> QED
  BY <1>1 DEF Init, NoSilentSurvivor

(* Only the two commits and the timer change what a NETCONF device runs or *)
(* would fall back to.                                                     *)
LEMMA SurvivorStep ==
    TypeOK /\ Courses /\ NoSilentSurvivor /\ [Next]_vars => NoSilentSurvivor'
<1> SUFFICES ASSUME TypeOK, Courses, NoSilentSurvivor, [Next]_vars
             PROVE  NoSilentSurvivor'
  OBVIOUS
<1>1. kind' = kind
  BY DEF Next, Step, vars, Open, CallFails, Crash, EditConfig, CommitConfirmed,
         CommitRefused, Confirm, ConfirmRefused, Snapshot, Restore, Send,
         Refuse, AllSent, SaveStartup, SaveRefused, Stage,
         StartDeploy, Approve, DeployEndedBadly, DeployCompleted, DeployRuns,
         ApplyResources, ApplyPowerJob, WatchJob, WatchWorkflow, Expire,
         Reload, HostRuns
<1>2. SUFFICES ASSUME kind \in Netconf
               PROVE  NoSilentSurvivor'
  BY <1>1 DEF NoSilentSurvivor
<1>3. ASSUME UNCHANGED <<running, window, fallback, kept>>
      PROVE  NoSilentSurvivor'
  BY <1>1, <1>3 DEF NoSilentSurvivor, Authors, Range
<1>4. CASE UNCHANGED vars
  BY <1>3, <1>4 DEF vars, deviceVars, ghostVars
<1>5. ASSUME NEW p \in Pushes, Step(p)
      PROVE  NoSilentSurvivor'
  <2>1. CASE CommitConfirmed(p)
    BY <1>1, <2>1 DEF CommitConfirmed, NoSilentSurvivor, Authors, Range
  <2>2. CASE Confirm(p)
    BY <1>1, <2>2 DEF Confirm, NoSilentSurvivor, Authors, Range
  <2>3. CASE EditConfig(p)
    BY <1>3, <2>3 DEF EditConfig
  <2>4. CASE \/ Open(p) \/ CallFails(p) \/ Crash(p)
             \/ CommitRefused(p) \/ ConfirmRefused(p)
    BY <1>3, <2>4 DEF Open, CallFails, Crash, CommitRefused, ConfirmRefused,
                      deviceVars, ghostVars
  <2>5. CASE \/ Snapshot(p) \/ Restore(p) \/ AllSent(p) \/ SaveStartup(p)
             \/ SaveRefused(p) \/ \E i \in Items : Send(p, i) \/ Refuse(p, i)
    BY <1>2, <2>5 DEF Snapshot, Restore, AllSent, SaveStartup, SaveRefused, Send, Refuse,
                      Courses, OnCourse, Netconf
  <2>6. CASE \/ Stage(p) \/ StartDeploy(p) \/ Approve(p) \/ DeployRuns(p)
             \/ DeployEndedBadly(p) \/ DeployCompleted(p)
    BY <1>2, <2>6 DEF Stage, StartDeploy, Approve, DeployRuns, DeployEndedBadly,
                      DeployCompleted, Courses, OnCourse, Netconf, Remote
  <2>7. CASE \/ ApplyResources(p) \/ ApplyPowerJob(p) \/ WatchJob(p)
             \/ WatchWorkflow(p)
    BY <1>2, <2>7 DEF ApplyResources, ApplyPowerJob, WatchJob, WatchWorkflow,
                      Courses, OnCourse, Netconf
  <2> QED
    BY <1>5, <2>1, <2>2, <2>3, <2>4, <2>5, <2>6, <2>7 DEF Step
<1>6. CASE Expire
  BY <1>1, <1>6 DEF Expire, NoSilentSurvivor, Authors, Range
<1>7. CASE Reload
  BY <1>2, <1>7 DEF Reload, Netconf
<1>8. CASE HostRuns
  BY <1>2, <1>8 DEF HostRuns, Courses, Netconf
<1> QED
  BY <1>4, <1>5, <1>6, <1>7, <1>8 DEF Next

PushInv == TypeOK /\ Courses /\ NoSilentSurvivor

LEMMA PushInvariant == Spec => []PushInv
<1>1. Init => PushInv
  BY TypeInit, CoursesInit, SurvivorInit DEF PushInv
<1>2. PushInv /\ [Next]_vars => PushInv'
  BY TypeStep, CoursesStep, SurvivorStep DEF PushInv
<1> QED
  BY <1>1, <1>2, PTL DEF Spec

(* No unconfirmed change outlives its rollback timer on a NETCONF device,  *)
(* for any number of pushes.                                               *)
THEOREM NoSurvivor == Spec => []NoSilentSurvivor
  BY PushInvariant, PTL DEF PushInv

-----------------------------------------------------------------------------
LEMMA LeftoversStep ==
    ASSUME PushInv, [Next]_vars, NEW p \in Pushes
    PROVE  ComesFromLeftovers(p)
<1> SUFFICES ASSUME result[p] \in {"failed", "rolled_back"},
                    p \notin Authors(running),
                    p \in Authors(running')
             PROVE  \/ kind = "junos" /\ \E q \in Pushes : at[q] # at'[q]
                    \/ window /\ p \in Authors(fallback) \cap kept
                    \/ kind = "linux_ssh" /\ \E q \in Pushes :
                           at[q] = "restoring" /\ p \in Authors(archive[q])
                    \/ kind = "eos" /\ p \in Authors(startup)
                    \/ kind = "config_manager" /\ \E q \in Pushes :
                           flow[q] = "applying" /\ flow'[q] = "completed"
                    \/ kind = "tinkerbell" /\ imaging = "started"
  BY DEF ComesFromLeftovers
<1>1. TypeOK /\ Courses /\ NoSilentSurvivor
  BY DEF PushInv
<1>2. at[p] = "done"
  BY <1>1 DEF Courses, OnCourse
<1>3. running # running'
  BY DEF Authors, Range
<1>4. PICK i \in Items : running'[i] = p /\ running[i] # p
  <2>1. running \in Configs /\ running' \in Configs
    BY <1>1, TypeStep DEF TypeOK
  <2> QED
    BY <2>1, AuthorsDef
<1>5. ASSUME NEW q \in Pushes, Step(q)
      PROVE  \/ kind = "junos" /\ at[q] # at'[q]
             \/ kind = "linux_ssh" /\ at[q] = "restoring"
                   /\ p \in Authors(archive[q])
             \/ kind = "config_manager" /\ flow[q] = "applying"
                   /\ flow'[q] = "completed"
  <2>1. CASE CommitConfirmed(q)
    <3>1. at'[q] # "edited" /\ at[q] = "edited" /\ kind \in Netconf
      BY <1>1, <2>1, GoToFrame, RaiseFrame
      DEF CommitConfirmed, Answered, Courses, OnCourse, Netconf
    <3>2. ASSUME kind # "junos"
          PROVE  FALSE
      BY <1>2, <1>4, <2>1, <3>1, <3>2 DEF CommitConfirmed, Committed, Over
    <3> QED
      BY <3>1, <3>2
  <2>2. CASE Confirm(q)
    <3>1. at'[q] = "done" /\ at[q] # "done" /\ kind \in Netconf
      BY <1>1, <2>2, EndFrame, RaiseFrame
      DEF Confirm, Courses, OnCourse, Netconf
    <3>2. ASSUME kind # "junos"
          PROVE  FALSE
      BY <1>2, <1>4, <2>2, <3>1, <3>2 DEF Confirm, Committed, Over
    <3> QED
      BY <3>1, <3>2
  <2>3. CASE Restore(q)
    <3>1. kind = "linux_ssh" /\ at[q] = "restoring"
      BY <1>1, <2>3 DEF Restore, Courses, OnCourse
    <3>2. archive[q][i] = p
      BY <1>3, <1>4, <2>3 DEF Restore
    <3>3. p \in Authors(archive[q])
      BY <1>1, <3>2, AuthorsDef DEF TypeOK
    <3> QED
      BY <3>1, <3>3
  <2>4. ASSUME NEW j \in Items, Send(q, j)
        PROVE  FALSE
    BY <1>1, <1>2, <1>4, <2>4 DEF Send, TypeOK, Configs
  <2>5. CASE DeployRuns(q)
    BY <1>1, <1>3, <2>5 DEF DeployRuns, TypeOK, Courses, OnCourse
  <2>6. CASE \/ Open(q) \/ CallFails(q) \/ Crash(q) \/ EditConfig(q)
             \/ CommitRefused(q) \/ ConfirmRefused(q) \/ Snapshot(q)
             \/ AllSent(q) \/ SaveStartup(q) \/ SaveRefused(q)
             \/ \E j \in Items : Refuse(q, j)
    BY <1>3, <2>6 DEF Open, CallFails, Crash, EditConfig, CommitRefused,
                      ConfirmRefused, Snapshot, AllSent, SaveStartup,
                      SaveRefused, Refuse, deviceVars
  <2>7. CASE \/ Stage(q) \/ StartDeploy(q) \/ Approve(q)
             \/ DeployEndedBadly(q) \/ DeployCompleted(q)
             \/ ApplyResources(q) \/ ApplyPowerJob(q) \/ WatchJob(q)
             \/ WatchWorkflow(q)
    BY <1>3, <2>7 DEF Stage, StartDeploy, Approve, DeployEndedBadly,
                      DeployCompleted, ApplyResources, ApplyPowerJob, WatchJob,
                      WatchWorkflow, deviceVars
  <2> QED
    BY <1>5, <2>1, <2>2, <2>3, <2>4, <2>5, <2>6, <2>7 DEF Step
<1>6. CASE Expire
  <2>1. window /\ running' = fallback /\ kind \in Netconf
    BY <1>1, <1>6 DEF Expire, Courses
  <2>2. p \in Authors(fallback)
    BY <2>1
  <2> QED
    BY <1>1, <2>1, <2>2 DEF NoSilentSurvivor
<1>7. CASE Reload
  BY <1>7 DEF Reload
<1>8. CASE HostRuns
  BY <1>1, <1>3, <1>8 DEF HostRuns, Courses
<1>9. CASE UNCHANGED vars
  BY <1>3, <1>9 DEF vars, deviceVars
<1> QED
  BY <1>5, <1>6, <1>7, <1>8, <1>9 DEF Next

(* A failed push changes the device later only by what it left behind.     *)
THEOREM FailureFinal == Spec => FailureIsFinal
<1>1. PushInv /\ [Next]_vars => \A p \in Pushes : ComesFromLeftovers(p)
  BY LeftoversStep
<1> QED
  BY <1>1, PushInvariant, PTL DEF Spec, FailureIsFinal

-----------------------------------------------------------------------------
(* How far the change of p is, on a device that nothing else has touched   *)
(* since p opened it: what is sent and not refused is on the device, what  *)
(* is to be committed or deployed and was not refused is staged.           *)
Alone(p) == \A q \in Pushes \ {p} : at[q] = "ready"

Staged(p)    == \A i \in Touches[p] \ refused[p] : candidate[i] = p
Installed(p) == \A i \in Touches[p] \ refused[p] : running[i] = p

Bookkeeping(p) ==
    /\ at[p] \in {"ready", "saving"} => todo[p] = Touches[p]
    /\ at[p] = "storing" => todo[p] = {}
    /\ refused[p] # {} => kind \in Deaf
    /\ flow[p] # "absent" => at[p] \in {"gate", "polling", "done"}
    /\ at[p] \in {"edited", "unsettled"} => todo[p] = Touches[p] \ refused[p]
    /\ at[p] = "settling" => todo[p] = {}

Undisturbed(p) ==
    /\ at[p] \in {"sending", "storing"} =>
          \A i \in Touches[p] \ (todo[p] \cup refused[p]) : running[i] = p
    /\ at[p] \in {"edited", "settling", "unsettled"} /\ kind = "junos" => Staged(p)
    /\ at[p] = "settling" => Installed(p)
    /\ at[p] \in {"starting", "gate", "polling"} /\ kind = "config_manager" =>
          /\ Staged(p)
          /\ flow[p] = "completed" => Installed(p)

(* The host of a first provisioning.                                       *)
FirstOfHost(p) ==
    /\ at[p] \in {"ready", "filing"} => imaging = "absent" /\ job = "absent"
    /\ at[p] \in {"powering", "polling", "watching"} =>
          Staged(p) /\ (imaging = "completed" => Installed(p))
    /\ at[p] = "powering" => imaging = "started" /\ job = "absent"

Progress(p) ==
    /\ Bookkeeping(p)
    /\ p \notin disturbed => Undisturbed(p)
    /\ p \notin disturbed /\ kind = "tinkerbell" /\ Alone(p) => FirstOfHost(p)

Progresses == \A p \in Pushes : Progress(p)

LEMMA ProgressInit == Init => Progresses
  BY DEF Init, Progresses, Progress, Bookkeeping, Undisturbed, FirstOfHost

LEMMA ProgressStep == PushInv /\ Progresses /\ [Next]_vars => Progresses'
<1> SUFFICES ASSUME PushInv, Progresses, [Next]_vars, NEW p \in Pushes
             PROVE  Progress(p)'
  BY DEF Progresses
<1>0. TypeOK /\ (\A q \in Pushes : OnCourse(q) /\ Progress(q))
  BY DEF PushInv, Courses, Progresses
<1> USE DEF Progress, Bookkeeping, Undisturbed, FirstOfHost, Staged, Installed,
            Alone, OnCourse, Netconf, Remote, Deaf
<1>1. CASE UNCHANGED vars
  BY <1>0, <1>1 DEF vars, remoteVars, deviceVars, ghostVars
<1>2. ASSUME NEW q \in Pushes, Step(q)
      PROVE  Progress(p)'
  <2> USE <1>0, GoToFrame, EndFrame, RaiseFrame
  <2>1. CASE Open(q)
    BY <2>1 DEF Open, remoteVars, deviceVars, ghostVars, TypeOK, Kinds
  <2>2. CASE CallFails(q)
    BY <2>2 DEF CallFails, Active, remoteVars, deviceVars, ghostVars
  <2>3. CASE Crash(q)
    BY <2>3 DEF Crash, remoteVars, deviceVars, ghostVars, TypeOK
  <2>4. CASE EditConfig(q)
    BY <2>4 DEF EditConfig, Answered, Disturbs, Active, Over, remoteVars, TypeOK
  <2>5. CASE CommitConfirmed(q)
    BY <2>5 DEF CommitConfirmed, Committed, Answered, Disturbs, Active, Over,
                remoteVars, TypeOK
  <2>6. CASE Confirm(q)
    BY <2>6 DEF Confirm, Committed, Disturbs, Active, remoteVars, TypeOK
  <2>23. CASE CommitRefused(q)
    BY <2>23 DEF CommitRefused, remoteVars, deviceVars, ghostVars
  <2>24. CASE ConfirmRefused(q)
    BY <2>24 DEF ConfirmRefused, remoteVars, deviceVars, TypeOK
  <2>25. CASE SaveRefused(q)
    BY <2>25 DEF SaveRefused, remoteVars, deviceVars, TypeOK
  <2>7. CASE Snapshot(q)
    BY <2>7 DEF Snapshot, Answered, remoteVars, deviceVars, ghostVars
  <2>8. CASE Restore(q)
    BY <2>8 DEF Restore, Disturbs, Active, remoteVars
  <2>9. CASE AllSent(q)
    BY <2>9 DEF AllSent, remoteVars, deviceVars, ghostVars
  <2>10. CASE SaveStartup(q)
    BY <2>10 DEF SaveStartup, remoteVars, ghostVars
  <2>11. CASE Stage(q)
    BY <2>11 DEF Stage, Answered, Disturbs, Active, Over, remoteVars
  <2>12. CASE StartDeploy(q)
    BY <2>12 DEF StartDeploy, Answered, deviceVars, ghostVars, TypeOK
  <2>13. CASE Approve(q)
    BY <2>13 DEF Approve, Answered, deviceVars, ghostVars, TypeOK
  <2>14. CASE DeployEndedBadly(q)
    BY <2>14 DEF DeployEndedBadly, remoteVars, deviceVars, ghostVars
  <2>15. CASE DeployCompleted(q)
    BY <2>15 DEF DeployCompleted, remoteVars, deviceVars, ghostVars
  <2>16. CASE DeployRuns(q)
    BY <2>16 DEF DeployRuns, Disturbs, Active, TypeOK
  <2>17. CASE ApplyResources(q)
    BY <2>17 DEF ApplyResources, Applied, Answered, Disturbs, Active, Over
  <2>18. CASE ApplyPowerJob(q)
    BY <2>18 DEF ApplyPowerJob, Answered, deviceVars, ghostVars
  <2>19. CASE WatchJob(q)
    BY <2>19 DEF WatchJob, remoteVars, deviceVars, ghostVars
  <2>20. CASE WatchWorkflow(q)
    BY <2>20 DEF WatchWorkflow, remoteVars, deviceVars, ghostVars
  <2>21. ASSUME NEW i \in Items, Send(q, i)
         PROVE  Progress(p)'
    BY <2>21 DEF Send, Sent, Disturbs, Active, remoteVars, TypeOK, Configs
  <2>22. ASSUME NEW i \in Items, Refuse(q, i)
         PROVE  Progress(p)'
    BY <2>22 DEF Refuse, Sent, remoteVars, deviceVars, TypeOK
  <2> QED
    BY <1>2, <2>1, <2>2, <2>3, <2>4, <2>5, <2>6, <2>7, <2>8, <2>9, <2>10, <2>11, <2>12, <2>13, <2>14, <2>15, <2>16, <2>17, <2>18, <2>19, <2>20, <2>21, <2>22,
       <2>23, <2>24, <2>25 DEF Step
<1>3. CASE Expire
  BY <1>0, <1>3 DEF Expire, Active, remoteVars
<1>4. CASE Reload
  BY <1>0, <1>4 DEF Reload, Active, remoteVars
<1>5. CASE HostRuns
  BY <1>0, <1>5 DEF HostRuns, Active, PushInv, Courses
<1> QED
  BY <1>1, <1>2, <1>3, <1>4, <1>5 DEF Next

LEMMA SaysWholeStep ==
    ASSUME PushInv, Progresses, [Next]_vars, NEW p \in Pushes
    PROVE  SaysWhole(p)
<1> SUFFICES ASSUME result[p] = "none", result'[p] = "success",
                    p \notin disturbed, kind = "tinkerbell" => Alone(p)
             PROVE  /\ \A i \in Touches[p] \ refused'[p] :
                          /\ running'[i] = p
                          /\ kind = "eos" => startup'[i] = p
                          /\ kind \in Netconf => ~window'
                    /\ refused'[p] = {} \/ kind \in Deaf
  BY DEF SaysWhole, Alone
<1>1. TypeOK /\ OnCourse(p) /\ Progress(p)
  BY DEF PushInv, Courses, Progresses
<1>2. refused[p] = {} \/ kind \in Deaf
  BY <1>1 DEF Progress, Bookkeeping
<1>3. \A q \in Pushes \ {p} : ~Step(q)
  BY <1>1, GoToFrame, EndFrame, RaiseFrame
  DEF Step, Open, CallFails, Crash, EditConfig, CommitConfirmed, CommitRefused,
      Confirm, ConfirmRefused, Snapshot, Restore, Send, Refuse, AllSent,
      SaveStartup, SaveRefused, Stage,
      StartDeploy, Approve, DeployEndedBadly, DeployCompleted, DeployRuns,
      ApplyResources, ApplyPowerJob, WatchJob, WatchWorkflow, Answered
<1>4. Step(p)
  BY <1>3 DEF Next, vars, Expire, Reload, HostRuns
<1>5. \/ Confirm(p) \/ ConfirmRefused(p) \/ AllSent(p) \/ SaveStartup(p)
      \/ SaveRefused(p) \/ DeployCompleted(p) \/ WatchWorkflow(p)
  <2>1. ~Raise(p)
    BY <1>1, RaiseFrame
  <2>2. \A s : ~GoTo(p, s)
    BY <1>1, GoToFrame
  <2>3. ~End(p, "failed") /\ ~End(p, "rolled_back")
    BY <1>1, EndFrame
  <2> QED
    BY <1>1, <1>4, <2>1, <2>2, <2>3
    DEF Step, Open, CallFails, Crash, EditConfig, CommitConfirmed,
        CommitRefused, Snapshot, Restore, Send, Refuse, Stage, StartDeploy, Approve, DeployEndedBadly,
        DeployRuns, ApplyResources, ApplyPowerJob, WatchJob, Answered
<1> USE DEF Progress, Bookkeeping, Undisturbed, FirstOfHost, Staged, Installed
<1>6. CASE Confirm(p)
  <2>1. refused' = refused /\ window' = FALSE /\ kind \in Netconf
    BY <1>1, <1>6 DEF Confirm, OnCourse
  <2>2. \A i \in Touches[p] \ refused[p] : running'[i] = p
    BY <1>1, <1>6 DEF Confirm, Committed, Over, Netconf, TypeOK
  <2> QED
    BY <1>2, <2>1, <2>2 DEF Netconf
<1>7. CASE AllSent(p)
  <2>1. kind # "eos"
    BY <1>1, <1>7, GoToFrame DEF AllSent
  <2> QED
    BY <1>1, <1>2, <1>7, <2>1 DEF AllSent, deviceVars, ghostVars, OnCourse, Netconf
<1>8. CASE SaveStartup(p)
  BY <1>1, <1>2, <1>8 DEF SaveStartup, ghostVars, OnCourse, Netconf
<1>9. CASE DeployCompleted(p)
  BY <1>1, <1>2, <1>9
  DEF DeployCompleted, deviceVars, ghostVars, OnCourse, Deaf, Netconf, Remote
<1>10. CASE WatchWorkflow(p)
  <2>1. imaging = "completed"
    BY <1>1, <1>10, EndFrame DEF WatchWorkflow
  <2> QED
    BY <1>1, <1>2, <1>10, <2>1
    DEF WatchWorkflow, deviceVars, ghostVars, OnCourse, Deaf, Netconf
<1>11. CASE ConfirmRefused(p) \/ SaveRefused(p)
  <2>1. refused'[p] = Touches[p]
    BY <1>1, <1>11 DEF ConfirmRefused, SaveRefused, TypeOK
  <2>2. kind \in Deaf
    BY <1>1, <1>11 DEF ConfirmRefused, SaveRefused, OnCourse, Deaf
  <2> QED
    BY <2>1, <2>2
<1> QED
  BY <1>5, <1>6, <1>7, <1>8, <1>9, <1>10, <1>11

(* Success without interference means that all of the change the device    *)
(* did not refuse is in effect for good; and only Junos, IOS XR, EOS and   *)
(* linux_ssh say success over a refusal.                                   *)
THEOREM SuccessWhole == Spec => SuccessIsWhole
<1>1. Init => Progresses
  BY ProgressInit
<1>2. PushInv /\ Progresses /\ [Next]_vars => Progresses'
  BY ProgressStep
<1>3. PushInv /\ Progresses /\ [Next]_vars => \A p \in Pushes : SaysWhole(p)
  BY SaysWholeStep
<1> QED
  BY <1>1, <1>2, <1>3, PushInvariant, PTL DEF Spec, SuccessIsWhole

-----------------------------------------------------------------------------
(* v is a push that reported success, and was not refused item i.          *)
Done(v, i) == v \in Pushes /\ result[v] = "success" /\ i \in Touches[v] \ refused[v]

(* The timer gives back what is done, and so does Junos' candidate; edits  *)
(* on top of it are some push's.                                           *)
NetconfKeeps(i) ==
    /\ window /\ Done(running[i], i) => fallback[i] = running[i]
    /\ kind = "junos" =>
          /\ Done(candidate[i], i) =>
                /\ running[i] = candidate[i]
                /\ window => fallback[i] = candidate[i]
          /\ Done(running[i], i) => candidate[i] \in Pushes
          /\ window /\ Done(fallback[i], i) => candidate[i] \in Pushes

(* The snapshot of the push under way is older than its own writes only.   *)
SnapshotKeeps(i) ==
    \A q \in Active :
        archive[q][i] # Missing => running[i] \in {q, archive[q][i]}

Keeps(i) ==
    /\ kind \in Netconf => NetconfKeeps(i)
    /\ kind = "eos" /\ Done(running[i], i) => startup[i] = running[i]
    /\ kind \in Remote /\ running[i] \in Pushes => candidate[i] \in Pushes
    /\ kind = "linux_ssh" => SnapshotKeeps(i)

(* A host of linux_ssh sees one push at a time; the archive is empty       *)
(* until its push has made it.                                             *)
OneHand ==
    kind = "linux_ssh" =>
        /\ \A q, r \in Active : q = r
        /\ \A q \in Pushes : at[q] \in {"ready", "saving"} =>
              \A i \in Items : archive[q][i] = Missing

Keeping == OneHand /\ \A i \in Items : Keeps(i)

LEMMA KeepingInit == Init => Keeping
  BY DEF Init, Keeping, OneHand, Keeps, NetconfKeeps, SnapshotKeeps, Done, Active,
         Factory, Netconf, Remote

LEMMA OneHandStep ==
    ASSUME "linux_ssh" \notin Overlapping, PushInv, OneHand, [Next]_vars
    PROVE  OneHand'
<1>0. TypeOK /\ Courses
  BY DEF PushInv
<1> USE DEF OneHand, Active
<1>1. CASE UNCHANGED vars
  BY <1>1 DEF vars
<1>2. ASSUME NEW p \in Pushes, Step(p)
      PROVE  OneHand'
  <2> USE <1>0, GoToFrame, EndFrame, RaiseFrame
  <2>1. CASE Open(p)
    BY <2>1 DEF Open
  <2>2. CASE CallFails(p)
    BY <2>2 DEF CallFails
  <2>3. CASE Crash(p)
    BY <2>3 DEF Crash, TypeOK
  <2>4. CASE Snapshot(p)
    BY <2>4 DEF Snapshot, Answered, TypeOK
  <2>5. CASE Restore(p)
    BY <2>5 DEF Restore
  <2>6. ASSUME NEW i \in Items, Send(p, i)
        PROVE  OneHand'
    BY <2>6 DEF Send
  <2>7. ASSUME NEW i \in Items, Refuse(p, i)
        PROVE  OneHand'
    BY <2>7 DEF Refuse
  <2>8. CASE AllSent(p)
    BY <2>8 DEF AllSent
  <2>9. CASE \/ EditConfig(p) \/ CommitConfirmed(p) \/ CommitRefused(p)
             \/ Confirm(p) \/ ConfirmRefused(p) \/ SaveStartup(p) \/ SaveRefused(p)
    BY <2>9 DEF EditConfig, CommitConfirmed, CommitRefused, Confirm, ConfirmRefused,
                SaveStartup, SaveRefused, Courses, OnCourse, Netconf
  <2>10. CASE \/ Stage(p) \/ StartDeploy(p) \/ Approve(p) \/ DeployEndedBadly(p)
              \/ DeployCompleted(p) \/ DeployRuns(p) \/ ApplyResources(p)
              \/ ApplyPowerJob(p) \/ WatchJob(p) \/ WatchWorkflow(p)
    BY <2>10 DEF Stage, StartDeploy, Approve, DeployEndedBadly, DeployCompleted,
                 DeployRuns, ApplyResources, ApplyPowerJob, WatchJob, WatchWorkflow,
                 Courses, OnCourse, Remote
  <2> QED
    BY <1>2, <2>1, <2>2, <2>3, <2>4, <2>5, <2>6, <2>7, <2>8, <2>9, <2>10 DEF Step
<1>3. CASE Expire
  BY <1>3 DEF Expire
<1>4. CASE Reload
  BY <1>4 DEF Reload
<1>5. CASE HostRuns
  BY <1>5 DEF HostRuns
<1> QED
  BY <1>1, <1>2, <1>3, <1>4, <1>5 DEF Next

LEMMA KeepsStep ==
    ASSUME "linux_ssh" \notin Overlapping, PushInv, Keeping, [Next]_vars, NEW i \in Items
    PROVE  Keeps(i)'
<1>0. TypeOK /\ Courses /\ OneHand /\ Keeps(i)
  BY DEF PushInv, Keeping
<1> USE DEF Keeps, NetconfKeeps, SnapshotKeeps, Done, Active
<1>1. CASE UNCHANGED vars
  BY <1>0, <1>1 DEF vars, deviceVars, ghostVars
<1>2. ASSUME NEW p \in Pushes, Step(p)
      PROVE  Keeps(i)'
  <2> USE <1>0, GoToFrame, EndFrame, RaiseFrame DEF Courses, OnCourse, Netconf, Remote
  <2>1. CASE Open(p)
    BY <2>1 DEF Open, deviceVars, ghostVars, OneHand
  <2>2. CASE CallFails(p)
    BY <2>2 DEF CallFails, deviceVars, ghostVars
  <2>3. CASE Crash(p)
    BY <2>3 DEF Crash, deviceVars, ghostVars, TypeOK
  <2>4. CASE EditConfig(p)
    BY <2>4 DEF EditConfig, Answered, Over, TypeOK
  <2>5. CASE CommitConfirmed(p)
    <3>1. kind \in Netconf /\ kind' = kind /\ result[p] = "none"
      BY <2>5 DEF CommitConfirmed
    <3>2. result'[p] # "success" /\ \A q \in Pushes \ {p} : result'[q] = result[q]
      BY <2>5, <3>1 DEF CommitConfirmed, Answered
    <3>3. /\ Done(running[i], i)' => Done(running'[i], i)
          /\ Done(candidate[i], i)' => Done(candidate'[i], i)
          /\ Done(fallback[i], i)' => Done(fallback'[i], i)
      BY <2>5, <3>2 DEF CommitConfirmed
    <3>4. /\ window' /\ candidate' = candidate
          /\ \/ window /\ fallback' = fallback
             \/ fallback' = running
      BY <2>5 DEF CommitConfirmed
    <3>5. CASE kind = "junos"
      <4>1. running' = candidate
        BY <2>5, <3>5 DEF CommitConfirmed, Committed
      <4> HIDE DEF Done
      <4>2. \A v : Done(v, i) => v \in Pushes
        BY DEF Done
      <4> QED
        BY <3>1, <3>3, <3>4, <3>5, <4>1, <4>2
    <3>6. CASE kind = "iosxr"
      <4>1. running'[i] \in {p, running[i]} /\ ~Done(p, i)'
        BY <2>5, <3>2, <3>6 DEF CommitConfirmed, Committed, Over
      <4> HIDE DEF Done
      <4> QED
        BY <3>1, <3>3, <3>4, <3>6, <4>1
    <3> QED
      BY <3>1, <3>5, <3>6
  <2>6. CASE Confirm(p)
    BY <2>6 DEF Confirm, Committed
  <2>20. CASE CommitRefused(p)
    BY <2>20 DEF CommitRefused, deviceVars, ghostVars
  <2>21. CASE ConfirmRefused(p)
    BY <2>21 DEF ConfirmRefused, deviceVars, ghostVars, TypeOK
  <2>22. CASE SaveRefused(p)
    BY <2>22 DEF SaveRefused, deviceVars, ghostVars, TypeOK
  <2>7. CASE Snapshot(p)
    BY <2>7 DEF Snapshot, Answered, deviceVars, ghostVars, OneHand, TypeOK
  <2>8. CASE Restore(p)
    BY <2>8 DEF Restore, OneHand
  <2>9. ASSUME NEW j \in Items, Send(p, j)
        PROVE  Keeps(i)'
    BY <2>9 DEF Send, OneHand, TypeOK, Configs
  <2>10. ASSUME NEW j \in Items, Refuse(p, j)
         PROVE  Keeps(i)'
    BY <2>10 DEF Refuse, deviceVars, ghostVars
  <2>11. CASE AllSent(p)
    BY <2>11 DEF AllSent, deviceVars, ghostVars
  <2>12. CASE SaveStartup(p)
    BY <2>12 DEF SaveStartup
  <2>13. CASE Stage(p)
    BY <2>13 DEF Stage, Answered, Over
  <2>14. CASE StartDeploy(p) \/ Approve(p)
    BY <2>14 DEF StartDeploy, Approve, Answered, deviceVars, ghostVars
  <2>15. CASE DeployEndedBadly(p) \/ DeployCompleted(p)
    BY <2>15 DEF DeployEndedBadly, DeployCompleted, deviceVars, ghostVars
  <2>16. CASE DeployRuns(p)
    BY <2>16 DEF DeployRuns
  <2>17. CASE ApplyResources(p)
    BY <2>17 DEF ApplyResources, Answered, Over
  <2>18. CASE ApplyPowerJob(p)
    BY <2>18 DEF ApplyPowerJob, Answered, deviceVars, ghostVars
  <2>19. CASE WatchJob(p) \/ WatchWorkflow(p)
    BY <2>19 DEF WatchJob, WatchWorkflow, deviceVars, ghostVars
  <2> QED
    BY <1>2, <2>1, <2>2, <2>3, <2>4, <2>5, <2>6, <2>7, <2>8, <2>9, <2>10, <2>11, <2>12,
       <2>13, <2>14, <2>15, <2>16, <2>17, <2>18, <2>19, <2>20, <2>21, <2>22 DEF Step
<1>3. CASE Expire
  BY <1>0, <1>3 DEF Expire, Courses, Netconf, Remote
<1>4. CASE Reload
  BY <1>0, <1>4 DEF Reload, Netconf, Remote
<1>5. CASE HostRuns
  BY <1>0, <1>5 DEF HostRuns, Courses, Netconf, Remote
<1> QED
  BY <1>1, <1>2, <1>3, <1>4, <1>5 DEF Next

(* What changes a successful push's item is a push, or has been staged.    *)
LEMMA DurableStep ==
    ASSUME PushInv, Keeping, [Next]_vars, NEW p \in Pushes,
           NEW i \in Touches[p] \ refused[p],
           result[p] = "success", running[i] = p, running'[i] # p
    PROVE  /\ running'[i] \in Pushes
           /\ \/ running'[i] = candidate[i]
              \/ \E q \in Pushes : /\ at[q] # "restoring"
                                   /\ <<at[q], todo[q]>>' # <<at[q], todo[q]>>
<1>0. TypeOK /\ Courses /\ Keeps(i) /\ Done(p, i)
  BY DEF PushInv, Keeping, Done
<1>1. ASSUME NEW q \in Pushes, Step(q)
      PROVE  /\ running'[i] \in Pushes
             /\ \/ running'[i] = candidate[i]
                \/ at[q] # "restoring" /\ <<at[q], todo[q]>>' # <<at[q], todo[q]>>
  <2> USE <1>0, GoToFrame, EndFrame, RaiseFrame
      DEF Courses, OnCourse, Keeps, Netconf, Remote
  <2>1. CASE CommitConfirmed(q)
    BY <2>1 DEF CommitConfirmed, Committed, Answered, NetconfKeeps, Over
  <2>2. CASE Confirm(q)
    BY <2>2 DEF Confirm, Committed, NetconfKeeps, Over
  <2>3. CASE Restore(q)
    BY <2>3 DEF Restore, SnapshotKeeps, Active, Done
  <2>4. ASSUME NEW j \in Items, Send(q, j)
        PROVE  /\ running'[i] \in Pushes
               /\ at[q] # "restoring" /\ <<at[q], todo[q]>>' # <<at[q], todo[q]>>
    <3>1. running'[i] = q /\ at[q] = "sending"
      BY <2>4 DEF Send, TypeOK, Configs
    <3>2. CASE Sent(q, j)
      BY <2>4, <3>1, <3>2 DEF Send, Sent, IsNext, TypeOK
    <3>3. CASE Raise(q)
      BY <3>1, <3>3
    <3> QED
      BY <2>4, <3>1, <3>2, <3>3 DEF Send
  <2>5. CASE DeployRuns(q)
    BY <2>5 DEF DeployRuns
  <2>6. CASE \/ Open(q) \/ CallFails(q) \/ Crash(q) \/ EditConfig(q)
             \/ CommitRefused(q) \/ ConfirmRefused(q) \/ Snapshot(q)
             \/ AllSent(q) \/ SaveStartup(q) \/ SaveRefused(q)
             \/ \E j \in Items : Refuse(q, j)
    BY <2>6 DEF Open, CallFails, Crash, EditConfig, CommitRefused, ConfirmRefused,
                Snapshot, AllSent, SaveStartup, SaveRefused, Refuse, deviceVars
  <2>7. CASE \/ Stage(q) \/ StartDeploy(q) \/ Approve(q)
             \/ DeployEndedBadly(q) \/ DeployCompleted(q)
             \/ ApplyResources(q) \/ ApplyPowerJob(q) \/ WatchJob(q)
             \/ WatchWorkflow(q)
    BY <2>7 DEF Stage, StartDeploy, Approve, DeployEndedBadly, DeployCompleted,
                ApplyResources, ApplyPowerJob, WatchJob, WatchWorkflow, deviceVars
  <2> QED
    BY <1>1, <2>1, <2>2, <2>3, <2>4, <2>5, <2>6, <2>7 DEF Step
<1>2. CASE Expire
  BY <1>0, <1>2 DEF Expire, Courses, Keeps, NetconfKeeps
<1>3. CASE Reload
  BY <1>0, <1>3 DEF Reload, Keeps
<1>4. CASE HostRuns
  BY <1>0, <1>4 DEF HostRuns, Courses, Keeps, Remote
<1>5. CASE UNCHANGED vars
  BY <1>5 DEF vars, deviceVars
<1> QED
  BY <1>1, <1>2, <1>3, <1>4, <1>5 DEF Next

(* Where no two pushes to one Linux server overlap, nothing undoes what a   *)
(* push has reported as done: see DurableSuccess.  The other adapters keep  *)
(* it with overlapping pushes as well.                                     *)
THEOREM SuccessLasts ==
    ASSUME "linux_ssh" \notin Overlapping
    PROVE  Spec => DurableSuccess
<1>1. Init => Keeping
  BY KeepingInit
<1>2. PushInv /\ Keeping /\ [Next]_vars => Keeping'
  BY OneHandStep, KeepsStep DEF Keeping
<1>3. PushInv /\ Keeping /\ [Next]_vars =>
        [\A p \in Pushes : \A i \in Touches[p] \ refused[p] :
          (result[p] = "success" /\ running[i] = p /\ running'[i] # p)
              => /\ running'[i] \in Pushes
                 /\ \/ running'[i] = candidate[i]
                    \/ \E q \in Pushes : /\ at[q] # "restoring"
                                         /\ <<at[q], todo[q]>>' # <<at[q], todo[q]>>]_vars
  BY DurableStep
<1> QED
  BY <1>1, <1>2, <1>3, PushInvariant, PTL DEF Spec, DurableSuccess
=============================================================================
