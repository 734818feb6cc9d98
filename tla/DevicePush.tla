----------------------------- MODULE DevicePush -----------------------------
(***************************************************************************)
(* The push of an approved change, execute() of the adapters of            *)
(* core/device and provision() of core/device/tinkerbell_provision.py:     *)
(*   junos, iosxr    edit the candidate, commit with a rollback timer,     *)
(*                   wait a second, confirm by a plain commit; what the    *)
(*                   device answers is not looked at                       *)
(*   eos             configuration lines, then running to startup          *)
(*   linux_ssh       archive the files, write them one by one, apply the   *)
(*                   rest; on a lost connection unpack the archive         *)
(*   redfish         one request per group of settings                     *)
(*   config_manager  stage the configuration, start a deploy workflow,     *)
(*                   approve it at its gate, poll it to its end            *)
(*   tinkerbell      apply the host's resources, power it on, watch the    *)
(*                   power job and then the workflow that images it        *)
(* Every remote call may be answered, may be carried out without its       *)
(* answer coming back, or may never arrive; the last two raise.  A poll    *)
(* that reaches its deadline gives up.                                     *)
(*                                                                         *)
(* A change is a set of items, numbered in the order they are sent.  What  *)
(* an item holds is the push that wrote it last.                           *)
(***************************************************************************)
EXTENDS Integers, FiniteSets, Functions

CONSTANTS
    Pushes,       \* approved proposals for one device
    NumItems,     \* items 1 .. NumItems
    NumFiles,     \* items of linux_ssh that are files; the rest are applied
                  \* by hostnamectl, sysctl and the package manager
    Fresh,        \* files the host does not have yet
    Touches,      \* Pushes -> items of the change
    Overlapping   \* kinds of which two pushes may be under way at once

Items == 1 .. NumItems
Files == 1 .. NumFiles
Netconf == {"junos", "iosxr"}
Remote  == {"config_manager", "tinkerbell"}
Kinds   == Netconf \cup {"eos", "linux_ssh", "redfish"} \cup Remote

(* States of a deploy workflow, of Rufio's power job and of the Tinkerbell *)
(* workflow; the last two are one object per host.                         *)
Flows == {"absent", "started", "gate", "applying", "completed", "failed"}

(* Values of an item before any push, and no value.                        *)
Old     == "old"
Missing == "missing"
Values  == Pushes \cup {Old, Missing}
Configs == [Items -> Values]

ASSUME PushAssumption ==
    /\ NumItems \in Nat
    /\ NumFiles \in 0 .. NumItems
    /\ Fresh \subseteq Files
    /\ Touches \in [Pushes -> SUBSET Items]
    /\ Overlapping \subseteq Kinds
    /\ Old \notin Pushes
    /\ Missing \notin Pushes

VARIABLES
    kind,       \* transport of the device
    at,         \* Pushes -> the step of its execute()
    todo,       \* Pushes -> items not sent yet, on NETCONF: edited by the
                \*   push's session and not committed yet
    result,     \* Pushes -> what the ExecutionResult says
    running,    \* what the device does
    candidate,  \* what is staged for all: Junos' shared candidate, the
                \*   Config Store's intended configuration, the Template
    window,     \* TRUE while the rollback timer of a commit runs
    fallback,   \* what it will restore
    startup,    \* EOS: what a reload will restore
    flow,       \* Pushes -> the deploy workflow the push started
    job,        \* the host's power job
    imaging,    \* the host's workflow
    archive,    \* Pushes -> the snapshot on the host
    refused,    \* Pushes -> items the device refused and nobody noticed
    disturbed,  \* pushes during which something else changed the device
    kept        \* pushes whose change another commit made permanent

remoteVars == <<flow, job, imaging>>
deviceVars == <<running, candidate, window, fallback, startup>>
ghostVars  == <<refused, disturbed, kept>>
vars == <<kind, at, todo, result, archive, remoteVars, deviceVars, ghostVars>>

Steps == {"ready", "open", "edited", "settling", "unsettled", "saving",
          "sending", "storing", "restoring", "staging", "starting", "gate", "polling",
          "filing", "powering", "watching", "done"}

TypeOK ==
    /\ kind \in Kinds
    /\ at \in [Pushes -> Steps]
    /\ todo \in [Pushes -> SUBSET Items]
    /\ result \in [Pushes -> {"none", "success", "failed", "rolled_back"}]
    /\ running \in Configs
    /\ candidate \in Configs
    /\ window \in BOOLEAN
    /\ fallback \in Configs
    /\ startup \in Configs
    /\ flow \in [Pushes -> Flows]
    /\ {job, imaging} \subseteq Flows
    /\ archive \in [Pushes -> Configs]
    /\ refused \in [Pushes -> SUBSET Items]
    /\ disturbed \subseteq Pushes
    /\ kept \subseteq Pushes

Factory == [i \in Items |-> IF i \in Fresh THEN Missing ELSE Old]

Init ==
    /\ kind \in Kinds
    /\ at = [p \in Pushes |-> "ready"]
    /\ todo = Touches
    /\ result = [p \in Pushes |-> "none"]
    /\ running = Factory
    /\ candidate = Factory
    /\ window = FALSE
    /\ fallback = Factory
    /\ startup = Factory
    /\ flow = [p \in Pushes |-> "absent"]
    /\ job = "absent"
    /\ imaging = "absent"
    /\ archive = [p \in Pushes |-> [i \in Items |-> Missing]]
    /\ refused = [p \in Pushes |-> {}]
    /\ disturbed = {}
    /\ kept = {}

Active == {p \in Pushes : at[p] \notin {"ready", "done"}}

(* Mutant of Over: the items are counted from zero.                        *)
OverFromZero(p, S, c) ==
    [i \in 0 .. NumItems |-> IF i \in S \cup {0} THEN p ELSE c[i]]

(* The items S of p laid over the configuration c.                         *)
Over(p, S, c) == [i \in Items |-> IF i \in S THEN p ELSE c[i]]

Authors(c) == Range(c) \cap Pushes

-----------------------------------------------------------------------------
(* The executor's side of a call.                                          *)

GoTo(p, step) == at' = [at EXCEPT ![p] = step] /\ UNCHANGED result

End(p, outcome) ==
    /\ at' = [at EXCEPT ![p] = "done"]
    /\ result' = [result EXCEPT ![p] = outcome]

(* An exception: linux_ssh turns to its snapshot, the others report.       *)
Raise(p) ==
    IF kind = "linux_ssh" THEN GoTo(p, "restoring") ELSE End(p, "failed")

(* A call of p that took effect moves on if its answer comes back.         *)
Answered(p, step) == GoTo(p, step) \/ Raise(p)

Disturbs(p) == disturbed' = disturbed \cup (Active \ {p})

(* Mutant of CallFails: the handler reports the error and goes on.         *)
CallFailsOn(p) ==
    /\ p \in Active
    /\ at[p] # "restoring"
    /\ result' = [result EXCEPT ![p] = "failed"]
    /\ UNCHANGED <<kind, at, todo, archive, remoteVars, deviceVars, ghostVars>>

(* A call never arrives, or the answer raises: an HTTP error of the BMC, a *)
(* 4xx of NV-CM; or a poll is at its deadline.                             *)
CallFails(p) ==
    /\ p \in Active
    /\ at[p] # "restoring"
    /\ Raise(p)
    /\ UNCHANGED <<kind, todo, archive, remoteVars, deviceVars, ghostVars>>

(* The worker dies: nothing is reported and nothing restored.              *)
Crash(p) ==
    /\ p \in Active
    /\ at' = [at EXCEPT ![p] = "done"]
    /\ UNCHANGED <<kind, todo, result, archive, remoteVars, deviceVars,
                   ghostVars>>

Open(p) ==
    /\ at[p] = "ready"
    /\ Active = {} \/ kind \in Overlapping
    /\ GoTo(p, CASE kind \in Netconf -> "open"
                 [] kind = "linux_ssh" -> "saving"
                 [] kind = "config_manager" -> "staging"
                 [] kind = "tinkerbell" -> "filing"
                 [] OTHER -> "sending")
    /\ UNCHANGED <<kind, todo, archive, remoteVars, deviceVars, ghostVars>>

-----------------------------------------------------------------------------
(* NETCONF.                                                                *)

(* The device takes what it does not refuse (or, as IOS XR's VLANs, is not *)
(* sent); an <rpc-error> comes back as an answer like any other.  Junos'   *)
(* candidate is one for all, that of IOS XR the session's own.             *)
EditConfig(p) ==
    /\ at[p] = "open"
    /\ \E R \in SUBSET Touches[p] :
          /\ refused' = [refused EXCEPT ![p] = R]
          /\ todo' = [todo EXCEPT ![p] = Touches[p] \ R]
    /\ candidate' = IF kind = "junos" THEN Over(p, todo'[p], candidate)
                    ELSE candidate
    /\ Answered(p, "edited")
    /\ Disturbs(p)
    /\ UNCHANGED <<kind, archive, remoteVars, running, window, fallback,
                   startup, kept>>

(* What a commit of p makes the device run, on Junos with what others left *)
(* in the candidate.                                                       *)
Committed(p) == IF kind = "junos" THEN candidate ELSE Over(p, todo[p], running)

(* Mutant of CommitConfirmed: <confirmed/> is left out.                    *)
CommitAtOnce(p) ==
    /\ at[p] = "edited"
    /\ running' = Committed(p)
    /\ todo' = [todo EXCEPT ![p] = {}]
    /\ Answered(p, "settling")
    /\ Disturbs(p)
    /\ UNCHANGED <<kind, archive, remoteVars, candidate, window, fallback,
                   startup, refused, kept>>

(* If the window of an earlier commit is still open, devices differ: it is *)
(* prolonged, or its change is final and a window begins.                  *)
CommitConfirmed(p) ==
    /\ at[p] = "edited"
    /\ running' = Committed(p)
    /\ todo' = [todo EXCEPT ![p] = {}]
    /\ window' = TRUE
    /\ \/ /\ window
          /\ UNCHANGED <<fallback, kept>>
       \/ /\ fallback' = running
          /\ kept' = kept \cup Authors(running)
    /\ Answered(p, "settling")
    /\ Disturbs(p)
    /\ UNCHANGED <<kind, archive, remoteVars, candidate, startup, refused>>

(* The device refuses that commit: the push goes on all the same.          *)
CommitRefused(p) ==
    /\ at[p] = "edited"
    /\ GoTo(p, "unsettled")
    /\ UNCHANGED <<kind, todo, archive, remoteVars, deviceVars, ghostVars>>

(* The plain commit, a second later: it makes the first one permanent, or  *)
(* is the first that is accepted.                                          *)
Confirm(p) ==
    /\ at[p] \in {"settling", "unsettled"}
    /\ running' = Committed(p)
    /\ todo' = [todo EXCEPT ![p] = {}]
    /\ window' = FALSE
    /\ kept' = kept \cup Authors(running')
    /\ End(p, "success") \/ Raise(p)
    /\ Disturbs(p)
    /\ UNCHANGED <<kind, archive, remoteVars, candidate, fallback, startup,
                   refused>>

(* The device refuses it, and the push says success: nothing of it will    *)
(* stay.                                                                   *)
ConfirmRefused(p) ==
    /\ at[p] \in {"settling", "unsettled"}
    /\ refused' = [refused EXCEPT ![p] = Touches[p]]
    /\ End(p, "success")
    /\ UNCHANGED <<kind, todo, archive, remoteVars, deviceVars, disturbed,
                   kept>>

(* The timer of the device: 600 s, so never between two accepted commits   *)
(* of a push, whose calls take seconds.  On Junos the restored configuration    *)
(* may or may not replace what is being edited.                            *)
Expire ==
    /\ window
    /\ \A p \in Pushes : at[p] # "settling"
    /\ running' = fallback
    /\ candidate' \in IF kind = "junos" THEN {candidate, fallback}
                      ELSE {candidate}
    /\ window' = FALSE
    /\ disturbed' = disturbed \cup Active
    /\ UNCHANGED <<kind, at, todo, result, archive, remoteVars, fallback,
                   startup, refused, kept>>

-----------------------------------------------------------------------------
(* The adapters that send item after item.                                 *)

(* linux_ssh puts every file of the change that exists into the snapshot.  *)
(* A tar that fails is not noticed.                                        *)
Snapshot(p) ==
    /\ at[p] = "saving"
    /\ \E saved \in SUBSET {i \in Touches[p] \cap Files :
                              running[i] # Missing} :
          archive' = [archive EXCEPT ![p] =
                        [i \in Items |-> IF i \in saved THEN running[i]
                                         ELSE Missing]]
    /\ Answered(p, "sending")
    /\ UNCHANGED <<kind, todo, remoteVars, deviceVars, ghostVars>>

(* The first item p has not sent.                                          *)
IsNext(p, i) == i \in todo[p] /\ \A j \in todo[p] : i <= j

Sent(p, i) == todo' = [todo EXCEPT ![p] = @ \ {i}]

(* A line, a file, a command or a PATCH takes effect.                      *)
Send(p, i) ==
    /\ at[p] = "sending"
    /\ IsNext(p, i)
    /\ running' = [running EXCEPT ![i] = p]
    /\ \/ Sent(p, i) /\ GoTo(p, "sending")
       \/ Raise(p) /\ UNCHANGED todo
    /\ Disturbs(p)
    /\ UNCHANGED <<kind, archive, remoteVars, candidate, window, fallback,
                   startup, refused, kept>>

(* Mutant of Refuse: the BMC's errors do not end the push.                 *)
RefuseAny(p, i) ==
    /\ at[p] = "sending"
    /\ IsNext(p, i)
    /\ Sent(p, i)
    /\ refused' = [refused EXCEPT ![p] = @ \cup {i}]
    /\ UNCHANGED <<kind, at, result, archive, remoteVars, deviceVars,
                   disturbed, kept>>

(* EOS refuses a line, or a command of linux_ssh exits with an error: the  *)
(* answer is not looked at.                                                *)
Refuse(p, i) ==
    /\ at[p] = "sending"
    /\ kind \in {"eos", "linux_ssh"}
    /\ IsNext(p, i)
    /\ Sent(p, i)
    /\ refused' = [refused EXCEPT ![p] = @ \cup {i}]
    /\ UNCHANGED <<kind, at, result, archive, remoteVars, deviceVars,
                   disturbed, kept>>

AllSent(p) ==
    /\ at[p] = "sending"
    /\ todo[p] = {}
    /\ IF kind = "eos" THEN GoTo(p, "storing") ELSE End(p, "success")
    /\ UNCHANGED <<kind, todo, archive, remoteVars, deviceVars, ghostVars>>

(* Mutant of SaveStartup: the running configuration is not stored.         *)
SaveNothing(p) ==
    /\ at[p] = "storing"
    /\ End(p, "success") \/ Raise(p)
    /\ UNCHANGED <<kind, todo, archive, remoteVars, deviceVars, ghostVars>>

(* copy running-config startup-config: with whatever others have sent.     *)
SaveStartup(p) ==
    /\ at[p] = "storing"
    /\ startup' = running
    /\ End(p, "success") \/ Raise(p)
    /\ UNCHANGED <<kind, todo, archive, remoteVars, running, candidate,
                   window, fallback, ghostVars>>

(* The copy fails on the switch, and its output is not looked at.          *)
SaveRefused(p) ==
    /\ at[p] = "storing"
    /\ refused' = [refused EXCEPT ![p] = Touches[p]]
    /\ End(p, "success")
    /\ UNCHANGED <<kind, todo, archive, remoteVars, deviceVars, disturbed,
                   kept>>

(* The snapshot is unpacked, or the host cannot be reached.  Files that    *)
(* are new, and what was applied besides files, stay.                      *)
Restore(p) ==
    /\ at[p] = "restoring"
    /\ \/ /\ running' = [i \in Items |-> IF archive[p][i] = Missing
                                         THEN running[i] ELSE archive[p][i]]
          /\ Disturbs(p)
          /\ End(p, "rolled_back") \/ End(p, "failed")
       \/ /\ End(p, "failed")
          /\ UNCHANGED <<running, disturbed>>
    /\ UNCHANGED <<kind, todo, archive, remoteVars, candidate, window,
                   fallback, startup, refused, kept>>

(* The switch reboots.                                                     *)
Reload ==
    /\ kind = "eos"
    /\ running' = startup
    /\ disturbed' = disturbed \cup Active
    /\ UNCHANGED <<kind, at, todo, result, archive, remoteVars, candidate,
                   window, fallback, startup, refused, kept>>

-----------------------------------------------------------------------------
(* The adapters that have the work done by a workflow elsewhere.           *)

(* put_intended: a new version of the device's configuration.              *)
Stage(p) ==
    /\ at[p] = "staging"
    /\ candidate' = Over(p, Touches[p], candidate)
    /\ Answered(p, "starting")
    /\ Disturbs(p)
    /\ UNCHANGED <<kind, todo, archive, remoteVars, running, window,
                   fallback, startup, refused, kept>>

StartDeploy(p) ==
    /\ at[p] = "starting"
    /\ flow' = [flow EXCEPT ![p] = "started"]
    /\ Answered(p, "gate")
    /\ UNCHANGED <<kind, todo, archive, job, imaging, deviceVars, ghostVars>>

(* _await_and_approve sees the gate.                                       *)
Approve(p) ==
    /\ at[p] = "gate"
    /\ flow[p] = "gate"
    /\ flow' = [flow EXCEPT ![p] = "applying"]
    /\ Answered(p, "polling")
    /\ UNCHANGED <<kind, todo, archive, job, imaging, deviceVars, ghostVars>>

(* A terminal status before the approval (completed, if somebody approved  *)
(* it in NV-CM) or failed after it.                                        *)
DeployEndedBadly(p) ==
    /\ \/ at[p] = "gate" /\ flow[p] \in {"completed", "failed"}
       \/ at[p] = "polling" /\ flow[p] = "failed"
    /\ End(p, "failed")
    /\ UNCHANGED <<kind, todo, archive, remoteVars, deviceVars, ghostVars>>

DeployCompleted(p) ==
    /\ at[p] = "polling"
    /\ flow[p] = "completed"
    /\ End(p, "success")
    /\ UNCHANGED <<kind, todo, archive, remoteVars, deviceVars, ghostVars>>

(* NV-CM: a workflow reaches its gate, is approved by somebody there, puts *)
(* what is staged on the device, or fails, whoever still waits for it.     *)
DeployRuns(p) ==
    /\ \/ /\ flow[p] \in {"started", "gate"}
          /\ flow' = [flow EXCEPT ![p] =
                        IF @ = "started" THEN "gate" ELSE "applying"]
          /\ UNCHANGED <<running, disturbed>>
       \/ /\ flow[p] = "applying"
          /\ flow' = [flow EXCEPT ![p] = "completed"]
          /\ running' = candidate
          /\ Disturbs(p)
       \/ /\ flow[p] \in {"started", "gate", "applying"}
          /\ flow' = [flow EXCEPT ![p] = "failed"]
          /\ UNCHANGED <<running, disturbed>>
    /\ UNCHANGED <<kind, at, todo, result, archive, job, imaging, candidate,
                   window, fallback, startup, refused, kept>>

(* apply() creates an object, or patches the one of that name, whose       *)
(* status stays.  The names are the host's, not the proposal's.            *)
Applied(object) == IF object = "absent" THEN "started" ELSE object

(* Machine, Hardware and Template, then the Workflow.                      *)
ApplyResources(p) ==
    /\ at[p] = "filing"
    /\ candidate' = Over(p, Touches[p], candidate)
    /\ \/ imaging' = Applied(imaging) /\ Answered(p, "powering")
       \/ UNCHANGED imaging /\ Raise(p)
    /\ Disturbs(p)
    /\ UNCHANGED <<kind, todo, archive, flow, job, running, window, fallback,
                   startup, refused, kept>>

(* The power Job, and the first _watch.                                    *)
ApplyPowerJob(p) ==
    /\ at[p] = "powering"
    /\ job' = Applied(job)
    /\ Answered(p, "polling")
    /\ UNCHANGED <<kind, todo, archive, flow, imaging, deviceVars,
                   ghostVars>>

WatchJob(p) ==
    /\ kind = "tinkerbell"
    /\ at[p] = "polling"
    /\ \/ job = "completed" /\ GoTo(p, "watching")
       \/ job = "failed" /\ End(p, "failed")
    /\ UNCHANGED <<kind, todo, archive, remoteVars, deviceVars, ghostVars>>

WatchWorkflow(p) ==
    /\ at[p] = "watching"
    /\ \/ imaging = "completed" /\ End(p, "success")
       \/ imaging = "failed" /\ End(p, "failed")
    /\ UNCHANGED <<kind, todo, archive, remoteVars, deviceVars, ghostVars>>

(* Rufio carries out the job once; the host then boots into the workflow,  *)
(* which installs what the Template says.                                  *)
HostRuns ==
    /\ \/ /\ job = "started"
          /\ job' \in {"completed", "failed"}
          /\ UNCHANGED <<imaging, running, disturbed>>
       \/ /\ job = "completed"
          /\ imaging = "started"
          /\ \/ /\ imaging' = "completed"
                /\ running' = candidate
                /\ disturbed' = IF Cardinality(Active) > 1
                                THEN disturbed \cup Active ELSE disturbed
             \/ imaging' = "failed" /\ UNCHANGED <<running, disturbed>>
          /\ UNCHANGED job
    /\ UNCHANGED <<kind, at, todo, result, archive, flow, candidate, window,
                   fallback, startup, refused, kept>>

-----------------------------------------------------------------------------
Step(p) ==
    \/ Open(p) \/ CallFails(p) \/ Crash(p)
    \/ EditConfig(p) \/ CommitConfirmed(p) \/ CommitRefused(p)
    \/ Confirm(p) \/ ConfirmRefused(p)
    \/ Snapshot(p) \/ Restore(p)
    \/ \E i \in Items : Send(p, i) \/ Refuse(p, i)
    \/ AllSent(p) \/ SaveStartup(p) \/ SaveRefused(p)
    \/ Stage(p) \/ StartDeploy(p) \/ Approve(p)
    \/ DeployEndedBadly(p) \/ DeployCompleted(p) \/ DeployRuns(p)
    \/ ApplyResources(p) \/ ApplyPowerJob(p) \/ WatchJob(p) \/ WatchWorkflow(p)

Next ==
    \/ \E p \in Pushes : Step(p)
    \/ Expire
    \/ Reload
    \/ HostRuns

Spec == Init /\ [][Next]_vars

-----------------------------------------------------------------------------
(* Nothing stays on a NETCONF device by itself.  Whenever no rollback      *)
(* timer runs, every change it holds was confirmed by a commit that came   *)
(* later, its own or another push's; and the timer restores nothing else.  *)
(* So a push that failed before its plain commit arrived leaves nothing,   *)
(* unless another push committed while its timer was running or its edits  *)
(* were still in the candidate (junos.py 369-399, iosxr.py 355-385).       *)
NoSilentSurvivor ==
    kind \in Netconf =>
        Authors(IF window THEN fallback ELSE running) \subseteq kept

(* What a push has reported as done, and the device had not refused, is    *)
(* undone by no timer, no reload and no rollback of another push: it gives *)
(* way only to what a push sends, commits or has staged (on Junos and in   *)
(* the Config Store that may be what a failed one has left there).         *)
DurableSuccess ==
    [][\A p \in Pushes : \A i \in Touches[p] \ refused[p] :
          (result[p] = "success" /\ running[i] = p /\ running'[i] # p)
              => /\ running'[i] \in Pushes
                 /\ \/ running'[i] = candidate[i]
                    \/ \E q \in Pushes : /\ at[q] # "restoring"
                                         /\ <<at[q], todo[q]>>' # <<at[q], todo[q]>>]_vars

(* The adapters that do not look at what the device answers.               *)
Deaf == Netconf \cup {"eos", "linux_ssh"}

(* In this step p says success, and truly so.                              *)
SaysWhole(p) ==
    (/\ result[p] = "none"
     /\ result'[p] = "success"
     /\ p \notin disturbed
     /\ kind = "tinkerbell" => \A q \in Pushes \ {p} : at[q] = "ready")
        => /\ \A i \in Touches[p] \ refused'[p] :
                 /\ running'[i] = p
                 /\ kind = "eos" => startup'[i] = p
                 /\ kind \in Netconf => ~window'
           /\ refused'[p] = {} \/ kind \in Deaf

(* A push that says success has left the device with the whole change, for *)
(* good and where nothing else interfered, but for what the device         *)
(* refused; and a refusal goes unnoticed only where the adapter does not   *)
(* look at the answers (Junos, IOS XR, EOS, linux_ssh), never on a BMC and *)
(* never by a workflow.  Tinkerbell's holds for the first push of a host:  *)
(* later ones see the states the objects of the first one still have.      *)
SuccessIsWhole == [][\A p \in Pushes : SaysWhole(p)]_vars

(* A caller can re-provision an already registered host by sending only    *)
(* the Workflow and the power Job (tinkerbell_provision.py 62-65): success *)
(* means that the host was imaged for this push, whatever ran before.      *)
ReprovisionRuns ==
    [][\A p \in Pushes :
          (/\ kind = "tinkerbell"
           /\ result[p] = "none"
           /\ result'[p] = "success"
           /\ p \notin disturbed)
              => \A i \in Touches[p] : running'[i] = p]_vars

(* In this step the change of a failed push p appears, from where.          *)
ComesFromLeftovers(p) ==
    (/\ result[p] \in {"failed", "rolled_back"}
     /\ p \notin Authors(running)
     /\ p \in Authors(running'))
        => \/ kind = "junos" /\ \E q \in Pushes : at[q] # at'[q]
           \/ window /\ p \in Authors(fallback) \cap kept
           \/ kind = "linux_ssh" /\ \E q \in Pushes :
                  at[q] = "restoring" /\ p \in Authors(archive[q])
           \/ kind = "eos" /\ p \in Authors(startup)
           \/ kind = "config_manager" /\ \E q \in Pushes :
                  flow[q] = "applying" /\ flow'[q] = "completed"
           \/ kind = "tinkerbell" /\ imaging = "started"

(* What a push that failed has not brought to the device, or what has been *)
(* taken back, comes later only where something was left behind: edits in  *)
(* Junos' candidate, a configuration another push's timer restores, a      *)
(* saved startup on EOS, a file in the next push's archive, a staged       *)
(* configuration or a Template, with a workflow that goes on.  On a BMC a  *)
(* failure is final.                                                       *)
FailureIsFinal == [][\A p \in Pushes : ComesFromLeftovers(p)]_vars
=============================================================================
