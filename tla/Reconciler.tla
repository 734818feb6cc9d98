----------------------------- MODULE Reconciler -----------------------------
(***************************************************************************)
(* Who opens change proposals, and what becomes of them:                   *)
(*   workers/reconciler.py           the drift sweep (a beat task)         *)
(*   api/routers/sot_devices.py      "Reconcile now" and the intent editor *)
(*   core/sot_tools.py               the LLM's propose_change tool         *)
(* The executor is the one of ChangeProposals, one row at a time, in three *)
(* steps: the stale check, the push and the commit of its outcome.         *)
(*                                                                         *)
(* A sweep reads three things at three moments: the open proposals of a    *)
(* device, its intent in the SoT, and the device itself.  Only then does   *)
(* it insert its row, and nothing in the database makes check and insert   *)
(* one step.                                                               *)
(***************************************************************************)
EXTENDS Naturals, FiniteSets

CONSTANTS
    Rows,         \* ids of change_proposals rows
    Devices,      \* devices of one tenant
    Configs,      \* rendered configurations
    Sweepers,     \* concurrent sweeps: beat tasks and Reconcile-now requests
    EngineFacts,  \* what the LLM may propose
    SotEdits,     \* what an operator may turn an intent into
    MaxEdits,     \* bound on the operators' edits of the SoT
    MaxManuals,   \* bound on the LLM's proposals
    MaxDrifts     \* bound on changes made on a device behind the SoT's back

NoIntent == "no_intent"
NoRow    == "no_row"

Open     == {"pending", "approved"}
Final    == {"rejected", "executed", "failed", "stale"}
Outcomes == {"executed", "failed"}    \* what a push may report

ASSUME ReconcilerAssumption ==
    /\ NoIntent \notin Configs
    /\ NoRow \notin Rows
    /\ EngineFacts \subseteq Configs
    /\ SotEdits \subseteq Configs \cup {NoIntent}
    /\ MaxEdits \in Nat
    /\ MaxManuals \in Nat
    /\ MaxDrifts \in Nat

VARIABLES
    status,     \* Rows -> status column, or absent
    row,        \* Rows -> device, kind, intended and observed config, and the
                \*         intent its author found in the SoT
    sot,        \* Devices -> intent in the SoT
    running,    \* Devices -> configuration in force
    at,         \* Sweepers -> where the sweep is
    todo,       \* Sweepers -> devices it has still to visit
    dev,        \* Sweepers -> device being visited
    want,       \* Sweepers -> the intent it read
    saw,        \* Sweepers -> the configuration it collected
    executing,  \* the row in the executor's hand, or NoRow
    outcome,    \* what the executor will record: none, executed or failed
    edits,      \* SoT edits so far
    manuals,    \* proposals of the LLM so far
    drifts      \* changes behind the SoT's back so far

rowVars   == <<status, row>>
sweepVars == <<at, todo, dev, want, saw>>
execVars  == <<executing, outcome>>
bounds    == <<edits, manuals, drifts>>

vars == <<rowVars, sot, running, sweepVars, execVars, bounds>>

RowContents ==
    [device: Devices, kind: {"drift", "manual"}, intended: Configs,
     observed: Configs \cup {NoIntent}]

Unused == [kind |-> "unused"]

TypeOK ==
    /\ status \in [Rows -> Open \cup Final \cup {"absent"}]
    /\ row \in [Rows -> RowContents \cup {Unused}]
    /\ \A p \in Rows : status[p] # "absent" => row[p] \in RowContents
    /\ sot \in [Devices -> Configs \cup {NoIntent}]
    /\ running \in [Devices -> Configs]
    /\ at \in [Sweepers -> {"idle", "sweep", "checked", "read", "drifted"}]
    /\ todo \in [Sweepers -> SUBSET Devices]
    /\ dev \in [Sweepers -> Devices]
    /\ want \in [Sweepers -> Configs \cup {NoIntent}]
    /\ saw \in [Sweepers -> Configs \cup {NoIntent}]
    /\ executing \in Rows \cup {NoRow}
    /\ outcome \in {"none", "executed", "failed"}
    /\ edits \in Nat
    /\ manuals \in Nat
    /\ drifts \in Nat

Init ==
    /\ status = [p \in Rows |-> "absent"]
    /\ row = [p \in Rows |-> Unused]
    /\ sot \in [Devices -> Configs \cup {NoIntent}]
    /\ running \in [Devices -> Configs]
    /\ at = [s \in Sweepers |-> "idle"]
    /\ todo = [s \in Sweepers |-> {}]
    /\ \E d \in Devices : dev = [s \in Sweepers |-> d]
    /\ want = [s \in Sweepers |-> NoIntent]
    /\ saw = [s \in Sweepers |-> NoIntent]
    /\ executing = NoRow
    /\ outcome = "none"
    /\ edits = 0
    /\ manuals = 0
    /\ drifts = 0

IsOpen(p) == status[p] \in Open

(* Mutant of HasOpen: an approved row no longer counts as open.            *)
HasOpenPending(d) == \E p \in Rows : status[p] = "pending" /\ row[p].device = d

(* Mutant of HasOpen: a row that failed or went stale still counts.        *)
HasOpenEver(d) ==
    \E p \in Rows : /\ status[p] \in Open \cup {"failed", "stale"}
                    /\ row[p].device = d

HasOpen(d) == \E p \in Rows : IsOpen(p) /\ row[p].device = d

(* Nothing reads a row once it is final, so its id may stand for a new row. *)
Insertable(p) == ~IsOpen(p) /\ executing # p

Insert(p, contents) ==
    /\ Insertable(p)
    /\ status' = [status EXCEPT ![p] = "pending"]
    /\ row' = [row EXCEPT ![p] = contents]

-----------------------------------------------------------------------------
(* The sweep.                                                              *)

(* The beat visits every device the SoT lists; Reconcile now visits one.   *)
StartSweep(s, D) ==
    /\ at[s] = "idle"
    /\ at' = [at EXCEPT ![s] = "sweep"]
    /\ todo' = [todo EXCEPT ![s] = D]
    /\ UNCHANGED <<rowVars, sot, running, dev, want, saw, execVars, bounds>>

(* _has_open_proposal, and the visit ends if there is one.                 *)
CheckOpen(s, d) ==
    /\ at[s] = "sweep"
    /\ d \in todo[s]
    /\ todo' = [todo EXCEPT ![s] = todo[s] \ {d}]
    /\ \/ HasOpen(d) /\ UNCHANGED <<at, dev>>
       \/ /\ ~HasOpen(d)
          /\ at' = [at EXCEPT ![s] = "checked"]
          /\ dev' = [dev EXCEPT ![s] = d]
    /\ UNCHANGED <<rowVars, sot, running, want, saw, execVars, bounds>>

(* The visit ends, and what was read during it is forgotten.               *)
Leave(s) ==
    /\ at' = [at EXCEPT ![s] = "sweep"]
    /\ want' = [want EXCEPT ![s] = NoIntent]
    /\ saw' = [saw EXCEPT ![s] = NoIntent]

(* Mutant of ReadIntent: a device without intent is not passed over.       *)
ReadIntentUnchecked(s) ==
    /\ at[s] = "checked"
    /\ at' = [at EXCEPT ![s] = "read"]
    /\ want' = [want EXCEPT ![s] = sot[dev[s]]]
    /\ UNCHANGED <<rowVars, sot, running, todo, dev, saw, execVars, bounds>>

(* get_intended_config; a device without intent is passed over.            *)
ReadIntent(s) ==
    /\ at[s] = "checked"
    /\ \/ sot[dev[s]] = NoIntent /\ Leave(s)
       \/ /\ sot[dev[s]] # NoIntent
          /\ at' = [at EXCEPT ![s] = "read"]
          /\ want' = [want EXCEPT ![s] = sot[dev[s]]]
          /\ UNCHANGED saw
    /\ UNCHANGED <<rowVars, sot, running, todo, dev, execVars, bounds>>

(* collect and diff: a device in sync is reported as such and left alone.  *)
Collect(s) ==
    /\ at[s] = "read"
    /\ \/ running[dev[s]] = want[s] /\ Leave(s)
       \/ /\ running[dev[s]] # want[s]
          /\ at' = [at EXCEPT ![s] = "drifted"]
          /\ saw' = [saw EXCEPT ![s] = running[dev[s]]]
          /\ UNCHANGED want
    /\ UNCHANGED <<rowVars, sot, running, todo, dev, execVars, bounds>>

(* The per-device except clause: no credentials, an unreachable device.    *)
DeviceFails(s) ==
    /\ at[s] \in {"checked", "read"}
    /\ Leave(s)
    /\ UNCHANGED <<rowVars, sot, running, todo, dev, execVars, bounds>>

ProposeDrift(s, p) ==
    /\ at[s] = "drifted"
    /\ Insert(p, [device |-> dev[s], kind |-> "drift", intended |-> want[s],
                  observed |-> saw[s]])
    /\ Leave(s)
    /\ UNCHANGED <<sot, running, todo, dev, execVars, bounds>>

EndSweep(s) ==
    /\ at[s] = "sweep"
    /\ todo[s] = {}
    /\ at' = [at EXCEPT ![s] = "idle"]
    /\ UNCHANGED <<rowVars, sot, running, todo, dev, want, saw, execVars, bounds>>

-----------------------------------------------------------------------------
(* propose_change: the model renders facts of its own and compares them    *)
(* with the current intent, not with the device.                           *)
EngineProposes(p, d, c) ==
    /\ manuals < MaxManuals
    /\ manuals' = manuals + 1
    /\ Insert(p, [device |-> d, kind |-> "manual", intended |-> c,
                  observed |-> sot[d]])
    /\ UNCHANGED <<sot, running, sweepVars, execVars, edits, drifts>>

(* PUT /sot/devices/{id}/intent, or an edit in Nautobot itself.            *)
EditIntent(d, c) ==
    /\ edits < MaxEdits
    /\ sot[d] # c
    /\ sot' = [sot EXCEPT ![d] = c]
    /\ edits' = edits + 1
    /\ UNCHANGED <<rowVars, running, sweepVars, execVars, manuals, drifts>>

(* Somebody logs in to the device and changes it.                          *)
Drift(d, c) ==
    /\ drifts < MaxDrifts
    /\ running[d] # c
    /\ running' = [running EXCEPT ![d] = c]
    /\ drifts' = drifts + 1
    /\ UNCHANGED <<rowVars, sot, sweepVars, execVars, edits, manuals>>

Decide(p, decision) ==
    /\ status[p] = "pending"
    /\ status' = [status EXCEPT ![p] = decision]
    /\ UNCHANGED <<row, sot, running, sweepVars, execVars, bounds>>

-----------------------------------------------------------------------------
(* execute(): the row is stale unless the SoT's intent, rendered now, is   *)
(* the one that was reviewed.                                              *)
Take(p) ==
    /\ executing = NoRow
    /\ status[p] = "approved"
    /\ \/ /\ sot[row[p].device] # row[p].intended
          /\ status' = [status EXCEPT ![p] = "stale"]
          /\ UNCHANGED executing
       \/ /\ sot[row[p].device] = row[p].intended
          /\ executing' = p
          /\ UNCHANGED status
    /\ UNCHANGED <<row, sot, running, sweepVars, outcome, bounds>>

(* adapter.execute leaves the device with c: the pushed configuration, its *)
(* own, or a mixture.  Success is no guarantee, for some adapters do not   *)
(* notice what a device refuses.                                           *)
Push(result, c) ==
    /\ executing # NoRow
    /\ outcome = "none"
    /\ outcome' = result
    /\ running' = [running EXCEPT ![row[executing].device] = c]
    /\ UNCHANGED <<rowVars, sot, sweepVars, executing, bounds>>

(* The device takes the whole of it.                                       *)
PushTakes == executing # NoRow /\ Push("executed", row[executing].intended)

Record ==
    /\ outcome # "none"
    /\ status' = [status EXCEPT ![executing] = outcome]
    /\ executing' = NoRow
    /\ outcome' = "none"
    /\ UNCHANGED <<row, sot, running, sweepVars, bounds>>

-----------------------------------------------------------------------------
SweepNext(s) ==
    \/ \E D \in {Devices} \cup {{d} : d \in Devices} : StartSweep(s, D)
    \/ \E d \in Devices : CheckOpen(s, d)
    \/ ReadIntent(s)
    \/ Collect(s)
    \/ DeviceFails(s)
    \/ \E p \in Rows : ProposeDrift(s, p)
    \/ EndSweep(s)

ExecutorNext ==
    \/ \E p \in Rows : Take(p)
    \/ \E result \in Outcomes, c \in Configs : Push(result, c)
    \/ Record

Next ==
    \/ \E s \in Sweepers : SweepNext(s)
    \/ \E p \in Rows, d \in Devices, c \in EngineFacts : EngineProposes(p, d, c)
    \/ \E d \in Devices, c \in SotEdits : EditIntent(d, c)
    \/ \E d \in Devices, c \in Configs : Drift(d, c)
    \/ \E p \in Rows, decision \in {"approved", "rejected"} : Decide(p, decision)
    \/ ExecutorNext

Spec == Init /\ [][Next]_vars

(* The beat keeps sweeping every device and the executor keeps draining    *)
(* (weak fairness); a device that is asked again and again answers and     *)
(* takes its configuration, and an operator who is asked again and again   *)
(* approves (strong fairness): what follows is a promise to such a tenant. *)
Fairness ==
    /\ \A s \in Sweepers :
          /\ WF_vars(StartSweep(s, Devices))
          /\ \A d \in Devices : SF_vars(CheckOpen(s, d))
          /\ WF_vars(ReadIntent(s) \/ DeviceFails(s))
          /\ SF_vars(ReadIntent(s))
          /\ SF_vars(Collect(s))
          /\ WF_vars(\E p \in Rows : ProposeDrift(s, p))
          /\ WF_vars(EndSweep(s))
    /\ \A p \in Rows : WF_vars(Take(p)) /\ SF_vars(Decide(p, "approved"))
    /\ SF_vars(PushTakes)
    /\ WF_vars(Record)

FairSpec == Spec /\ Fairness

-----------------------------------------------------------------------------
OpenDrifts(d) == {p \in Rows : IsOpen(p) /\ row[p].kind = "drift" /\ row[p].device = d}

(* "unless one is already pending or approved for the same device"         *)
(* (workers/reconciler.py): however often the sweeps, the LLM, the         *)
(* operators and the executor take turns, a device has no more drift       *)
(* proposals waiting than there are sweeps that can overlap.  With one     *)
(* sweep at a time approvers are not asked twice.                          *)
DriftProposalsBounded ==
    \A d \in Devices : Cardinality(OpenDrifts(d)) <= Cardinality(Sweepers)

(* As long as only the executor changes devices, for the sweep's own rows,  *)
(* the observed configuration a drift proposal shows its approver is the    *)
(* one the device runs when the proposal is opened: no push slips in        *)
(* between the collect and the insert.                                      *)
ProposalShowsTheDevice ==
    [][\A p \in Rows :
          (/\ drifts = 0 /\ manuals = 0
           /\ status[p] # "pending"
           /\ status'[p] = "pending"
           /\ row'[p].kind = "drift")
            => row'[p].observed = running[row'[p].device]]_vars

(* Once the SoT and the devices are left alone, every managed device ends  *)
(* up running its intent and stays there, whatever was proposed, rejected, *)
(* failed or gone stale on the way.                                        *)
Converges ==
    \A d \in Devices : <>[](sot[d] # NoIntent => running[d] = sot[d])
=============================================================================
