---------------------------- MODULE AlertPipeline ----------------------------
(***************************************************************************)
(* From a firing signal to a row on the Alerts page:                       *)
(*   modules/infra/integrations.py  PrometheusAdapter.ingest (a beat task) *)
(*   core/events.py                 publish, subscribe (a Redis stream)    *)
(*   core/agents.py                 Agent.run_forever, emit_alert          *)
(*   modules/infra/agent.py         triage and auto-resolve                *)
(*   api/routers/alerts.py          acknowledge, resolve                   *)
(*                                                                         *)
(* An event is first appended to the stream and then saved in Postgres; an *)
(* alert and its occurrences refer to the saved event by a foreign key.    *)
(* All agents read the stream through one consumer group: an event goes to *)
(* one of them, and one read but not handled is never delivered again.     *)
(***************************************************************************)
EXTENDS Naturals, Sequences, SequencesExt, FiniteSetsExt

CONSTANTS
    Fingerprints, \* label sets the monitoring source may report
    Rows,         \* ids of alerts rows
    Events,       \* ids of events on their way: the bound of the backlog
    Replicas,     \* tasks that run Agent.run_forever
    Bystanders,   \* those of agents that handle no infra.alert.* event
    BatchSize,    \* XREADGROUP COUNT
    AckFrom,      \* statuses in which an acknowledge request may arrive
    Faults,       \* kinds of faults that may happen
    MaxFaults,    \* bound on their number
    MaxChanges,   \* bound on signals that start or stop firing
    MaxClicks,    \* bound on requests of operators
    MaxCount      \* occurrence counts saturate here

NoEvent == "no_event"

Active == {"open", "acknowledged"}

ASSUME PipelineAssumption ==
    /\ NoEvent \notin Events
    /\ BatchSize \in Nat \ {0}
    /\ AckFrom \subseteq Active \cup {"resolved"}
    /\ MaxFaults \in Nat
    /\ MaxChanges \in Nat
    /\ MaxClicks \in Nat
    /\ MaxCount \in Nat \ {0}

VARIABLES
    firing,      \* what the monitoring source reports as firing
    tick,        \* where the ingest is: idle, publishing, clearing
    reported,    \* the fingerprints it fetched
    todo,        \* those it has still to publish
    adding,      \* the event on the stream it has not saved yet, or NoEvent
    stream,      \* events no agent has read
    event,       \* Events -> kind and fingerprint
    saved,       \* events that have a row in Postgres
    status,      \* Rows -> status column, or absent
    fingerprint, \* Rows -> fingerprint column
    count,       \* Rows -> occurrence_count column
    occurrences, \* Rows -> number of alert_occurrences rows
    incident,    \* Rows -> the incident in its metadata: none, open, resolved
    reopened,    \* number of acknowledges that made a closed alert active again
    at,          \* Replicas -> where run_forever is
    batch,       \* Replicas -> events it has read, the one in hand first
    triaged,     \* Replicas -> it has opened an incident for this event
    hits,        \* Replicas -> rows its last query returned
    seen,        \* Replicas -> occurrence_count as read
    faults, changes, clicks  \* how much of each bound is used

sourceVars == <<firing, changes>>
ingestVars == <<tick, reported, todo, adding>>
streamVars == <<stream, event, saved>>
alertVars  == <<status, fingerprint, count, occurrences, incident, reopened>>
localVars  == <<triaged, hits, seen>>
agentVars  == <<at, batch, triaged, hits, seen>>

vars == <<sourceVars, ingestVars, streamVars, alertVars, agentVars, faults, clicks>>

TypeOK ==
    /\ firing \subseteq Fingerprints
    /\ tick \in {"idle", "publishing", "clearing"}
    /\ reported \subseteq Fingerprints
    /\ todo \subseteq Fingerprints
    /\ adding \in Events \cup {NoEvent}
    /\ stream \in Seq(Events)
    /\ event \in [Events -> [kind: {"fired", "resolved"}, fingerprint: Fingerprints]]
    /\ saved \subseteq Events
    /\ status \in [Rows -> Active \cup {"resolved", "absent"}]
    /\ fingerprint \in [Rows -> Fingerprints]
    /\ count \in [Rows -> 0 .. MaxCount]
    /\ occurrences \in [Rows -> 0 .. MaxCount]
    /\ incident \in [Rows -> {"none", "open", "resolved"}]
    /\ reopened \in 0 .. MaxClicks
    /\ at \in [Replicas -> {"idle", "triage", "emit", "bump", "insert", "close", "dead"}]
    /\ batch \in [Replicas -> Seq(Events)]
    /\ triaged \in [Replicas -> BOOLEAN]
    /\ hits \in [Replicas -> SUBSET Rows]
    /\ seen \in [Replicas -> 0 .. MaxCount]
    /\ faults \in 0 .. MaxFaults
    /\ changes \in 0 .. MaxChanges
    /\ clicks \in 0 .. MaxClicks

Init ==
    /\ firing \in SUBSET Fingerprints
    /\ tick = "idle"
    /\ reported = {}
    /\ todo = {}
    /\ adding = NoEvent
    /\ stream = <<>>
    /\ \E f \in Fingerprints :
          /\ event = [e \in Events |-> [kind |-> "fired", fingerprint |-> f]]
          /\ fingerprint = [a \in Rows |-> f]
    /\ saved = {}
    /\ status = [a \in Rows |-> "absent"]
    /\ count = [a \in Rows |-> 0]
    /\ occurrences = [a \in Rows |-> 0]
    /\ incident = [a \in Rows |-> "none"]
    /\ reopened = 0
    /\ at = [r \in Replicas |-> "idle"]
    /\ batch = [r \in Replicas |-> <<>>]
    /\ triaged = [r \in Replicas |-> FALSE]
    /\ hits = [r \in Replicas |-> {}]
    /\ seen = [r \in Replicas |-> 0]
    /\ faults = 0
    /\ changes = 0
    /\ clicks = 0

IsActive(a) == status[a] \in Active

ActiveRows(f) == {a \in Rows : IsActive(a) /\ fingerprint[a] = f}

Fault(kind) ==
    /\ kind \in Faults
    /\ faults < MaxFaults
    /\ faults' = faults + 1

Saturated(n) == IF n > MaxCount THEN MaxCount ELSE n

-----------------------------------------------------------------------------
(* The monitoring source and the ingest tick of one tenant.                *)

Change(f) ==
    /\ changes < MaxChanges
    /\ changes' = changes + 1
    /\ firing' = IF f \in firing THEN firing \ {f} ELSE firing \cup {f}
    /\ UNCHANGED <<ingestVars, streamVars, alertVars, agentVars, faults, clicks>>

(* _fetch_active_alerts                                                    *)
Fetch ==
    /\ tick = "idle"
    /\ tick' = "publishing"
    /\ reported' = firing
    /\ todo' = firing
    /\ UNCHANGED <<sourceVars, adding, streamVars, alertVars, agentVars, faults, clicks>>

InUse(e) ==
    \/ e = adding
    \/ Contains(stream, e)
    \/ \E r \in Replicas : Contains(batch[r], e)

(* publish(), first half: XADD.  What is published is a fire for each      *)
(* reported alert, and later a clear for each alert that is not reported.  *)
Add(f, e) ==
    /\ tick # "idle"
    /\ adding = NoEvent
    /\ f \in todo
    /\ ~InUse(e)
    /\ todo' = todo \ {f}
    /\ adding' = e
    /\ stream' = Append(stream, e)
    /\ event' = [event EXCEPT ![e] =
          [kind |-> IF tick = "publishing" THEN "fired" ELSE "resolved", fingerprint |-> f]]
    /\ saved' = saved \ {e}
    /\ UNCHANGED <<sourceVars, tick, reported, alertVars, agentVars, faults, clicks>>

(* publish(), second half: _persist_event.                                 *)
Save ==
    /\ adding # NoEvent
    /\ saved' = saved \cup {adding}
    /\ adding' = NoEvent
    /\ UNCHANGED <<sourceVars, tick, reported, todo, stream, event, alertVars,
                   agentVars, faults, clicks>>

(* The insert raises, and with it the whole tick; the event stays on the   *)
(* stream.                                                                 *)
SaveFails ==
    /\ adding # NoEvent
    /\ Fault("save")
    /\ adding' = NoEvent
    /\ tick' = "idle"
    /\ todo' = {}
    /\ UNCHANGED <<sourceVars, reported, streamVars, alertVars, agentVars, clicks>>

(* _resolve_cleared: the active alerts of this source that were not        *)
(* reported.                                                               *)
FindCleared ==
    /\ tick = "publishing"
    /\ todo = {}
    /\ adding = NoEvent
    /\ tick' = "clearing"
    /\ todo' = {fingerprint[a] : a \in {b \in Rows : IsActive(b)}} \ reported
    /\ UNCHANGED <<sourceVars, reported, adding, streamVars, alertVars, agentVars,
                   faults, clicks>>

EndTick ==
    /\ tick = "clearing"
    /\ todo = {}
    /\ adding = NoEvent
    /\ tick' = "idle"
    /\ UNCHANGED <<sourceVars, reported, todo, adding, streamVars, alertVars,
                   agentVars, faults, clicks>>

-----------------------------------------------------------------------------
(* Agent.run_forever on replica r.                                         *)

InHand(r) == event[Head(batch[r])]

(* XREADGROUP ">".  A bystander's should_handle skips every event, and     *)
(* subscribe acknowledges them all.                                        *)
Read(r) ==
    /\ at[r] = "idle"
    /\ batch[r] = <<>>
    /\ stream # <<>>
    /\ LET n == Min({BatchSize, Len(stream)}) IN
       /\ stream' = SubSeq(stream, n + 1, Len(stream))
       /\ batch' = IF r \in Bystanders THEN batch
                   ELSE [batch EXCEPT ![r] = SubSeq(stream, 1, n)]
    /\ UNCHANGED <<sourceVars, ingestVars, event, saved, alertVars, at, localVars,
                   faults, clicks>>

Forget(r) ==
    /\ triaged' = [triaged EXCEPT ![r] = FALSE]
    /\ hits' = [hits EXCEPT ![r] = {}]
    /\ seen' = [seen EXCEPT ![r] = 0]

(* The handler returned or raised: either way run_forever goes on and      *)
(* subscribe acknowledges the event.                                       *)
Done(r) ==
    /\ at' = [at EXCEPT ![r] = "idle"]
    /\ batch' = [batch EXCEPT ![r] = Tail(batch[r])]
    /\ Forget(r)

(* The first query of the handler: is the alert already there (_triage),   *)
(* or which alerts are there to close (_auto_resolve)?                     *)
Check(r) ==
    /\ at[r] = "idle"
    /\ batch[r] # <<>>
    /\ \/ /\ InHand(r).kind = "fired"
          /\ at' = [at EXCEPT ![r] =
                IF ActiveRows(InHand(r).fingerprint) = {} THEN "triage" ELSE "emit"]
          /\ UNCHANGED hits
       \/ /\ InHand(r).kind = "resolved"
          /\ at' = [at EXCEPT ![r] = "close"]
          /\ hits' = [hits EXCEPT ![r] = ActiveRows(InHand(r).fingerprint)]
    /\ UNCHANGED <<sourceVars, ingestVars, streamVars, alertVars, batch, triaged,
                   seen, faults, clicks>>

(* The LLM's triage, or the text that stands in for it, and the insert of  *)
(* an incident.  An incident no alert points to is not kept here.          *)
Triage(r) ==
    /\ at[r] = "triage"
    /\ at' = [at EXCEPT ![r] = "emit"]
    /\ triaged' = [triaged EXCEPT ![r] = TRUE]
    /\ UNCHANGED <<sourceVars, ingestVars, streamVars, alertVars, batch, hits, seen,
                   faults, clicks>>

(* Mutant of EmitRead: an acknowledged alert is not found.                 *)
EmitReadOpen(r) ==
    /\ at[r] = "emit"
    /\ LET found == {a \in ActiveRows(InHand(r).fingerprint) : status[a] = "open"} IN
       \/ /\ found = {}
          /\ at' = [at EXCEPT ![r] = "insert"]
          /\ UNCHANGED <<hits, seen>>
       \/ \E a \in found :
          /\ at' = [at EXCEPT ![r] = "bump"]
          /\ hits' = [hits EXCEPT ![r] = {a}]
          /\ seen' = [seen EXCEPT ![r] = count[a]]
    /\ UNCHANGED <<sourceVars, ingestVars, streamVars, alertVars, batch, triaged,
                   faults, clicks>>

(* emit_alert's own query.                                                 *)
EmitRead(r) ==
    /\ at[r] = "emit"
    /\ \/ /\ ActiveRows(InHand(r).fingerprint) = {}
          /\ at' = [at EXCEPT ![r] = "insert"]
          /\ UNCHANGED <<hits, seen>>
       \/ \E a \in ActiveRows(InHand(r).fingerprint) :
          /\ at' = [at EXCEPT ![r] = "bump"]
          /\ hits' = [hits EXCEPT ![r] = {a}]
          /\ seen' = [seen EXCEPT ![r] = count[a]]
    /\ UNCHANGED <<sourceVars, ingestVars, streamVars, alertVars, batch, triaged,
                   faults, clicks>>

Referable(r) == Head(batch[r]) \in saved

(* Mutant of EmitBump: the counter is bumped before the event is known to  *)
(* be saved, and the occurrence is not.                                    *)
EmitBumpApart(r) ==
    /\ at[r] = "bump"
    /\ count' = [a \in Rows |-> IF a \in hits[r] THEN Saturated(seen[r] + 1) ELSE count[a]]
    /\ occurrences' = [a \in Rows |-> IF a \in hits[r] /\ Referable(r)
                                      THEN Saturated(occurrences[a] + 1) ELSE occurrences[a]]
    /\ Done(r)
    /\ UNCHANGED <<sourceVars, ingestVars, streamVars, status, fingerprint, incident,
                   reopened, faults, clicks>>

EmitBump(r) ==
    /\ at[r] = "bump"
    /\ Referable(r)
    /\ count' = [a \in Rows |-> IF a \in hits[r] THEN Saturated(seen[r] + 1) ELSE count[a]]
    /\ occurrences' = [a \in Rows |-> IF a \in hits[r] THEN Saturated(occurrences[a] + 1)
                                      ELSE occurrences[a]]
    /\ Done(r)
    /\ UNCHANGED <<sourceVars, ingestVars, streamVars, status, fingerprint, incident,
                   reopened, faults, clicks>>

(* A resolved alert is only read again by a late acknowledge, so its id    *)
(* may stand for a new alert.                                              *)
Insertable(a) == ~IsActive(a) /\ \A r \in Replicas : a \notin hits[r]

EmitInsert(r, a) ==
    /\ at[r] = "insert"
    /\ Referable(r)
    /\ Insertable(a)
    /\ status' = [status EXCEPT ![a] = "open"]
    /\ fingerprint' = [fingerprint EXCEPT ![a] = InHand(r).fingerprint]
    /\ count' = [count EXCEPT ![a] = 1]
    /\ occurrences' = [occurrences EXCEPT ![a] = 1]
    /\ incident' = [incident EXCEPT ![a] = IF triaged[r] THEN "open" ELSE "none"]
    /\ Done(r)
    /\ UNCHANGED <<sourceVars, ingestVars, streamVars, reopened, faults, clicks>>

(* The foreign key to an event that is not in Postgres: the insert fails.  *)
(* The save may only be late, and losing that race is a fault.             *)
EmitUnsaved(r) ==
    /\ at[r] \in {"bump", "insert"}
    /\ ~Referable(r)
    /\ \/ Head(batch[r]) # adding /\ UNCHANGED faults
       \/ Head(batch[r]) = adding /\ Fault("race")
    /\ Done(r)
    /\ UNCHANGED <<sourceVars, ingestVars, streamVars, alertVars, clicks>>

(* Mutant of Close: an acknowledged alert is left as it is.                *)
CloseOpen(r) ==
    /\ at[r] = "close"
    /\ status' = [a \in Rows |-> IF a \in hits[r] /\ status[a] = "open"
                                 THEN "resolved" ELSE status[a]]
    /\ incident' = [a \in Rows |-> IF a \in hits[r] /\ incident[a] = "open"
                                   THEN "resolved" ELSE incident[a]]
    /\ Done(r)
    /\ UNCHANGED <<sourceVars, ingestVars, streamVars, fingerprint, count, occurrences,
                   reopened, faults, clicks>>

(* _auto_resolve_alert: the alerts it read, and their incidents.           *)
Close(r) ==
    /\ at[r] = "close"
    /\ status' = [a \in Rows |-> IF a \in hits[r] THEN "resolved" ELSE status[a]]
    /\ incident' = [a \in Rows |-> IF a \in hits[r] /\ incident[a] = "open"
                                   THEN "resolved" ELSE incident[a]]
    /\ Done(r)
    /\ UNCHANGED <<sourceVars, ingestVars, streamVars, fingerprint, count, occurrences,
                   reopened, faults, clicks>>

(* Anything else the handler raises: the event is gone.                    *)
HandleFails(r) ==
    /\ at[r] \notin {"idle", "dead"}
    /\ Fault("handler")
    /\ Done(r)
    /\ UNCHANGED <<sourceVars, ingestVars, streamVars, alertVars, clicks>>

(* The process is replaced.  What it had read stays pending in the group   *)
(* under the name of a consumer that does not exist any more.              *)
Crash(r) ==
    /\ at[r] # "dead"
    /\ batch[r] # <<>>
    /\ Fault("crash")
    /\ at' = [at EXCEPT ![r] = "idle"]
    /\ batch' = [batch EXCEPT ![r] = <<>>]
    /\ Forget(r)
    /\ UNCHANGED <<sourceVars, ingestVars, streamVars, alertVars, clicks>>

(* _record_run_start and _record_run_end are outside the handler's try: an *)
(* error there ends the task, and agent_runner only looks at its tasks     *)
(* when it shuts down.                                                     *)
Die(r) ==
    /\ at[r] = "idle"
    /\ batch[r] # <<>>
    /\ Fault("death")
    /\ at' = [at EXCEPT ![r] = "dead"]
    /\ batch' = [batch EXCEPT ![r] = <<>>]
    /\ UNCHANGED <<sourceVars, ingestVars, streamVars, alertVars, localVars, clicks>>

(* Somebody notices, and restarts the pod.                                 *)
Restart(r) ==
    /\ at[r] = "dead"
    /\ at' = [at EXCEPT ![r] = "idle"]
    /\ UNCHANGED <<sourceVars, ingestVars, streamVars, alertVars, batch, localVars,
                   faults, clicks>>

-----------------------------------------------------------------------------
(* POST /alerts/{id}/acknowledge and /resolve check nothing; the page      *)
(* offers the first on open alerts and the second on active ones, and may  *)
(* be out of date.                                                         *)
Acknowledge(a) ==
    /\ status[a] \in AckFrom
    /\ clicks < MaxClicks
    /\ clicks' = clicks + 1
    /\ status' = [status EXCEPT ![a] = "acknowledged"]
    /\ reopened' = reopened + (IF IsActive(a) THEN 0 ELSE 1)
    /\ UNCHANGED <<sourceVars, ingestVars, streamVars, fingerprint, count, occurrences,
                   incident, agentVars, faults>>

(* Mutant of Resolve: the wrong member of the enumeration.                 *)
ResolveSuppressed(a) ==
    /\ IsActive(a)
    /\ clicks < MaxClicks
    /\ clicks' = clicks + 1
    /\ status' = [status EXCEPT ![a] = "suppressed"]
    /\ UNCHANGED <<sourceVars, ingestVars, streamVars, fingerprint, count, occurrences,
                   incident, reopened, agentVars, faults>>

Resolve(a) ==
    /\ IsActive(a)
    /\ clicks < MaxClicks
    /\ clicks' = clicks + 1
    /\ status' = [status EXCEPT ![a] = "resolved"]
    /\ UNCHANGED <<sourceVars, ingestVars, streamVars, fingerprint, count, occurrences,
                   incident, reopened, agentVars, faults>>

-----------------------------------------------------------------------------
IngestStep ==
    \/ Fetch
    \/ \E f \in Fingerprints, e \in Events : Add(f, e)
    \/ Save
    \/ FindCleared
    \/ EndTick

AgentStep(r) ==
    \/ Read(r)
    \/ Check(r)
    \/ Triage(r)
    \/ EmitRead(r)
    \/ EmitBump(r)
    \/ \E a \in Rows : EmitInsert(r, a)
    \/ EmitUnsaved(r)
    \/ Close(r)

AgentFault(r) == HandleFails(r) \/ Crash(r) \/ Die(r) \/ Restart(r)

Next ==
    \/ \E f \in Fingerprints : Change(f)
    \/ IngestStep
    \/ SaveFails
    \/ \E r \in Replicas : AgentStep(r) \/ AgentFault(r)
    \/ \E a \in Rows : Acknowledge(a) \/ Resolve(a)

Spec == Init /\ [][Next]_vars

(* The beat keeps ticking and a live agent keeps reading and handling;     *)
(* nobody has to click, and nobody has to restart a dead agent.            *)
Fairness == WF_vars(IngestStep) /\ \A r \in Replicas : WF_vars(AgentStep(r))

FairSpec == Spec /\ Fairness

(* A tenant whose operators do restart a dead agent.                       *)
WatchedSpec == FairSpec /\ \A r \in Replicas : WF_vars(Restart(r))

-----------------------------------------------------------------------------
(* emit_alert "deduplicates re-fires of the same logical alert": however   *)
(* often a signal fires, clears, is acknowledged or is resolved by hand,   *)
(* it has no more active alerts than there are replicas that may find none *)
(* at the same time, and one more for each acknowledge that made a closed  *)
(* alert active again.  With one replica and a page that is up to date     *)
(* that is one.                                                            *)
ActiveAlertsBounded ==
    \A f \in Fingerprints :
        Cardinality(ActiveRows(f)) <= Cardinality(Replicas \ Bystanders) + reopened

(* The counter of an alert is the number of fires on its timeline          *)
(* ("bumps the parent's counters", core/agents.py), whatever fails on the  *)
(* way from the signal to the two rows.                                    *)
CountMatchesOccurrences == \A a \in Rows : count[a] = occurrences[a]

(* Once a signal stays as it is, the page ends up agreeing with it: an     *)
(* active alert if it fires, none if it does not, whatever was lost,       *)
(* failed, crashed or resolved by hand before.                             *)
AlertsFollowSignals ==
    \A f \in Fingerprints : <>[](f \in firing <=> ActiveRows(f) # {})
=============================================================================
