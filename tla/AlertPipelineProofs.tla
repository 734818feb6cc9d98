------------------------- MODULE AlertPipelineProofs -------------------------
(***************************************************************************)
(* Theorems about AlertPipeline, for any number of signals, events, alerts *)
(* and faults: types; that a signal has no more active alerts than there   *)
(* are replicas and late acknowledges, and so one when there is one and    *)
(* none; and that the counter of an alert is never ahead of its timeline,  *)
(* nor behind with one replica.  None of them is inductive: emit_alert     *)
(* decides in one step and writes in a later one.                          *)
(***************************************************************************)
EXTENDS AlertPipeline, SequenceTheorems, FiniteSetTheorems, TLAPS

(* A replica that handles something has it in hand.                        *)
HandIsFull == \A r \in Replicas : at[r] \notin {"idle", "dead"} => batch[r] # <<>>

TInv == TypeOK /\ HandIsFull /\ reopened <= clicks

LEMMA InitTInv == Init => TInv
  BY PipelineAssumption DEF Init, TInv, TypeOK, HandIsFull

LEMMA SaturatedType == \A n \in Nat : Saturated(n) \in 0 .. MaxCount
  BY PipelineAssumption DEF Saturated

(* What run_forever does after a handler, whatever became of it.           *)
LEMMA DoneType ==
    ASSUME TInv, NEW r \in Replicas, at[r] \notin {"idle", "dead"}, Done(r)
    PROVE  /\ at' \in [Replicas -> {"idle", "triage", "emit", "bump", "insert",
                                    "close", "dead"}]
           /\ batch' \in [Replicas -> Seq(Events)]
           /\ triaged' \in [Replicas -> BOOLEAN]
           /\ hits' \in [Replicas -> SUBSET Rows]
           /\ seen' \in [Replicas -> 0 .. MaxCount]
           /\ \A q \in Replicas : at'[q] \notin {"idle", "dead"} => batch'[q] # <<>>
  <1> USE PipelineAssumption DEF TInv, TypeOK, HandIsFull, Done, Forget
  <1>1. batch[r] \in Seq(Events) /\ batch[r] # <<>>
    OBVIOUS
  <1>2. Tail(batch[r]) \in Seq(Events)
    BY <1>1
  <1>3. QED
    BY <1>2

LEMMA InHandType ==
    ASSUME TInv, NEW r \in Replicas, batch[r] # <<>>
    PROVE  /\ Head(batch[r]) \in Events
           /\ InHand(r) \in [kind: {"fired", "resolved"}, fingerprint: Fingerprints]
           /\ InHand(r).fingerprint \in Fingerprints
  <1>1. batch[r] \in Seq(Events)
    BY DEF TInv, TypeOK
  <1>2. Head(batch[r]) \in Events
    BY <1>1
  <1>3. QED
    BY <1>2 DEF TInv, TypeOK, InHand

-----------------------------------------------------------------------------
LEMMA TInvIngest == TInv /\ (IngestStep \/ SaveFails) => TInv'
  <1> SUFFICES ASSUME TInv, IngestStep \/ SaveFails
               PROVE  TInv'
    OBVIOUS
  <1> USE PipelineAssumption DEF TInv, TypeOK, HandIsFull
  <1>1. CASE Fetch
    BY <1>1 DEF Fetch, sourceVars, streamVars, alertVars, agentVars
  <1>2. ASSUME NEW f \in Fingerprints, NEW e \in Events, Add(f, e)
        PROVE  TInv'
    <2> DEFINE new == [kind |-> IF tick = "publishing" THEN "fired" ELSE "resolved",
                       fingerprint |-> f]
    <2>1. new \in [kind: {"fired", "resolved"}, fingerprint: Fingerprints]
      OBVIOUS
    <2>2. event' = [event EXCEPT ![e] = new]
      BY <1>2 DEF Add
    <2> HIDE DEF new
    <2>3. Append(stream, e) \in Seq(Events)
      OBVIOUS
    <2>4. QED
      BY <1>2, <2>1, <2>2, <2>3 DEF Add, sourceVars, alertVars, agentVars
  <1>3. CASE Save
    BY <1>3 DEF Save, sourceVars, alertVars, agentVars
  <1>4. CASE FindCleared
    <2>1. {fingerprint[a] : a \in {b \in Rows : IsActive(b)}} \ reported
             \subseteq Fingerprints
      OBVIOUS
    <2>2. QED
      BY <1>4, <2>1 DEF FindCleared, sourceVars, streamVars, alertVars, agentVars
  <1>5. CASE EndTick
    BY <1>5 DEF EndTick, sourceVars, streamVars, alertVars, agentVars
  <1>6. CASE SaveFails
    BY <1>6 DEF SaveFails, Fault, sourceVars, streamVars, alertVars, agentVars
  <1>7. QED
    BY <1>1, <1>2, <1>3, <1>4, <1>5, <1>6 DEF IngestStep

LEMMA TInvAgent ==
    ASSUME TInv, NEW r \in Replicas, AgentStep(r)
    PROVE  TInv'
  <1> USE PipelineAssumption DEF TInv, TypeOK, HandIsFull
  <1>1. CASE Read(r)
    <2> DEFINE n == Min({BatchSize, Len(stream)})
    <2>1. Len(stream) \in Nat
      OBVIOUS
    <2> DEFINE Sizes == {BatchSize, Len(stream)}
    <2>2. \E m \in Sizes : \A k \in Sizes : m <= k
      <3>1. CASE BatchSize <= Len(stream)
        BY <3>1, <2>1
      <3>2. CASE Len(stream) <= BatchSize
        BY <3>2, <2>1
      <3>3. QED
        BY <3>1, <3>2, <2>1
    <2>3. n \in 0 .. Len(stream)
      <3> HIDE DEF TypeOK
      <3>1. n \in Sizes /\ \A k \in Sizes : n <= k
        BY <2>2 DEF Min
      <3>2. QED
        BY <3>1, <2>1
    <2> HIDE DEF n
    <2>4. /\ SubSeq(stream, n + 1, Len(stream)) \in Seq(Events)
          /\ SubSeq(stream, 1, n) \in Seq(Events)
      BY <2>1, <2>3
    <2>5. /\ stream' = SubSeq(stream, n + 1, Len(stream))
          /\ batch' = IF r \in Bystanders THEN batch
                      ELSE [batch EXCEPT ![r] = SubSeq(stream, 1, n)]
      BY <1>1 DEF Read, n
    <2>6. QED
      BY <1>1, <2>4, <2>5 DEF Read, sourceVars, ingestVars, alertVars, localVars
  <1>2. CASE Check(r)
    <2> DEFINE found == ActiveRows(InHand(r).fingerprint)
    <2>1. found \subseteq Rows
      BY DEF ActiveRows
    <2>2. /\ batch[r] # <<>>
          /\ \E l \in {"triage", "emit", "close"} : at' = [at EXCEPT ![r] = l]
          /\ hits' = hits \/ hits' = [hits EXCEPT ![r] = found]
      BY <1>2 DEF Check
    <2> HIDE DEF found
    <2>3. QED
      BY <1>2, <2>1, <2>2 DEF Check, sourceVars, ingestVars, streamVars, alertVars
  <1>3. CASE Triage(r)
    BY <1>3 DEF Triage, sourceVars, ingestVars, streamVars, alertVars
  <1>4. CASE EmitRead(r)
    <2>1. \A a \in ActiveRows(InHand(r).fingerprint) : a \in Rows
      BY DEF ActiveRows
    <2>2. /\ at[r] = "emit"
          /\ \E l \in {"insert", "bump"} : at' = [at EXCEPT ![r] = l]
          /\ \/ hits' = hits /\ seen' = seen
             \/ \E a \in Rows : /\ hits' = [hits EXCEPT ![r] = {a}]
                               /\ seen' = [seen EXCEPT ![r] = count[a]]
      BY <1>4, <2>1 DEF EmitRead
    <2>3. hits' \in [Replicas -> SUBSET Rows] /\ seen' \in [Replicas -> 0 .. MaxCount]
      <3>1. CASE hits' = hits /\ seen' = seen
        BY <3>1
      <3>2. ASSUME NEW a \in Rows, hits' = [hits EXCEPT ![r] = {a}],
                   seen' = [seen EXCEPT ![r] = count[a]]
            PROVE  hits' \in [Replicas -> SUBSET Rows] /\ seen' \in [Replicas -> 0 .. MaxCount]
        BY <3>2
      <3>3. QED
        BY <2>2, <3>1, <3>2
    <2>4. /\ at' \in [Replicas -> {"idle", "triage", "emit", "bump", "insert",
                                    "close", "dead"}]
          /\ \A q \in Replicas : at'[q] \notin {"idle", "dead"} => batch[q] # <<>>
      BY <2>2
    <2>5. QED
      BY <1>4, <2>3, <2>4 DEF EmitRead, sourceVars, ingestVars, streamVars, alertVars
  <1>5. CASE EmitBump(r)
    <2>1. /\ Saturated(seen[r] + 1) \in 0 .. MaxCount
          /\ \A a \in Rows : Saturated(occurrences[a] + 1) \in 0 .. MaxCount
      <3>1. seen[r] + 1 \in Nat /\ \A a \in Rows : occurrences[a] + 1 \in Nat
        OBVIOUS
      <3>2. QED
        BY <3>1, SaturatedType
    <2>2. QED
      BY <1>5, <2>1, DoneType DEF EmitBump, sourceVars, ingestVars, streamVars
  <1>6. ASSUME NEW a \in Rows, EmitInsert(r, a)
        PROVE  TInv'
    <2>1. InHand(r).fingerprint \in Fingerprints
      BY <1>6, InHandType DEF EmitInsert
    <2>2. Done(r) /\ at[r] \notin {"idle", "dead"}
      BY <1>6 DEF EmitInsert
    <2>3. /\ status' \in [Rows -> Active \cup {"resolved", "absent"}]
          /\ fingerprint' \in [Rows -> Fingerprints]
      BY <1>6, <2>1 DEF EmitInsert, Active
    <2>4. /\ count' \in [Rows -> 0 .. MaxCount]
          /\ occurrences' \in [Rows -> 0 .. MaxCount]
          /\ incident' \in [Rows -> {"none", "open", "resolved"}]
      BY <1>6 DEF EmitInsert
    <2>5. QED
      BY <1>6, <2>2, <2>3, <2>4, DoneType DEF EmitInsert, sourceVars, ingestVars, streamVars
  <1>7. CASE EmitUnsaved(r)
    <2>1. /\ Done(r) /\ at[r] \notin {"idle", "dead"}
          /\ faults' = faults \/ Fault("race")
      BY <1>7 DEF EmitUnsaved
    <2>2. faults' \in 0 .. MaxFaults
      BY <2>1 DEF Fault
    <2>3. QED
      BY <1>7, <2>1, <2>2, DoneType
         DEF EmitUnsaved, sourceVars, ingestVars, streamVars, alertVars
  <1>8. CASE Close(r)
    BY <1>8, DoneType DEF Close, sourceVars, ingestVars, streamVars
  <1>9. QED
    BY <1>1, <1>2, <1>3, <1>4, <1>5, <1>6, <1>7, <1>8 DEF AgentStep

LEMMA TInvFault ==
    ASSUME TInv, NEW r \in Replicas, AgentFault(r)
    PROVE  TInv'
  <1> USE PipelineAssumption DEF TInv, TypeOK, HandIsFull
  <1>1. CASE HandleFails(r)
    BY <1>1, DoneType DEF HandleFails, Fault, sourceVars, ingestVars, streamVars, alertVars
  <1>2. CASE Crash(r)
    BY <1>2 DEF Crash, Forget, Fault, sourceVars, ingestVars, streamVars, alertVars
  <1>3. CASE Die(r)
    BY <1>3 DEF Die, Fault, sourceVars, ingestVars, streamVars, alertVars, localVars
  <1>4. CASE Restart(r)
    BY <1>4 DEF Restart, sourceVars, ingestVars, streamVars, alertVars, localVars
  <1>5. QED
    BY <1>1, <1>2, <1>3, <1>4 DEF AgentFault

LEMMA TInvStep == TInv /\ [Next]_vars => TInv'
  <1> SUFFICES ASSUME TInv, [Next]_vars
               PROVE  TInv'
    OBVIOUS
  <1>1. ASSUME NEW f \in Fingerprints, Change(f)
        PROVE  TInv'
    BY <1>1, PipelineAssumption
       DEF TInv, TypeOK, HandIsFull, Change, ingestVars, streamVars, alertVars, agentVars
  <1>2. ASSUME NEW a \in Rows, Acknowledge(a) \/ Resolve(a)
        PROVE  TInv'
    <2> USE PipelineAssumption DEF TInv, TypeOK, HandIsFull
    <2>1. /\ \E new \in {"acknowledged", "resolved"} : status' = [status EXCEPT ![a] = new]
          /\ clicks' \in 0 .. MaxClicks
      BY <1>2 DEF Acknowledge, Resolve
    <2>2. status' \in [Rows -> Active \cup {"resolved", "absent"}]
      BY <2>1 DEF Active
    <2>3. reopened' \in 0 .. MaxClicks /\ reopened' <= clicks'
      BY <1>2, <2>1 DEF Acknowledge, Resolve
    <2>4. QED
      BY <1>2, <2>1, <2>2, <2>3
         DEF Acknowledge, Resolve, sourceVars, ingestVars, streamVars, agentVars
  <1>3. CASE UNCHANGED vars
    BY <1>3 DEF TInv, TypeOK, HandIsFull, vars, sourceVars, ingestVars, streamVars,
                alertVars, agentVars
  <1>4. QED
    BY <1>1, <1>2, <1>3, TInvIngest, TInvAgent, TInvFault DEF Next

(* Every variable keeps its type, and the statuses an alert takes are the  *)
(* three the page has tabs for.                                            *)
THEOREM PipelineTypes == Spec => []TypeOK
  <1>1. TInv => TypeOK
    BY DEF TInv
  <1>2. QED
    BY <1>1, InitTInv, TInvStep, PTL DEF Spec
-----------------------------------------------------------------------------
FinitePool == IsFiniteSet(Replicas)

(* Replicas of an agent that handles alert events.                         *)
Handlers == Replicas \ Bystanders

(* A bystander reads events only to drop them.                             *)
BystandersIdle == \A r \in Replicas \cap Bystanders : at[r] = "idle" /\ batch[r] = <<>>

(* Replicas that found no active alert for f and will insert one.          *)
Inserting(f) == {r \in Replicas : at[r] = "insert" /\ InHand(r).fingerprint = f}

(* No replica is about to insert but one that found no alert, and nobody   *)
(* finds none while an alert is active: what the replicas insert side by   *)
(* side is counted from the last time there was none.                      *)
Budget(f) ==
    /\ IsFiniteSet(ActiveRows(f))
    /\ Cardinality(ActiveRows(f)) + Cardinality(Inserting(f))
          <= Cardinality(Handlers) + reopened

AInv == TInv /\ BystandersIdle /\ \A f \in Fingerprints : Budget(f)

(* The event in a replica's hand does not change while it is there.        *)
LEMMA HandIsStable ==
    ASSUME TInv, [Next]_vars, NEW r \in Replicas,
           at[r] \notin {"idle", "dead"}, batch'[r] = batch[r]
    PROVE  InHand(r)' = InHand(r)
  <1> USE DEF TInv, TypeOK, HandIsFull
  <1>1. Head(batch[r]) \in Events /\ Contains(batch[r], Head(batch[r]))
    <2>1. batch[r] \in Seq(Events) /\ batch[r] # <<>>
      OBVIOUS
    <2>2. QED
      BY <2>1 DEF Contains
  <1>2. ASSUME NEW f \in Fingerprints, NEW e \in Events, Add(f, e)
        PROVE  event'[Head(batch[r])] = event[Head(batch[r])]
    <2>1. e # Head(batch[r])
      BY <1>1, <1>2 DEF Add, InUse
    <2> DEFINE new == [kind |-> IF tick = "publishing" THEN "fired" ELSE "resolved",
                       fingerprint |-> f]
    <2>2. event' = [event EXCEPT ![e] = new]
      BY <1>2 DEF Add
    <2> HIDE DEF new
    <2>3. QED
      BY <1>1, <2>1, <2>2
  <1>3. CASE event' = event
    BY <1>3 DEF InHand
  <1>4. (\E f \in Fingerprints, e \in Events : Add(f, e)) \/ event' = event
    BY DEF Next, IngestStep, AgentStep, AgentFault, Change, Fetch, Save, FindCleared, EndTick,
           SaveFails, Read, Check, Triage, EmitRead, EmitBump, EmitInsert, EmitUnsaved,
           Close, HandleFails, Crash, Die, Restart, Acknowledge, Resolve, vars, streamVars
  <1>5. QED
    BY <1>2, <1>3, <1>4 DEF InHand

(* The statuses an alert may lose and gain: only emit_alert's insert and a *)
(* late acknowledge make one active.                                       *)
LEMMA ActiveOnlyFromInserts ==
    ASSUME TInv, [Next]_vars,
           ~ \E r \in Replicas, a \in Rows : EmitInsert(r, a),
           ~ \E a \in Rows : Acknowledge(a) /\ ~IsActive(a)
    PROVE  /\ \A f \in Fingerprints : ActiveRows(f)' \subseteq ActiveRows(f)
           /\ reopened' = reopened
  <1> USE DEF TInv, TypeOK, IsActive, ActiveRows
  <1>1. CASE UNCHANGED <<status, fingerprint, reopened>>
    BY <1>1
  <1>2. ASSUME NEW b \in Rows, Acknowledge(b) /\ IsActive(b)
        PROVE  /\ \A f \in Fingerprints : ActiveRows(f)' \subseteq ActiveRows(f)
               /\ reopened' = reopened
    BY <1>2 DEF Acknowledge
  <1>3. ASSUME NEW b \in Rows, Resolve(b)
        PROVE  /\ \A f \in Fingerprints : ActiveRows(f)' \subseteq ActiveRows(f)
               /\ reopened' = reopened
    BY <1>3 DEF Resolve
  <1>4. ASSUME NEW r \in Replicas, Close(r)
        PROVE  /\ \A f \in Fingerprints : ActiveRows(f)' \subseteq ActiveRows(f)
               /\ reopened' = reopened
    BY <1>4 DEF Close, Active
  <1>5. \/ UNCHANGED <<status, fingerprint, reopened>>
        \/ \E b \in Rows : Acknowledge(b) /\ IsActive(b)
        \/ \E b \in Rows : Resolve(b)
        \/ \E r \in Replicas : Close(r)
    BY DEF Next, IngestStep, AgentStep, AgentFault, Change, Fetch, Add, Save, FindCleared,
           EndTick, SaveFails, Read, Check, Triage, EmitRead, EmitBump, EmitUnsaved,
           HandleFails, Crash, Die, Restart, vars, alertVars
  <1>6. QED
    BY <1>1, <1>2, <1>3, <1>4, <1>5

(* And only emit_alert's query sends a replica to its insert.              *)
LEMMA InsertsOnlyFromReads ==
    ASSUME TInv, [Next]_vars, NEW f \in Fingerprints, ActiveRows(f) # {}
    PROVE  Inserting(f)' \subseteq Inserting(f)
  <1>1. SUFFICES ASSUME NEW r \in Replicas, at'[r] = "insert", InHand(r)'.fingerprint = f
                 PROVE  at[r] = "insert" /\ InHand(r).fingerprint = f
    BY DEF Inserting
  <1>2. /\ batch'[r] = batch[r]
        /\ \/ at[r] = "insert"
           \/ at[r] = "emit" /\ ActiveRows(InHand(r).fingerprint) = {}
    <2> USE DEF TInv, TypeOK
    <2>1. CASE \E q \in Replicas : EmitRead(q)
      BY <1>1, <2>1 DEF EmitRead
    <2>2. CASE UNCHANGED <<at, batch>>
      BY <1>1, <2>2
    <2>3. CASE \E q \in Replicas : Read(q)
      BY <1>1, <2>3 DEF Read, HandIsFull
    <2>4. CASE \E q \in Replicas : Check(q) \/ Triage(q) \/ Die(q) \/ Restart(q)
      BY <1>1, <2>4 DEF Check, Triage, Die, Restart
    <2>5. CASE \E q \in Replicas : Done(q)
      BY <1>1, <2>5 DEF Done
    <2>6. CASE \E q \in Replicas : Crash(q)
      BY <1>1, <2>6 DEF Crash
    <2>7. QED
      BY <2>1, <2>2, <2>3, <2>4, <2>5, <2>6
         DEF Next, IngestStep, AgentStep, AgentFault, Change, Fetch, Add, Save,
             FindCleared, EndTick, SaveFails, EmitBump, EmitInsert, EmitUnsaved, Close,
             HandleFails, Acknowledge, Resolve, vars, agentVars
  <1>3. InHand(r)' = InHand(r)
    BY <1>2, HandIsStable
  <1>4. QED
    BY <1>1, <1>2, <1>3

LEMMA BystandersStep ==
    ASSUME TInv, BystandersIdle, [Next]_vars
    PROVE  BystandersIdle'
  <1> USE DEF TInv, TypeOK, BystandersIdle
  <1>1. CASE UNCHANGED <<at, batch>>
    BY <1>1
  <1>2. CASE \E q \in Replicas : Read(q)
    BY <1>2 DEF Read
  <1>3. CASE \E q \in Replicas : Check(q) \/ Die(q) \/ Crash(q)
    BY <1>3 DEF Check, Die, Crash
  <1>4. CASE \E q \in Replicas : Triage(q) \/ EmitRead(q) \/ Restart(q)
    BY <1>4 DEF Triage, EmitRead, Restart
  <1>5. CASE \E q \in Replicas : at[q] \notin {"idle", "dead"} /\ Done(q)
    BY <1>5 DEF Done
  <1>6. QED
    BY <1>1, <1>2, <1>3, <1>4, <1>5
       DEF Next, IngestStep, AgentStep, AgentFault, Change, Fetch, Add, Save,
           FindCleared, EndTick, SaveFails, EmitBump, EmitInsert, EmitUnsaved, Close,
           HandleFails, Acknowledge, Resolve, vars, agentVars

-----------------------------------------------------------------------------
LEMMA HandlersFinite ==
    ASSUME FinitePool
    PROVE  IsFiniteSet(Handlers) /\ Cardinality(Handlers) \in Nat
  <1>1. Handlers \in SUBSET Replicas
    BY DEF Handlers
  <1>2. QED
    BY <1>1, FS_Subset, FS_CardinalityType DEF FinitePool

LEMMA InsertingFinite ==
    ASSUME FinitePool, BystandersIdle, NEW f
    PROVE  /\ IsFiniteSet(Inserting(f))
           /\ Cardinality(Inserting(f)) \in Nat
           /\ Cardinality(Inserting(f)) <= Cardinality(Handlers)
  <1>1. Inserting(f) \in SUBSET Handlers
    BY DEF Handlers, Inserting, BystandersIdle
  <1>2. QED
    BY <1>1, HandlersFinite, FS_Subset, FS_CardinalityType

(* One alert more, whichever it is.                                        *)
LEMMA OneMore ==
    ASSUME NEW S, IsFiniteSet(S), NEW a, NEW T, T \subseteq S \cup {a}
    PROVE  /\ IsFiniteSet(T)
           /\ Cardinality(T) \in Nat
           /\ Cardinality(S) \in Nat
           /\ Cardinality(T) <= Cardinality(S) + 1
  <1>1. Cardinality(S) \in Nat
    BY FS_CardinalityType
  <1>2. /\ IsFiniteSet(S \cup {a})
        /\ Cardinality(S \cup {a}) <= Cardinality(S) + 1
    BY <1>1, FS_AddElement
  <1>3. IsFiniteSet(T) /\ Cardinality(T) <= Cardinality(S \cup {a})
    BY <1>2, FS_Subset
  <1>4. Cardinality(T) \in Nat /\ Cardinality(S \cup {a}) \in Nat
    BY <1>2, <1>3, FS_CardinalityType
  <1>5. QED
    BY <1>1, <1>2, <1>3, <1>4

(* While no alert is active, the replicas are all there is to count.       *)
LEMMA BudgetEmpty ==
    ASSUME FinitePool, TypeOK, BystandersIdle, NEW f, ActiveRows(f) = {}
    PROVE  Budget(f)
  <1>1. IsFiniteSet(ActiveRows(f)) /\ Cardinality(ActiveRows(f)) = 0
    BY FS_EmptySet
  <1>2. reopened \in Nat
    BY DEF TypeOK
  <1>3. QED
    BY <1>1, <1>2, InsertingFinite, HandlersFinite DEF Budget

LEMMA BudgetKept ==
    ASSUME FinitePool, TypeOK, BystandersIdle, NEW f, Budget(f),
           ActiveRows(f)' \subseteq ActiveRows(f),
           Inserting(f)' \subseteq Inserting(f),
           reopened' = reopened
    PROVE  Budget(f)'
  <1>1. /\ IsFiniteSet(ActiveRows(f)')
        /\ Cardinality(ActiveRows(f)') \in Nat
        /\ Cardinality(ActiveRows(f)) \in Nat
        /\ Cardinality(ActiveRows(f)') <= Cardinality(ActiveRows(f))
    BY FS_Subset, FS_CardinalityType DEF Budget
  <1>2. /\ Cardinality(Inserting(f)') \in Nat
        /\ Cardinality(Inserting(f)) \in Nat
        /\ Cardinality(Inserting(f)') <= Cardinality(Inserting(f))
    BY InsertingFinite, FS_Subset, FS_CardinalityType
  <1>3. reopened \in Nat /\ Cardinality(Handlers) \in Nat
    BY HandlersFinite DEF TypeOK
  <1>4. Cardinality(ActiveRows(f)) + Cardinality(Inserting(f))
          <= Cardinality(Handlers) + reopened
    BY DEF Budget
  <1>5. Cardinality(ActiveRows(f)') + Cardinality(Inserting(f)')
          <= Cardinality(Handlers) + reopened'
    BY <1>1, <1>2, <1>3, <1>4
  <1>6. Handlers' = Handlers
    BY DEF Handlers
  <1>7. QED
    BY <1>1, <1>5, <1>6 DEF Budget

(* The insert: one replica fewer that will insert, one alert more.         *)
LEMMA BudgetInsert ==
    ASSUME FinitePool, AInv, [Next]_vars, NEW r \in Replicas, NEW a \in Rows,
           EmitInsert(r, a), NEW f \in Fingerprints, ActiveRows(f)' # {}
    PROVE  Budget(f)'
  <1> USE DEF AInv
  <1>1. /\ \A b \in Rows \ {a} : status'[b] = status[b] /\ fingerprint'[b] = fingerprint[b]
        /\ status'[a] = "open" /\ fingerprint'[a] = InHand(r).fingerprint
        /\ ~IsActive(a) /\ reopened' = reopened
        /\ at[r] = "insert" /\ at'[r] = "idle"
        /\ \A q \in Replicas \ {r} : at'[q] = at[q] /\ batch'[q] = batch[q]
    BY DEF EmitInsert, Insertable, Done, TInv, TypeOK
  <1>2. Inserting(f)' \subseteq Inserting(f) \ {r}
    <2>1. SUFFICES ASSUME NEW q \in Replicas, at'[q] = "insert", InHand(q)'.fingerprint = f
                   PROVE  q # r /\ at[q] = "insert" /\ InHand(q).fingerprint = f
      BY DEF Inserting
    <2>2. q # r /\ at[q] = "insert" /\ batch'[q] = batch[q]
      BY <1>1, <2>1
    <2>3. InHand(q)' = InHand(q)
      BY <2>2, HandIsStable
    <2>4. QED
      BY <2>1, <2>2, <2>3
  <1>3. CASE InHand(r).fingerprint # f
    <2>1. ActiveRows(f)' \subseteq ActiveRows(f)
      BY <1>1, <1>3 DEF ActiveRows, IsActive
    <2>2. QED
      BY <1>1, <1>2, <2>1, BudgetKept DEF TInv
  <1>4. CASE InHand(r).fingerprint = f
    <2>1. ActiveRows(f)' \subseteq ActiveRows(f) \cup {a}
      BY <1>1 DEF ActiveRows, IsActive
    <2>2. IsFiniteSet(ActiveRows(f)) /\ IsFiniteSet(Inserting(f))
      BY InsertingFinite DEF Budget
    <2>3. /\ IsFiniteSet(ActiveRows(f)')
          /\ Cardinality(ActiveRows(f)') \in Nat
          /\ Cardinality(ActiveRows(f)) \in Nat
          /\ Cardinality(ActiveRows(f)') <= Cardinality(ActiveRows(f)) + 1
      BY <2>1, <2>2, OneMore
    <2>4. /\ IsFiniteSet(Inserting(f) \ {r})
          /\ Cardinality(Inserting(f) \ {r}) = Cardinality(Inserting(f)) - 1
      <3>1. r \in Inserting(f)
        BY <1>1, <1>4 DEF Inserting
      <3>2. QED
        BY <2>2, <3>1, FS_RemoveElement
    <2>5. /\ Cardinality(Inserting(f)') \in Nat
          /\ Cardinality(Inserting(f)') <= Cardinality(Inserting(f) \ {r})
      BY <1>2, <2>4, FS_Subset, FS_CardinalityType
    <2>6. /\ Cardinality(ActiveRows(f)) + Cardinality(Inserting(f))
               <= Cardinality(Handlers) + reopened
          /\ Cardinality(Inserting(f)) \in Nat
          /\ Cardinality(Handlers) \in Nat /\ reopened \in Nat
      BY InsertingFinite, HandlersFinite DEF Budget, TInv, TypeOK
    <2>7. Cardinality(ActiveRows(f)') + Cardinality(Inserting(f)')
            <= Cardinality(Handlers) + reopened'
      BY <1>1, <2>3, <2>4, <2>5, <2>6
    <2>8. Handlers' = Handlers
      BY DEF Handlers
    <2>9. QED
      BY <2>3, <2>7, <2>8 DEF Budget
  <1>5. QED
    BY <1>3, <1>4

(* A late acknowledge: one alert more, and counted as such.                *)
LEMMA BudgetReopen ==
    ASSUME FinitePool, AInv, [Next]_vars, NEW a \in Rows,
           Acknowledge(a), ~IsActive(a), NEW f \in Fingerprints
    PROVE  Budget(f)'
  <1> USE DEF AInv
  <1>1. /\ \A b \in Rows \ {a} : status'[b] = status[b]
        /\ reopened' = reopened + 1
        /\ UNCHANGED <<fingerprint, at, batch, event>>
    BY DEF Acknowledge, TInv, TypeOK, agentVars, streamVars
  <1>2. ActiveRows(f)' \subseteq ActiveRows(f) \cup {a}
    BY <1>1 DEF ActiveRows, IsActive
  <1>3. Inserting(f)' = Inserting(f)
    BY <1>1 DEF Inserting, InHand
  <1>4. IsFiniteSet(ActiveRows(f))
    BY DEF Budget
  <1>5. /\ IsFiniteSet(ActiveRows(f)')
        /\ Cardinality(ActiveRows(f)') \in Nat
        /\ Cardinality(ActiveRows(f)) \in Nat
        /\ Cardinality(ActiveRows(f)') <= Cardinality(ActiveRows(f)) + 1
    BY <1>2, <1>4, OneMore
  <1>6. /\ Cardinality(ActiveRows(f)) + Cardinality(Inserting(f))
             <= Cardinality(Handlers) + reopened
        /\ Cardinality(Inserting(f)) \in Nat
        /\ Cardinality(Handlers) \in Nat /\ reopened \in Nat
    BY InsertingFinite, HandlersFinite DEF Budget, TInv, TypeOK
  <1>7. Cardinality(ActiveRows(f)') + Cardinality(Inserting(f)')
          <= Cardinality(Handlers) + reopened'
    BY <1>1, <1>3, <1>5, <1>6
  <1>8. Handlers' = Handlers
    BY DEF Handlers
  <1>9. QED
    BY <1>5, <1>7, <1>8 DEF Budget

LEMMA AInvStep == FinitePool /\ AInv /\ [Next]_vars => AInv'
  <1> SUFFICES ASSUME FinitePool, AInv, [Next]_vars
               PROVE  AInv'
    OBVIOUS
  <1>1. TInv' /\ BystandersIdle'
    BY TInvStep, BystandersStep DEF AInv
  <1>2. ASSUME NEW f \in Fingerprints
        PROVE  Budget(f)'
    <2>1. CASE ActiveRows(f)' = {}
      <3>1. /\ IsFiniteSet(ActiveRows(f)') /\ Cardinality(ActiveRows(f)') = 0
            /\ Inserting(f)' \in SUBSET Handlers
            /\ Handlers' = Handlers
        BY <1>1, <2>1, FS_EmptySet DEF Handlers, Inserting, BystandersIdle
      <3>2. IsFiniteSet(Handlers) /\ Cardinality(Handlers) \in Nat
        BY HandlersFinite
      <3>3. /\ Cardinality(Inserting(f)') \in Nat
            /\ Cardinality(Inserting(f)') <= Cardinality(Handlers)
        BY <3>1, <3>2, FS_Subset, FS_CardinalityType
      <3>4. reopened' \in Nat
        BY <1>1 DEF TInv, TypeOK
      <3>5. Cardinality(ActiveRows(f)') + Cardinality(Inserting(f)')
              <= Cardinality(Handlers) + reopened'
        BY <3>1, <3>2, <3>3, <3>4
      <3>6. QED
        BY <3>1, <3>5 DEF Budget
    <2>2. CASE ActiveRows(f)' # {}
      <3>1. CASE \E r \in Replicas, a \in Rows : EmitInsert(r, a)
        BY <2>2, <3>1, BudgetInsert
      <3>2. CASE \E a \in Rows : Acknowledge(a) /\ ~IsActive(a)
        BY <3>2, BudgetReopen
      <3>3. CASE /\ ~ \E r \in Replicas, a \in Rows : EmitInsert(r, a)
                 /\ ~ \E a \in Rows : Acknowledge(a) /\ ~IsActive(a)
        <4>1. ActiveRows(f)' \subseteq ActiveRows(f) /\ reopened' = reopened
          BY <3>3, ActiveOnlyFromInserts DEF AInv
        <4>2. Inserting(f)' \subseteq Inserting(f)
          BY <2>2, <4>1, InsertsOnlyFromReads DEF AInv
        <4>3. QED
          BY <4>1, <4>2, BudgetKept DEF AInv, TInv
      <3>4. QED
        BY <3>1, <3>2, <3>3
    <2>3. QED
      BY <2>1, <2>2
  <1>3. QED
    BY <1>1, <1>2 DEF AInv

LEMMA InitAInv == FinitePool /\ Init => AInv
  <1> SUFFICES ASSUME FinitePool, Init
               PROVE  AInv
    OBVIOUS
  <1>1. TInv /\ BystandersIdle
    BY InitTInv DEF Init, BystandersIdle
  <1>2. ASSUME NEW f \in Fingerprints
        PROVE  Budget(f)
    <2>1. ActiveRows(f) = {}
      BY DEF Init, ActiveRows, IsActive, Active
    <2>2. QED
      BY <1>1, <2>1, BudgetEmpty DEF TInv
  <1>3. QED
    BY <1>1, <1>2 DEF AInv

LEMMA BudgetBounds ==
    ASSUME FinitePool, AInv
    PROVE  ActiveAlertsBounded
  <1> SUFFICES ASSUME NEW f \in Fingerprints
               PROVE  Cardinality(ActiveRows(f)) <= Cardinality(Handlers) + reopened
    BY DEF ActiveAlertsBounded, Handlers
  <1>1. /\ Cardinality(ActiveRows(f)) \in Nat
        /\ Cardinality(ActiveRows(f)) + Cardinality(Inserting(f))
             <= Cardinality(Handlers) + reopened
    BY FS_CardinalityType DEF AInv, Budget
  <1>2. /\ Cardinality(Inserting(f)) \in Nat
        /\ Cardinality(Handlers) \in Nat /\ reopened \in Nat
    BY InsertingFinite, HandlersFinite DEF AInv, TInv, TypeOK
  <1>3. QED
    BY <1>1, <1>2

(* However many replicas run the agent and whatever fires, clears, fails,  *)
(* crashes or is clicked, a signal has no more active alerts than there    *)
(* are replicas that handle alerts, and one more for each acknowledge that *)
(* came after its alert was closed.                                        *)
THEOREM ActiveAlertsFew ==
    ASSUME FinitePool
    PROVE  Spec => []ActiveAlertsBounded
  <1>1. Init => AInv
    BY InitAInv
  <1>2. AInv /\ [Next]_vars => AInv'
    BY AInvStep
  <1>3. AInv => ActiveAlertsBounded
    BY BudgetBounds
  <1>4. QED
    BY <1>1, <1>2, <1>3, PTL DEF Spec

-----------------------------------------------------------------------------
(* One replica of the agent that handles alerts, any number of others.     *)
OneAgent == \A r, q \in Handlers : r = q

NoLateAcks == AckFrom \subseteq Active

(* What the handler and emit_alert look for before they insert.            *)
OneActiveAlertPerFingerprint ==
    \A a, b \in Rows :
        IsActive(a) /\ IsActive(b) /\ fingerprint[a] = fingerprint[b] => a = b

LEMMA NoneReopened == NoLateAcks /\ TInv /\ reopened = 0 /\ [Next]_vars => reopened' = 0
  BY DEF NoLateAcks, TInv, TypeOK, IsActive, Next, IngestStep, AgentStep, AgentFault, Change,
         Fetch, Add, Save, FindCleared, EndTick, SaveFails, Read, Check, Triage, EmitRead,
         EmitBump, EmitInsert, EmitUnsaved, Close, HandleFails, Crash, Die, Restart,
         Acknowledge, Resolve, vars, alertVars

(* With one replica of the agent and an up-to-date page, a signal never    *)
(* has two active alerts, whatever fires, clears, fails or is clicked.     *)
THEOREM OneActiveAlert ==
    ASSUME FinitePool, OneAgent, NoLateAcks
    PROVE  Spec => []OneActiveAlertPerFingerprint
  <1> DEFINE Inv == AInv /\ reopened = 0
  <1>1. Init => Inv
    BY InitAInv DEF Init
  <1>2. Inv /\ [Next]_vars => Inv'
    BY AInvStep, NoneReopened DEF AInv
  <1>3. Inv => OneActiveAlertPerFingerprint
    <2> SUFFICES ASSUME AInv, reopened = 0, NEW a \in Rows, NEW b \in Rows,
                        IsActive(a), IsActive(b), fingerprint[a] = fingerprint[b]
                 PROVE  a = b
      BY DEF OneActiveAlertPerFingerprint
    <2> DEFINE f == fingerprint[a]
    <2>1. f \in Fingerprints /\ {a} \in SUBSET ActiveRows(f) /\ b \in ActiveRows(f)
      BY DEF AInv, TInv, TypeOK, ActiveRows
    <2>2. Cardinality(ActiveRows(f)) <= Cardinality(Handlers)
      <3>1. Cardinality(ActiveRows(f)) <= Cardinality(Handlers) + 0
        BY <2>1, BudgetBounds DEF ActiveAlertsBounded, Handlers
      <3>2. Cardinality(Handlers) \in Nat
        BY HandlersFinite
      <3>3. QED
        BY <3>1, <3>2
    <2>3. Cardinality(Handlers) <= 1
      <3>1. Handlers = {} \/ \E r \in Handlers : Handlers = {r}
        BY DEF OneAgent
      <3>2. Cardinality({}) = 0 /\ \A r : Cardinality({r}) = 1
        BY FS_EmptySet, FS_Singleton
      <3>3. QED
        BY <3>1, <3>2
    <2>4. IsFiniteSet({a}) /\ Cardinality({a}) = 1
      BY FS_Singleton
    <2>5. IsFiniteSet(ActiveRows(f))
      BY <2>1 DEF AInv, Budget
    <2>6. Cardinality({a}) <= Cardinality(ActiveRows(f))
      BY <2>1, <2>5, FS_Subset
    <2>7. Cardinality(ActiveRows(f)) = Cardinality({a})
      <3>1. Cardinality(ActiveRows(f)) \in Nat /\ Cardinality(Handlers) \in Nat
        BY <2>5, FS_CardinalityType, HandlersFinite
      <3>2. QED
        BY <2>2, <2>3, <2>4, <2>6, <3>1
    <2>8. ActiveRows(f) = {a}
      BY <2>1, <2>5, <2>7, FS_Subset
    <2>9. QED
      BY <2>1, <2>8
  <1> HIDE DEF Inv
  <1>4. QED
    BY <1>1, <1>2, <1>3, PTL DEF Spec

-----------------------------------------------------------------------------
(* The counter emit_alert read is still the counter when it writes.        *)
SeenIsCurrent ==
    \A r \in Replicas : at[r] = "bump" => \A a \in hits[r] : seen[r] = count[a]

CInv == TInv /\ BystandersIdle /\ SeenIsCurrent /\ CountMatchesOccurrences

LEMMA OneBusy ==
    ASSUME OneAgent, BystandersIdle, NEW r \in Replicas, NEW q \in Replicas,
           at[r] # "idle" \/ batch[r] # <<>>, at[q] # "idle"
    PROVE  q = r
  BY DEF OneAgent, BystandersIdle, Handlers

LEMMA CInvStep == OneAgent /\ CInv /\ [Next]_vars => CInv'
  <1> SUFFICES ASSUME OneAgent, CInv, [Next]_vars
               PROVE  CInv'
    OBVIOUS
  <1> USE DEF CInv
  <1>1. TInv' /\ BystandersIdle'
    BY TInvStep, BystandersStep
  <1>2. ASSUME NEW r \in Replicas, NEW a \in Rows, EmitInsert(r, a)
        PROVE  SeenIsCurrent' /\ CountMatchesOccurrences'
    <2>1. \A q \in Replicas : at'[q] # "bump"
      BY <1>2, OneBusy DEF EmitInsert, Done, TInv, TypeOK
    <2>2. CountMatchesOccurrences'
      BY <1>2 DEF EmitInsert, CountMatchesOccurrences, TInv, TypeOK
    <2>3. QED
      BY <2>1, <2>2 DEF SeenIsCurrent
  <1>3. ASSUME NEW r \in Replicas, EmitBump(r)
        PROVE  SeenIsCurrent' /\ CountMatchesOccurrences'
    <2>1. \A q \in Replicas : at'[q] # "bump"
      BY <1>3, OneBusy DEF EmitBump, Done, TInv, TypeOK
    <2>2. \A a \in hits[r] : seen[r] = occurrences[a]
      BY <1>3 DEF EmitBump, SeenIsCurrent, CountMatchesOccurrences, TInv, TypeOK
    <2>3. CountMatchesOccurrences'
      BY <1>3, <2>2 DEF EmitBump, CountMatchesOccurrences
    <2>4. QED
      BY <2>1, <2>3 DEF SeenIsCurrent
  <1>4. ASSUME UNCHANGED <<count, occurrences>>
        PROVE  SeenIsCurrent' /\ CountMatchesOccurrences'
    <2>1. CountMatchesOccurrences'
      BY <1>4 DEF CountMatchesOccurrences
    <2>2. ASSUME NEW r \in Replicas, at'[r] = "bump", NEW a \in hits'[r]
          PROVE  seen'[r] = count[a]
      <3> USE DEF TInv, TypeOK
      <3>1. ASSUME NEW q \in Replicas, EmitRead(q)
            PROVE  seen'[r] = count[a]
        <4>1. CASE q = r
          BY <2>2, <3>1, <4>1 DEF EmitRead
        <4>2. CASE q # r
          <5>1. at'[r] = at[r] /\ hits'[r] = hits[r] /\ seen'[r] = seen[r]
            BY <3>1, <4>2 DEF EmitRead
          <5>2. QED
            BY <2>2, <5>1 DEF SeenIsCurrent
        <4>3. QED
          BY <4>1, <4>2
      <3>2. CASE UNCHANGED <<at, hits, seen>>
        BY <2>2, <3>2 DEF SeenIsCurrent
      <3>3. CASE \E q \in Replicas : Check(q) \/ Triage(q) \/ Die(q) \/ Restart(q)
        BY <2>2, <3>3 DEF SeenIsCurrent, Check, Triage, Die, Restart, localVars
      <3>4. ASSUME NEW q \in Replicas, Done(q) \/ Crash(q)
            PROVE  seen'[r] = count[a]
        <4>1. /\ at'[q] = "idle"
              /\ q # r => at'[r] = at[r] /\ hits'[r] = hits[r] /\ seen'[r] = seen[r]
          BY <3>4 DEF Done, Crash, Forget
        <4>2. QED
          BY <2>2, <4>1 DEF SeenIsCurrent
      <3>5. QED
        BY <1>4, <3>1, <3>2, <3>3, <3>4
           DEF Next, IngestStep, AgentStep, AgentFault, Change, Fetch, Add, Save,
               FindCleared, EndTick, SaveFails, Read, EmitBump, EmitInsert, EmitUnsaved,
               Close, HandleFails, Acknowledge, Resolve, vars, agentVars, localVars
    <2>3. QED
      BY <1>4, <2>1, <2>2 DEF SeenIsCurrent
  <1>5. \/ UNCHANGED <<count, occurrences>>
        \/ \E r \in Replicas, a \in Rows : EmitInsert(r, a)
        \/ \E r \in Replicas : EmitBump(r)
    BY DEF Next, IngestStep, AgentStep, AgentFault, Change, Fetch, Add, Save, FindCleared,
           EndTick, SaveFails, Read, Check, Triage, EmitRead, EmitUnsaved, Close,
           HandleFails, Crash, Die, Restart, Acknowledge, Resolve, vars, alertVars
  <1>6. QED
    BY <1>1, <1>2, <1>3, <1>4, <1>5

(* With one replica, the counter of an alert never differs from the number *)
(* of fires on its timeline, whatever fails between the signal and them.   *)
THEOREM CountIsTimeline ==
    ASSUME OneAgent
    PROVE  Spec => []CountMatchesOccurrences
  <1>1. Init => CInv
    BY InitTInv DEF Init, CInv, BystandersIdle, SeenIsCurrent, CountMatchesOccurrences
  <1>2. CInv /\ [Next]_vars => CInv'
    BY CInvStep
  <1>3. CInv => CountMatchesOccurrences
    BY DEF CInv
  <1>4. QED
    BY <1>1, <1>2, <1>3, PTL DEF Spec

-----------------------------------------------------------------------------
(* With several replicas a bump can be lost under another; but the counter *)
(* never counts a fire that is not on the timeline.                        *)
CountNotAhead == \A a \in Rows : count[a] <= occurrences[a]

SeenNotAhead ==
    \A r \in Replicas : at[r] = "bump" => \A a \in hits[r] : seen[r] <= occurrences[a]

LInv == TInv /\ SeenNotAhead /\ CountNotAhead

LEMMA SaturatedMonotone == \A m, n \in Nat : m <= n => Saturated(m) <= Saturated(n)
  BY PipelineAssumption DEF Saturated

LEMMA LInvStep == LInv /\ [Next]_vars => LInv'
  <1> SUFFICES ASSUME LInv, [Next]_vars
               PROVE  LInv'
    OBVIOUS
  <1> USE DEF LInv
  <1>1. TInv'
    BY TInvStep
  <1>2. ASSUME NEW r \in Replicas, NEW a \in Rows, EmitInsert(r, a)
        PROVE  SeenNotAhead' /\ CountNotAhead'
    <2> USE DEF TInv, TypeOK
    <2>1. /\ count' = [count EXCEPT ![a] = 1] /\ occurrences' = [occurrences EXCEPT ![a] = 1]
          /\ at'[r] = "idle"
          /\ \A q \in Replicas \ {r} : /\ at'[q] = at[q] /\ seen'[q] = seen[q]
                                       /\ hits'[q] = hits[q] /\ a \notin hits[q]
      BY <1>2 DEF EmitInsert, Insertable, Done, Forget
    <2>2. CountNotAhead'
      BY <2>1 DEF CountNotAhead
    <2>3. ASSUME NEW q \in Replicas, at'[q] = "bump", NEW b \in hits'[q]
          PROVE  seen'[q] <= occurrences'[b]
      <3>1. q # r /\ b # a /\ b \in hits[q] /\ at[q] = "bump"
        BY <2>1, <2>3
      <3>2. seen[q] <= occurrences[b]
        BY <3>1 DEF SeenNotAhead
      <3>3. seen'[q] = seen[q] /\ occurrences'[b] = occurrences[b]
        BY <2>1, <3>1
      <3>4. QED
        BY <3>2, <3>3
    <2>4. QED
      BY <2>2, <2>3 DEF SeenNotAhead
  <1>3. ASSUME NEW r \in Replicas, EmitBump(r)
        PROVE  SeenNotAhead' /\ CountNotAhead'
    <2> USE DEF TInv, TypeOK
    <2>1. \A a \in Rows : /\ count'[a] = IF a \in hits[r] THEN Saturated(seen[r] + 1)
                                         ELSE count[a]
                          /\ occurrences'[a] = IF a \in hits[r]
                                THEN Saturated(occurrences[a] + 1) ELSE occurrences[a]
      BY <1>3 DEF EmitBump
    <2>2. /\ at[r] = "bump" /\ at'[r] = "idle"
          /\ \A q \in Replicas \ {r} : /\ at'[q] = at[q] /\ seen'[q] = seen[q]
                                       /\ hits'[q] = hits[q]
      BY <1>3 DEF EmitBump, Done, Forget
    <2>3. \A a \in Rows : occurrences[a] <= Saturated(occurrences[a] + 1)
      BY PipelineAssumption DEF Saturated
    <2>4. ASSUME NEW a \in Rows
          PROVE  occurrences[a] <= occurrences'[a]
      <3>1. occurrences[a] \in Nat
        OBVIOUS
      <3>2. CASE a \in hits[r]
        BY <2>1, <2>3, <3>2
      <3>3. CASE a \notin hits[r]
        BY <2>1, <3>1, <3>3
      <3>4. QED
        BY <3>2, <3>3
    <2>5. ASSUME NEW a \in Rows
          PROVE  count'[a] <= occurrences'[a]
      <3>1. CASE a \in hits[r]
        <4>1. seen[r] + 1 <= occurrences[a] + 1
          BY <2>2, <3>1 DEF SeenNotAhead
        <4>2. Saturated(seen[r] + 1) <= Saturated(occurrences[a] + 1)
          BY <4>1, SaturatedMonotone
        <4>3. QED
          BY <2>1, <3>1, <4>2
      <3>2. CASE a \notin hits[r]
        BY <2>1, <3>2 DEF CountNotAhead
      <3>3. QED
        BY <3>1, <3>2
    <2>6. ASSUME NEW q \in Replicas, at'[q] = "bump", NEW b \in hits'[q]
          PROVE  seen'[q] <= occurrences'[b]
      <3>1. q # r /\ b \in hits[q] /\ at[q] = "bump"
        BY <2>2, <2>6
      <3>2. seen[q] <= occurrences[b] /\ b \in Rows
        BY <3>1 DEF SeenNotAhead
      <3>3. occurrences[b] \in Nat /\ occurrences'[b] \in Nat /\ seen[q] \in Nat
        BY <1>1, <3>2
      <3>4. QED
        BY <2>2, <2>4, <3>1, <3>2, <3>3
    <2>7. QED
      BY <2>5, <2>6 DEF SeenNotAhead, CountNotAhead
  <1>4. ASSUME UNCHANGED <<count, occurrences>>
        PROVE  SeenNotAhead' /\ CountNotAhead'
    <2>1. CountNotAhead'
      BY <1>4 DEF CountNotAhead
    <2>2. ASSUME NEW r \in Replicas, at'[r] = "bump", NEW a \in hits'[r]
          PROVE  seen'[r] <= occurrences[a]
      <3> USE DEF TInv, TypeOK
      <3>1. ASSUME NEW q \in Replicas, EmitRead(q)
            PROVE  seen'[r] <= occurrences[a]
        <4>1. CASE q = r
          <5>1. a \in Rows /\ seen'[r] = count[a]
            BY <2>2, <3>1, <4>1 DEF EmitRead, ActiveRows
          <5>2. QED
            BY <5>1 DEF CountNotAhead
        <4>2. CASE q # r
          <5>1. at'[r] = at[r] /\ hits'[r] = hits[r] /\ seen'[r] = seen[r]
            BY <3>1, <4>2 DEF EmitRead
          <5>2. QED
            BY <2>2, <5>1 DEF SeenNotAhead
        <4>3. QED
          BY <4>1, <4>2
      <3>2. CASE UNCHANGED <<at, hits, seen>>
        BY <2>2, <3>2 DEF SeenNotAhead
      <3>3. CASE \E q \in Replicas : Check(q) \/ Triage(q) \/ Die(q) \/ Restart(q)
        BY <2>2, <3>3 DEF SeenNotAhead, Check, Triage, Die, Restart, localVars
      <3>4. ASSUME NEW q \in Replicas, Done(q) \/ Crash(q)
            PROVE  seen'[r] <= occurrences[a]
        <4>1. /\ at'[q] = "idle"
              /\ q # r => at'[r] = at[r] /\ hits'[r] = hits[r] /\ seen'[r] = seen[r]
          BY <3>4 DEF Done, Crash, Forget
        <4>2. QED
          BY <2>2, <4>1 DEF SeenNotAhead
      <3>5. QED
        BY <1>4, <3>1, <3>2, <3>3, <3>4
           DEF Next, IngestStep, AgentStep, AgentFault, Change, Fetch, Add, Save,
               FindCleared, EndTick, SaveFails, Read, EmitBump, EmitInsert, EmitUnsaved,
               Close, HandleFails, Acknowledge, Resolve, vars, agentVars, localVars
    <2>3. QED
      BY <1>4, <2>1, <2>2 DEF SeenNotAhead
  <1>5. \/ UNCHANGED <<count, occurrences>>
        \/ \E r \in Replicas, a \in Rows : EmitInsert(r, a)
        \/ \E r \in Replicas : EmitBump(r)
    BY DEF Next, IngestStep, AgentStep, AgentFault, Change, Fetch, Add, Save, FindCleared,
           EndTick, SaveFails, Read, Check, Triage, EmitRead, EmitUnsaved, Close,
           HandleFails, Crash, Die, Restart, Acknowledge, Resolve, vars, alertVars
  <1>6. QED
    BY <1>1, <1>2, <1>3, <1>4, <1>5

(* Whatever the replicas do side by side, the counter of an alert is never *)
(* more than the fires on its timeline.                                    *)
THEOREM CountNeverAhead == Spec => []CountNotAhead
  <1>1. Init => LInv
    BY InitTInv DEF Init, LInv, SeenNotAhead, CountNotAhead
  <1>2. LInv /\ [Next]_vars => LInv'
    BY LInvStep
  <1>3. LInv => CountNotAhead
    BY DEF LInv
  <1>4. QED
    BY <1>1, <1>2, <1>3, PTL DEF Spec
=============================================================================
