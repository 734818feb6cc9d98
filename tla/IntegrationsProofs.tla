------------------------- MODULE IntegrationsProofs -------------------------
(* Theorems about Integrations, for any number of rows, clusters, requests *)
(* and workers.                                                            *)
EXTENDS Integrations, FiniteSetTheorems, TLAPS

USE IntegrationAssumption

(* What a tick has probed it has a verdict on, and it probes what it read. *)
Judged == \A w \in Workers : \A i \in Rows :
    /\ i \in tick[w].todo => tick[w].read[i] # "none"
    /\ tick[w].read[i] # "none" /\ i \notin tick[w].todo =>
           tick[w].verdict[i] \in Status

(* A PUT that found a row found one of its provider, and no row goes back  *)
(* to being unborn.                                                        *)
FoundIsKin == \A a \in Admins : request[a].what = "put" =>
    /\ request[a].payload.state = "live"
    /\ request[a].found # NoRow =>
           /\ row[request[a].found].state # "unborn"
           /\ row[request[a].found].provider = request[a].payload.provider

(* The rows of the provider that has one, with those about to be created.  *)
Budget == Cardinality(Of("tinkerbell")) + Cardinality(Creating("tinkerbell"))
              <= 1 + races

IInv == TypeOK /\ races <= requests /\ Judged /\ FoundIsKin /\ Budget

Requests == [what: {"none", "put", "delete"}, found: Rows \cup {NoRow},
             payload: RowType, loaded: RowType]
Ticks == [at: {"idle", "running"}, todo: SUBSET Rows,
          read: [Rows -> Status \cup {"none"}], source: [Rows -> Sources],
          verdict: [Rows -> Status \cup {"none"}]]

LEMMA PayloadType ==
    ASSUME NEW p \in Payloads
    PROVE  p \in RowType /\ p.state = "live"
  BY DEF Payloads, RowType, Unborn, Status, Sources

LEMMA UnbornType == Unborn \in RowType
  BY DEF RowType, Unborn, Status, Sources

LEMMA IdleType == NoRequest \in Requests /\ NoTick \in Ticks
  BY UnbornType DEF NoRequest, NoTick, Requests, Ticks, Sources

LEMMA ProbedType ==
    ASSUME NEW i \in Rows, NEW source
    PROVE  Probed(i, source) \in Status
<1>1. CASE row[i].provider = "kubernetes"
  BY <1>1 DEF Probed, Status
<1>2. CASE row[i].provider # "kubernetes" /\ Of("tinkerbell") = {}
  BY <1>2 DEF Probed, Status
<1>3. CASE row[i].provider # "kubernetes" /\ Of("tinkerbell") # {}
  BY <1>3 DEF Probed, Status
<1> QED
  BY <1>1, <1>2, <1>3

LEMMA Counted ==
    /\ IsFiniteSet(Of("tinkerbell")) /\ IsFiniteSet(Creating("tinkerbell"))
    /\ Cardinality(Of("tinkerbell")) \in Nat
    /\ Cardinality(Creating("tinkerbell")) \in Nat
<1>1. IsFiniteSet(Rows)
  BY FS_Interval DEF Rows
<1>2. Of("tinkerbell") \subseteq Rows /\ Creating("tinkerbell") \subseteq Admins
  BY DEF Of, Creating
<1> QED
  BY <1>1, <1>2, FS_Subset, FS_CardinalityType

(* Less of both is within the budget.                                      *)
LEMMA Shrinks ==
    ASSUME TypeOK, Budget, races' \in Nat, races' >= races,
           Of("tinkerbell")' \subseteq Of("tinkerbell"),
           Creating("tinkerbell")' \subseteq Creating("tinkerbell")
    PROVE  Budget'
<1> DEFINE O == Of("tinkerbell")
           C == Creating("tinkerbell")
<1>1. /\ IsFiniteSet(O') /\ Cardinality(O') \in Nat
      /\ Cardinality(O') <= Cardinality(O)
  BY Counted, FS_Subset, FS_CardinalityType
<1>2. /\ IsFiniteSet(C') /\ Cardinality(C') \in Nat
      /\ Cardinality(C') <= Cardinality(C)
  BY Counted, FS_Subset, FS_CardinalityType
<1>3. races \in Nat /\ Cardinality(O) \in Nat /\ Cardinality(C) \in Nat
  BY Counted DEF TypeOK
<1>4. Cardinality(O) + Cardinality(C) <= 1 + races
  BY DEF Budget
<1>5. Cardinality(O') + Cardinality(C') <= 1 + races'
  <2> HIDE DEF O, C
  <2> QED
    BY <1>1, <1>2, <1>3, <1>4
<1> QED
  BY <1>5 DEF Budget

LEMMA IInvInit == Init => IInv
<1> SUFFICES ASSUME Init
             PROVE  IInv
  OBVIOUS
<1>1. TypeOK
  BY UnbornType, IdleType DEF Init, TypeOK, Requests, Ticks
<1>2. races <= requests /\ Judged /\ FoundIsKin
  BY DEF Init, Judged, FoundIsKin, NoTick, NoRequest
<1>3. Of("tinkerbell") = {} /\ Creating("tinkerbell") = {}
  BY DEF Init, Of, Live, Unborn, Creating, NoRequest
<1>4. Budget
  BY <1>3, FS_EmptySet DEF Init, Budget
<1> QED
  BY <1>1, <1>2, <1>4 DEF IInv

(* A request that is read: only it changes, and the counters.              *)
LEMMA ReadStep ==
    ASSUME IInv, NEW a \in Admins, NEW what \in {"put", "delete"},
           NEW i \in Rows \cup {NoRow}, NEW p \in RowType,
           Read(a, what, i, p), races' \in {races, races + 1},
           what = "put" =>
               p.state = "live" /\
               (i # NoRow => Live(i) /\ row[i].provider = p.provider)
    PROVE  /\ TypeOK' /\ (races <= requests)' /\ Judged' /\ FoundIsKin'
           /\ Of("tinkerbell")' = Of("tinkerbell")
           /\ Creating("tinkerbell")' =
                 IF what = "put" /\ i = NoRow /\ p.provider = "tinkerbell"
                 THEN Creating("tinkerbell") \cup {a}
                 ELSE Creating("tinkerbell")
<1> DEFINE old == IF what = "put" /\ i # NoRow THEN row[i] ELSE Unborn
           q   == [what |-> what, found |-> i, payload |-> p, loaded |-> old]
<1>1. /\ request[a].what = "none" /\ requests < MaxRequests
      /\ requests' = requests + 1
      /\ request' = [request EXCEPT ![a] = q]
      /\ UNCHANGED <<row, tick, up, flips, crashes>>
  BY DEF Read, Busy
<1>2. requests \in Nat /\ races \in Nat /\ races <= requests
  BY DEF IInv, TypeOK
<1>3. request \in [Admins -> Requests] /\ q \in Requests
  <2>1. old \in RowType
    BY UnbornType DEF IInv, TypeOK
  <2> HIDE DEF old
  <2> QED
    BY <2>1 DEF IInv, TypeOK, Requests
<1>4. request' \in [Admins -> Requests]
  BY <1>1, <1>3
<1>5. TypeOK'
  BY <1>1, <1>2, <1>4 DEF IInv, TypeOK, Requests
<1>6. Judged'
  BY <1>1 DEF IInv, Judged
<1>7. FoundIsKin'
  BY <1>1, <1>3 DEF IInv, FoundIsKin, Live
<1>8. Of("tinkerbell")' = Of("tinkerbell")
  BY <1>1 DEF Of, Live
<1>9. Creating("tinkerbell")' =
          IF what = "put" /\ i = NoRow /\ p.provider = "tinkerbell"
          THEN Creating("tinkerbell") \cup {a} ELSE Creating("tinkerbell")
  BY <1>1, <1>3 DEF Creating
<1> QED
  BY <1>1, <1>2, <1>5, <1>6, <1>7, <1>8, <1>9

LEMMA PutByIdStep == ASSUME IInv, NEW a \in Admins, PutById(a) PROVE IInv'
<1>1. PICK p \in Payloads, i \in Rows :
          i \in Of(p.provider) /\ Read(a, "put", i, p) /\ UNCHANGED races
  BY DEF PutById
<1>2. p \in RowType /\ p.state = "live" /\ i # NoRow
  BY PayloadType DEF Rows, NoRow
<1>3. Live(i) /\ row[i].provider = p.provider
  BY <1>1 DEF Of
<1>4. /\ TypeOK' /\ (races <= requests)' /\ Judged' /\ FoundIsKin'
      /\ Of("tinkerbell")' = Of("tinkerbell")
      /\ Creating("tinkerbell")' = Creating("tinkerbell")
  BY <1>1, <1>2, <1>3, ReadStep
<1>5. Budget'
  BY <1>1, <1>4 DEF IInv, Budget
<1> QED
  BY <1>4, <1>5 DEF IInv

LEMMA DeleteStep == ASSUME IInv, NEW a \in Admins, Delete(a) PROVE IInv'
<1>1. PICK i \in Rows : Read(a, "delete", i, Unborn) /\ UNCHANGED races
  BY DEF Delete
<1>2. Unborn \in RowType
  BY UnbornType
<1>3. /\ TypeOK' /\ (races <= requests)' /\ Judged' /\ FoundIsKin'
      /\ Of("tinkerbell")' = Of("tinkerbell")
      /\ Creating("tinkerbell")' = Creating("tinkerbell")
  BY <1>1, <1>2, ReadStep
<1>4. Budget'
  BY <1>1, <1>3 DEF IInv, Budget
<1> QED
  BY <1>3, <1>4 DEF IInv

(* The read that may find no row: then there is none, and whoever else is  *)
(* about to create one has been counted as a race.                         *)
LEMMA PutStep == ASSUME IInv, NEW a \in Admins, Put(a) PROVE IInv'
<1>1. PICK p \in Payloads, i \in Rows \cup {NoRow} :
          /\ IF Named(p) = {} THEN i = NoRow ELSE i \in Named(p)
          /\ Read(a, "put", i, p)
          /\ races' = IF i = NoRow /\ Creating(p.provider) # {} THEN races + 1
                      ELSE races
  BY DEF Put
<1>2. p \in RowType /\ p.state = "live"
  BY PayloadType
<1>3. i # NoRow => Live(i) /\ row[i].provider = p.provider
  BY <1>1 DEF Named, Of
<1> DEFINE New == i = NoRow /\ p.provider = "tinkerbell"
           C   == Creating("tinkerbell")
           O   == Of("tinkerbell")
<1>4. races' \in {races, races + 1} /\ races \in Nat
  BY <1>1 DEF IInv, TypeOK
<1>5. /\ TypeOK' /\ (races <= requests)' /\ Judged' /\ FoundIsKin'
      /\ O' = O
      /\ C' = IF New THEN C \cup {a} ELSE C
  BY <1>1, <1>2, <1>3, <1>4, ReadStep
<1>6. CASE ~New
  <2>1. races' \in Nat /\ races' >= races /\ O' \subseteq O /\ C' \subseteq C
    BY <1>4, <1>5, <1>6
  <2>2. Budget'
    BY <2>1, Shrinks DEF IInv
  <2> QED
    BY <1>5, <2>2 DEF IInv
<1>7. CASE New
  <2>1. O = {}
    BY <1>1, <1>7 DEF Named, Of, Rows, NoRow
  <2>2. Cardinality(O') = 0 /\ Cardinality(O) = 0
    BY <1>5, <2>1, FS_EmptySet
  <2>3. a \notin C
    BY <1>1 DEF Read, Busy, Creating
  <2>4. Cardinality(C') = Cardinality(C) + 1 /\ Cardinality(C) \in Nat
    BY <1>5, <1>7, <2>3, Counted, FS_AddElement
  <2>5. Cardinality(C) <= 1 + races
    BY <1>4, <2>2, <2>4 DEF IInv, Budget
  <2>6. Cardinality(C) = 0 \/ races' = races + 1
    BY <1>1, <1>7, FS_EmptySet
  <2>7. Cardinality(C') <= 1 + races'
    BY <1>4, <2>4, <2>5, <2>6
  <2>8. Budget'
    BY <1>4, <2>2, <2>4, <2>7 DEF Budget
  <2> QED
    BY <1>5, <2>8 DEF IInv
<1> QED
  BY <1>6, <1>7

(* The commit of a first connect spends what its read had set aside; the   *)
(* commit of an edit changes no provider.                                  *)
LEMMA WriteStep ==
    ASSUME IInv, NEW a \in Admins, NEW i \in Rows, Write(a, i) PROVE IInv'
<1> DEFINE found == request[a].found
           p     == request[a].payload
           old   == request[a].loaded
           C     == Creating("tinkerbell")
           O     == Of("tinkerbell")
<1>1. /\ request[a].what = "put"
      /\ IF found = NoRow THEN i \in Unused ELSE i = found
      /\ request' = [request EXCEPT ![a] = NoRequest]
      /\ UNCHANGED <<tick, up, races, requests, flips, crashes>>
  BY DEF Write, bounds
<1>2. /\ row \in [Rows -> RowType] /\ request \in [Admins -> Requests]
      /\ p \in RowType /\ old \in RowType /\ row[i] \in RowType /\ races \in Nat
  BY DEF IInv, TypeOK, Requests
<1>3. p.state = "live"
  BY <1>1 DEF IInv, FoundIsKin
<1>4. found = NoRow => row[i].state = "unborn"
  BY <1>1 DEF Unused
<1>5. found # NoRow => row[i].provider = p.provider
  BY <1>1 DEF IInv, FoundIsKin
<1>6. PICK new \in RowType :
           /\ new.state = "live" /\ new.provider = p.provider
           /\ row' = IF found # NoRow /\ ~Live(i) THEN row
                     ELSE [row EXCEPT ![i] = new]
  <2>1. CASE found = NoRow
    <3>1. row' = [row EXCEPT ![i] = p]
      BY <2>1 DEF Write
    <3> QED
      BY <1>2, <1>3, <2>1, <3>1
  <2>2. CASE found # NoRow /\ ~Live(i)
    <3>1. row' = row
      BY <2>2 DEF Write
    <3> QED
      BY <1>2, <1>3, <2>2, <3>1
  <2>3. CASE found # NoRow /\ Live(i)
    <3> DEFINE name == Net(old.name, IF p.name = "" THEN old.name ELSE p.name,
                           row[i].name)
               status == Net(old.status, "connected", row[i].status)
    <3>1. PICK source \in {p.source, Net(old.source, p.source, row[i].source)} :
              row' = [row EXCEPT ![i] = [row[i] EXCEPT !.name = name,
                          !.source = source, !.status = status]]
      BY <2>3, <1>2 DEF Write
    <3>2. /\ name \in Names \cup {""} /\ source \in Sources
          /\ status \in Status
      BY <1>2 DEF Net, RowType, Status
    <3> DEFINE new == [row[i] EXCEPT !.name = name, !.source = source,
                                     !.status = status]
    <3> HIDE DEF name, status
    <3>3. new \in RowType /\ new.state = row[i].state
          /\ new.provider = row[i].provider
      BY <1>2, <3>2 DEF RowType
    <3> QED
      BY <1>5, <2>3, <3>1, <3>3 DEF Live
  <2> QED
    BY <2>1, <2>2, <2>3
<1>7. TypeOK'
  <2>1. row' \in [Rows -> RowType] /\ request' \in [Admins -> Requests]
    BY <1>1, <1>2, <1>6, IdleType
  <2> QED
    BY <1>1, <2>1 DEF IInv, TypeOK, Requests
<1>8. (races <= requests)' /\ Judged'
  BY <1>1 DEF IInv, Judged
<1>9. C' = C \ {a}
  BY <1>1, <1>2 DEF Creating, NoRequest
<1>10. FoundIsKin'
  <2> SUFFICES ASSUME NEW b \in Admins, request'[b].what = "put"
               PROVE  /\ request'[b].payload.state = "live"
                      /\ request'[b].found # NoRow =>
                             /\ row'[request'[b].found].state # "unborn"
                             /\ row'[request'[b].found].provider
                                    = request'[b].payload.provider
    BY DEF FoundIsKin
  <2>1. request'[b] = request[b]
    BY <1>1, <1>2 DEF NoRequest
  <2> DEFINE f == request[b].found
  <2>2. /\ request[b].payload.state = "live"
        /\ f # NoRow => /\ row[f].state # "unborn"
                        /\ row[f].provider = request[b].payload.provider
    BY <2>1 DEF IInv, FoundIsKin
  <2>3. f \in Rows \cup {NoRow}
    BY DEF IInv, TypeOK
  <2>4. f # NoRow => row'[f].state # "unborn" /\ row'[f].provider = row[f].provider
    <3>1. CASE f = i
      BY <1>1, <1>2, <1>4, <1>5, <1>6, <2>2, <3>1
    <3>2. CASE f # i
      BY <1>1, <1>2, <1>6, <2>2, <2>3, <3>2
    <3> QED
      BY <3>1, <3>2
  <2> QED
    BY <2>1, <2>2, <2>4
<1>11. Budget'
  <2>1. CASE found = NoRow /\ p.provider = "tinkerbell"
    <3>1. a \in C
      BY <1>1, <2>1 DEF Creating
    <3>2. i \notin O
      BY <1>4, <2>1 DEF Of, Live
    <3>3. O' \subseteq O \cup {i}
      BY <1>1, <1>2, <1>6, <2>1 DEF Of, Live
    <3>4. Cardinality(O \cup {i}) = Cardinality(O) + 1 /\ IsFiniteSet(O \cup {i})
      BY <3>2, Counted, FS_AddElement
    <3>5. Cardinality(O') <= Cardinality(O) + 1 /\ Cardinality(O') \in Nat
      BY <3>3, <3>4, FS_Subset, FS_CardinalityType
    <3>6. Cardinality(C') = Cardinality(C) - 1
      BY <1>9, <3>1, Counted, FS_RemoveElement
    <3>7. Cardinality(O) + Cardinality(C) <= 1 + races
      BY DEF IInv, Budget
    <3>8. Cardinality(O) \in Nat /\ Cardinality(C) \in Nat /\ races' = races
      BY <1>1, Counted
    <3>9. Cardinality(O') + Cardinality(C') <= 1 + races'
      <4> HIDE DEF O, C
      <4> QED
        BY <1>2, <3>5, <3>6, <3>7, <3>8
    <3> QED
      BY <3>9 DEF Budget
  <2>2. CASE ~(found = NoRow /\ p.provider = "tinkerbell")
    <3>1. O' \subseteq O
      <4> SUFFICES ASSUME NEW j \in O' PROVE j \in O
        OBVIOUS
      <4>1. j \in Rows /\ row'[j].state = "live" /\ row'[j].provider = "tinkerbell"
        BY DEF Of, Live
      <4>2. CASE row'[j] = row[j]
        BY <4>1, <4>2 DEF Of, Live
      <4>3. CASE row'[j] # row[j]
        <5>1. j = i /\ row'[i] = new /\ ~(found # NoRow /\ ~Live(i))
          BY <1>1, <1>2, <1>6, <4>1, <4>3
        <5>2. p.provider = "tinkerbell"
          BY <1>6, <4>1, <5>1
        <5> QED
          BY <1>5, <2>2, <4>1, <5>1, <5>2 DEF Of
      <4> QED
        BY <4>2, <4>3
    <3>2. races' \in Nat /\ races' >= races
      BY <1>1, <1>2
    <3> QED
      BY <1>9, <3>1, <3>2, Shrinks DEF IInv
  <2> QED
    BY <2>1, <2>2
<1> QED
  BY <1>7, <1>8, <1>10, <1>11 DEF IInv

(* Steps that leave requests alone and neither create rows nor give them   *)
(* to another provider.                                                    *)
LEMMA RowsKeep ==
    ASSUME IInv, UNCHANGED <<races, requests>>,
           \A a \in Admins : request'[a] = request[a] \/ request'[a] = NoRequest,
           \A i \in Rows :
               /\ row'[i].provider = row[i].provider
               /\ row[i].state # "unborn" => row'[i].state # "unborn"
               /\ row'[i].state = "live" => row[i].state = "live"
    PROVE  (races <= requests)' /\ FoundIsKin' /\ Budget'
<1>1. (races <= requests)'
  BY DEF IInv
<1>2. FoundIsKin'
  <2> SUFFICES ASSUME NEW b \in Admins, request'[b].what = "put"
               PROVE  /\ request'[b].payload.state = "live"
                      /\ request'[b].found # NoRow =>
                             /\ row'[request'[b].found].state # "unborn"
                             /\ row'[request'[b].found].provider
                                    = request'[b].payload.provider
    BY DEF FoundIsKin
  <2>1. request'[b] = request[b]
    BY DEF NoRequest
  <2>2. request[b].found \in Rows \cup {NoRow}
    BY DEF IInv, TypeOK
  <2> QED
    BY <2>1, <2>2 DEF IInv, FoundIsKin
<1>3. Of("tinkerbell")' \subseteq Of("tinkerbell")
  BY DEF Of, Live
<1>4. Creating("tinkerbell")' \subseteq Creating("tinkerbell")
  BY DEF Creating, NoRequest
<1>5. Budget'
  BY <1>3, <1>4, Shrinks DEF IInv, TypeOK
<1> QED
  BY <1>1, <1>2, <1>5

LEMMA RemoveStep == ASSUME IInv, NEW a \in Admins, Remove(a) PROVE IInv'
<1> DEFINE i == request[a].found
<1>1. /\ row' = [row EXCEPT ![i] = [Unborn EXCEPT !.state = "deleted",
                                       !.provider = row[i].provider]]
      /\ request' = [request EXCEPT ![a] = NoRequest]
      /\ UNCHANGED <<tick, up, races, requests, flips, crashes>>
  BY DEF Remove, bounds
<1>2. row \in [Rows -> RowType] /\ request \in [Admins -> Requests]
  BY DEF IInv, TypeOK, Requests
<1>3. row' \in [Rows -> RowType] /\ request' \in [Admins -> Requests]
  BY <1>1, <1>2, IdleType, UnbornType DEF RowType
<1>4. TypeOK'
  BY <1>1, <1>3 DEF IInv, TypeOK, Requests
<1>5. Judged'
  BY <1>1 DEF IInv, Judged
<1>6. \A j \in Rows : /\ row'[j].provider = row[j].provider
                      /\ row[j].state # "unborn" => row'[j].state # "unborn"
                      /\ row'[j].state = "live" => row[j].state = "live"
  <2>1. \A x : LET y == [Unborn EXCEPT !.state = "deleted", !.provider = x]
               IN  y.provider = x /\ y.state = "deleted"
    BY DEF Unborn
  <2> QED
    BY <1>1, <1>2, <2>1
<1>7. \A b \in Admins : request'[b] = request[b] \/ request'[b] = NoRequest
  BY <1>1, <1>2
<1> QED
  BY <1>1, <1>4, <1>5, <1>6, <1>7, RowsKeep DEF IInv

(* A step of a health check that writes no row.                            *)
LEMMA TickStep ==
    ASSUME IInv, NEW w \in Workers, NEW new \in Ticks,
           tick' = [tick EXCEPT ![w] = new],
           UNCHANGED <<row, request, up, races, requests, flips>>,
           crashes' \in 0 .. MaxCrashes,
           \A i \in Rows :
               /\ i \in new.todo => new.read[i] # "none"
               /\ new.read[i] # "none" /\ i \notin new.todo =>
                      new.verdict[i] \in Status
    PROVE  IInv'
<1>1. tick \in [Workers -> Ticks]
  BY DEF IInv, TypeOK, Ticks
<1>2. tick' \in [Workers -> Ticks]
  BY <1>1
<1>3. TypeOK'
  BY <1>2 DEF IInv, TypeOK, Ticks
<1>4. Judged'
  BY <1>1 DEF IInv, Judged
<1>5. (races <= requests)' /\ FoundIsKin' /\ Budget'
  BY RowsKeep
<1> QED
  BY <1>3, <1>4, <1>5 DEF IInv

LEMMA NoTickJudged ==
    \A i \in Rows : i \notin NoTick.todo /\ NoTick.read[i] = "none"
  BY DEF NoTick

LEMMA ReadAllStep == ASSUME IInv, NEW w \in Workers, ReadAll(w) PROVE IInv'
<1> DEFINE new == [at |-> "running", todo |-> {i \in Rows : Live(i)},
                   read |-> [i \in Rows |-> IF Live(i) THEN row[i].status
                                            ELSE "none"],
                   source |-> [i \in Rows |-> IF Live(i) THEN row[i].source
                                              ELSE "inline"],
                   verdict |-> NoTick.verdict]
<1>1. /\ tick' = [tick EXCEPT ![w] = new]
      /\ UNCHANGED <<row, request, up, races, requests, flips, crashes>>
  BY DEF ReadAll, bounds
<1>2. \A i \in Rows : row[i].status \in Status /\ row[i].source \in Sources
  BY DEF IInv, TypeOK, RowType
<1>3. new \in Ticks
  BY <1>2 DEF Ticks, NoTick, Sources
<1>4. \A i \in Rows : i \in new.todo <=> new.read[i] # "none"
  BY <1>2 DEF Status
<1>5. crashes' \in 0 .. MaxCrashes
  BY <1>1 DEF IInv, TypeOK
<1> HIDE DEF new
<1> QED
  BY <1>1, <1>3, <1>4, <1>5, TickStep

LEMMA ProbeStep ==
    ASSUME IInv, NEW w \in Workers, NEW i \in Rows, Probe(w, i) PROVE IInv'
<1> DEFINE answer == Probed(i, SourceIn(w))
           old == tick[w]
           new == [old EXCEPT !.todo = @ \ {i}, !.verdict[i] = answer]
<1>1. /\ i \in old.todo
      /\ tick' = [tick EXCEPT ![w].todo = @ \ {i}, ![w].verdict[i] = answer]
      /\ UNCHANGED <<row, request, up, races, requests, flips, crashes>>
  BY DEF Probe, bounds
<1>2. tick \in [Workers -> Ticks] /\ old \in Ticks
  BY DEF IInv, TypeOK, Ticks
<1>3. tick' = [tick EXCEPT ![w] = new]
  BY <1>1, <1>2
<1>4. answer \in Status
  BY ProbedType
<1> HIDE DEF answer
<1>5. /\ new \in Ticks
      /\ new.todo = old.todo \ {i} /\ new.read = old.read
      /\ new.verdict = [old.verdict EXCEPT ![i] = answer]
  BY <1>2, <1>4 DEF Ticks
<1>6. \A j \in Rows :
          /\ j \in old.todo => old.read[j] # "none"
          /\ old.read[j] # "none" /\ j \notin old.todo => old.verdict[j] \in Status
  BY DEF IInv, Judged
<1>7. old.verdict \in [Rows -> Status \cup {"none"}]
  BY <1>2 DEF Ticks
<1>8. \A j \in Rows :
          /\ j \in new.todo => new.read[j] # "none"
          /\ new.read[j] # "none" /\ j \notin new.todo => new.verdict[j] \in Status
  BY <1>4, <1>5, <1>6, <1>7
<1>9. crashes' \in 0 .. MaxCrashes
  BY <1>1 DEF IInv, TypeOK
<1> HIDE DEF new
<1> QED
  BY <1>1, <1>3, <1>5, <1>8, <1>9, TickStep

LEMMA GiveUpStep ==
    ASSUME IInv, NEW w \in Workers, Abort(w) \/ CommitRaises(w) \/ Crash(w)
    PROVE  IInv'
<1>1. /\ tick' = [tick EXCEPT ![w] = NoTick]
      /\ UNCHANGED <<row, request, up, races, requests, flips>>
  BY DEF Abort, CommitRaises, Crash, bounds
<1>2. crashes' \in 0 .. MaxCrashes
  BY DEF Abort, CommitRaises, Crash, bounds, IInv, TypeOK
<1> QED
  BY <1>1, <1>2, IdleType, NoTickJudged, TickStep

LEMMA CommitStep == ASSUME IInv, NEW w \in Workers, Commit(w) PROVE IInv'
<1>1. /\ tick[w].todo = {}
      /\ row' = [i \in Rows |->
             IF /\ i \in Seen(w) /\ Live(i)
                /\ tick[w].verdict[i] # tick[w].read[i]
             THEN [row[i] EXCEPT !.status = tick[w].verdict[i]] ELSE row[i]]
      /\ tick' = [tick EXCEPT ![w] = NoTick]
      /\ UNCHANGED <<request, up, races, requests, flips, crashes>>
  BY DEF Commit, bounds
<1>2. tick \in [Workers -> Ticks] /\ row \in [Rows -> RowType]
  BY DEF IInv, TypeOK, Ticks
<1>3. \A i \in Seen(w) : tick[w].verdict[i] \in Status
  BY <1>1 DEF Seen, IInv, Judged
<1>4. \A i \in Rows : \/ row'[i] = row[i]
                      \/ /\ row'[i] = [row[i] EXCEPT !.status = tick[w].verdict[i]]
                         /\ tick[w].verdict[i] \in Status
  BY <1>1, <1>3
<1>5. \A i \in Rows : /\ row'[i] \in RowType
                      /\ row'[i].provider = row[i].provider
                      /\ row'[i].state = row[i].state
  <2> SUFFICES ASSUME NEW i \in Rows
               PROVE  /\ row'[i] \in RowType
                      /\ row'[i].provider = row[i].provider
                      /\ row'[i].state = row[i].state
    OBVIOUS
  <2>1. row[i] \in RowType
    BY <1>2
  <2>2. CASE row'[i] = row[i]
    BY <2>1, <2>2
  <2>3. CASE /\ row'[i] = [row[i] EXCEPT !.status = tick[w].verdict[i]]
             /\ tick[w].verdict[i] \in Status
    BY <2>1, <2>3 DEF RowType
  <2> QED
    BY <1>4, <2>2, <2>3
<1>6. row' \in [Rows -> RowType]
  BY <1>1, <1>5
<1>7. tick' \in [Workers -> Ticks]
  BY <1>1, <1>2, IdleType
<1>8. TypeOK'
  BY <1>1, <1>6, <1>7 DEF IInv, TypeOK, Ticks
<1>9. Judged'
  BY <1>1, <1>2, NoTickJudged DEF IInv, Judged
<1>10. (races <= requests)' /\ FoundIsKin' /\ Budget'
  BY <1>1, <1>5, RowsKeep
<1> QED
  BY <1>8, <1>9, <1>10 DEF IInv

LEMMA FlipStep == ASSUME IInv, NEW i \in Rows, Flip(i) PROVE IInv'
<1>0. flips \in 0 .. MaxFlips /\ up \subseteq Rows
  BY DEF IInv, TypeOK
<1>1. /\ flips' \in 0 .. MaxFlips /\ up' \subseteq Rows
      /\ UNCHANGED <<row, request, tick, races, requests, crashes>>
  BY <1>0 DEF Flip
<1>2. TypeOK' /\ Judged'
  BY <1>1 DEF IInv, TypeOK, Judged
<1>3. (races <= requests)' /\ FoundIsKin' /\ Budget'
  BY <1>1, RowsKeep
<1> QED
  BY <1>2, <1>3 DEF IInv

LEMMA IInvStep == IInv /\ [Next]_vars => IInv'
<1> SUFFICES ASSUME IInv, [Next]_vars
             PROVE  IInv'
  OBVIOUS
<1>1. CASE \E a \in Admins :
               Put(a) \/ PutById(a) \/ Delete(a) \/ Remove(a)
  BY <1>1, PutStep, PutByIdStep, DeleteStep, RemoveStep
<1>2. CASE \E a \in Admins, i \in Rows : Write(a, i)
  BY <1>2, WriteStep
<1>3. CASE \E w \in Workers : ReadAll(w) \/ Abort(w) \/ Commit(w)
                              \/ CommitRaises(w) \/ Crash(w)
  BY <1>3, ReadAllStep, GiveUpStep, CommitStep
<1>4. CASE \E w \in Workers, i \in Rows : Probe(w, i)
  BY <1>4, ProbeStep
<1>5. CASE \E i \in Rows : Flip(i)
  BY <1>5, FlipStep
<1>6. CASE UNCHANGED vars
  <2>1. TypeOK' /\ Judged'
    BY <1>6 DEF vars, bounds, IInv, TypeOK, Judged
  <2>2. (races <= requests)' /\ FoundIsKin' /\ Budget'
    BY <1>6, RowsKeep DEF vars, bounds
  <2> QED
    BY <2>1, <2>2 DEF IInv
<1> QED
  BY <1>1, <1>2, <1>3, <1>4, <1>5, <1>6 DEF Next

LEMMA IInvHolds == Spec => []IInv
  BY IInvInit, IInvStep, PTL DEF Spec

(* Every variable keeps its type, whatever requests, ticks and crashes do. *)
THEOREM IntegrationTypes == Spec => []TypeOK
<1>1. IInv => TypeOK
  BY DEF IInv
<1> QED
  BY <1>1, IInvHolds, PTL

(* The unchecked uniqueness of upsert_tenant_config: a provider with one   *)
(* row has as many more as there were first connects at the same time, for *)
(* any number of admins.                                                   *)
THEOREM DuplicatesRace == Spec => []DuplicatesAreRaces
<1>1. IInv => DuplicatesAreRaces
  <2> SUFFICES ASSUME IInv
               PROVE  Cardinality(Of("tinkerbell")) <= 1 + races
    BY DEF DuplicatesAreRaces
  <2>1. /\ Cardinality(Of("tinkerbell")) \in Nat /\ races \in Nat
        /\ Cardinality(Creating("tinkerbell")) \in Nat
    BY Counted DEF IInv, TypeOK
  <2>2. Cardinality(Of("tinkerbell")) + Cardinality(Creating("tinkerbell"))
            <= 1 + races
    BY DEF IInv, Budget
  <2> QED
    BY <2>1, <2>2
<1> QED
  BY <1>1, IInvHolds, PTL
=============================================================================
