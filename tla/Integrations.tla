---------------------------- MODULE Integrations ----------------------------
(***************************************************************************)
(* The integrations of a tenant, rows of a table without any unique        *)
(* constraint: how api/routers/integrations.py connects, edits and deletes *)
(* them, and how the beat task of workers/integration_health.py probes     *)
(* them and keeps their badge.                                             *)
(*                                                                         *)
(* Two providers stand for all: kubernetes, of which a tenant may have     *)
(* several clusters, told apart by name, and tinkerbell, of which it has   *)
(* one row at most, whose probe may need the cluster's row.  A request     *)
(* reads and commits in two steps; a tick reads all rows, probes one after *)
(* another and commits once.  A probe may take for ever: the nodes of a    *)
(* cluster are listed without a timeout, and tasks have none.              *)
(***************************************************************************)
EXTENDS Integers, FiniteSets

CONSTANTS
    NumRows,     \* rows 1 .. NumRows, in the order of their creation
    Names,       \* names of clusters
    Providers,   \* a part of {"kubernetes", "tinkerbell"}
    Admins,      \* requests that may be under way at once
    Workers,     \* worker processes that run the health check
    MaxRequests, \* bound on requests
    MaxFlips,    \* bound on clusters that go down or come back
    MaxCrashes   \* bound on workers that die

Rows  == 1 .. NumRows
NoRow == 0

(* Where the kubeconfig of a tinkerbell row is: in the row, in the row but *)
(* not YAML, or in the row of the cluster behind the tunnel it names.      *)
Sources == {"inline", "malformed", "tunnel"}

ASSUME IntegrationAssumption ==
    /\ NumRows \in Nat
    /\ Providers \subseteq {"kubernetes", "tinkerbell"}
    /\ IsFiniteSet(Admins)
    /\ MaxRequests \in Nat
    /\ MaxFlips \in Nat
    /\ MaxCrashes \in Nat

VARIABLES
    row,      \* Rows -> the integration
    request,  \* Admins -> the request that has read and not committed
    tick,     \* Workers -> the health check it runs
    up,       \* rows whose cluster can be reached
    races,    \* first connects that overlapped another of their provider
    requests, flips, crashes

bounds == <<requests, flips, crashes>>
vars == <<row, request, tick, up, races, bounds>>

Unborn == [state |-> "unborn", provider |-> "kubernetes", name |-> "",
           source |-> "inline", status |-> "connected"]
NoRequest == [what |-> "none", found |-> NoRow, payload |-> Unborn,
              loaded |-> Unborn]
NoTick == [at |-> "idle", read |-> [i \in Rows |-> "none"], todo |-> {},
           source |-> [i \in Rows |-> "inline"],
           verdict |-> [i \in Rows |-> "none"]]

Status == {"connected", "error"}
RowType == [state: {"unborn", "live", "deleted"}, provider: {"kubernetes", "tinkerbell"},
            name: Names \cup {""}, source: Sources, status: Status]

TypeOK ==
    /\ row \in [Rows -> RowType]
    /\ request \in [Admins -> [what: {"none", "put", "delete"},
                               found: Rows \cup {NoRow}, payload: RowType,
                               loaded: RowType]]
    /\ tick \in [Workers -> [at: {"idle", "running"}, todo: SUBSET Rows,
                             read: [Rows -> Status \cup {"none"}],
                             source: [Rows -> Sources],
                             verdict: [Rows -> Status \cup {"none"}]]]
    /\ up \subseteq Rows
    /\ races \in 0 .. MaxRequests
    /\ requests \in 0 .. MaxRequests
    /\ flips \in 0 .. MaxFlips
    /\ crashes \in 0 .. MaxCrashes

Init ==
    /\ row = [i \in Rows |-> Unborn]
    /\ request = [a \in Admins |-> NoRequest]
    /\ tick = [w \in Workers |-> NoTick]
    /\ up = Rows
    /\ races = 0
    /\ requests = 0
    /\ flips = 0
    /\ crashes = 0

Live(i) == row[i].state = "live"
Of(provider) == {i \in Rows : Live(i) /\ row[i].provider = provider}
Unused == {i \in Rows : row[i].state = "unborn"}

-----------------------------------------------------------------------------
(* PUT /integrations/config/{provider}.                                    *)

(* What an admin can send: a cluster with or without a name, or where the  *)
(* kubeconfig of tinkerbell is.                                            *)
Payloads ==
    {[Unborn EXCEPT !.state = "live", !.name = n] : n \in Names \cup {""}}
    \cup {[Unborn EXCEPT !.state = "live", !.provider = "tinkerbell",
                         !.source = s] : s \in Sources}

Busy(a) == request[a].what # "none"

Read(a, what, i, payload) ==
    /\ ~Busy(a)
    /\ requests < MaxRequests
    /\ requests' = requests + 1
    /\ request' = [request EXCEPT ![a] =
           [what |-> what, found |-> i, payload |-> payload,
            loaded |-> IF what = "put" /\ i # NoRow THEN row[i] ELSE Unborn]]
    /\ UNCHANGED <<row, tick, up, flips, crashes>>

(* Mutant of Named: every provider's rows are told apart by name.          *)
NamedByName(p) == {i \in Of(p.provider) : p.name # "" /\ row[i].name = p.name}

(* The rows that a payload without an id may mean.                         *)
Named(p) == {i \in Of(p.provider) :
    p.provider = "kubernetes" => p.name # "" /\ row[i].name = p.name}

(* Another request is about to create a row of the provider.               *)
Creating(provider) == {a \in Admins : /\ request[a].what = "put"
                                      /\ request[a].found = NoRow
                                      /\ request[a].payload.provider = provider}

(* It names a row by its id.                                               *)
PutById(a) == \E p \in Payloads, i \in Rows :
    /\ p.provider \in Providers
    /\ i \in Of(p.provider)
    /\ Read(a, "put", i, p)
    /\ UNCHANGED races

(* It names none: the provider's only row, the first one of that name, or  *)
(* a new one.  More than one row of a provider that has one is an error.   *)
Put(a) == \E p \in Payloads, i \in Rows \cup {NoRow} :
    /\ p.provider \in Providers
    /\ IF Named(p) = {} THEN i = NoRow ELSE i \in Named(p)
    /\ p.provider = "tinkerbell" => Cardinality(Named(p)) <= 1
    /\ Read(a, "put", i, p)
    /\ races' = IF i = NoRow /\ Creating(p.provider) # {} THEN races + 1
                ELSE races

(* What the commit leaves in a column: it writes only what differs from    *)
(* what the request has loaded.                                            *)
Net(loaded, new, current) == IF new = loaded THEN current ELSE new

(* The commit; a row that was deleted meanwhile is an error.  A payload    *)
(* without a name leaves the name; one that keeps the source may keep or   *)
(* change the rest of the configuration.                                   *)
Write(a, i) ==
    LET found == request[a].found
        p     == request[a].payload
        old   == request[a].loaded
        name  == IF p.name = "" THEN old.name ELSE p.name
    IN
    /\ request[a].what = "put"
    /\ IF found = NoRow THEN i \in Unused /\ \A j \in Unused : i <= j
       ELSE i = found
    /\ \/ found = NoRow /\ row' = [row EXCEPT ![i] = p]
       \/ found # NoRow /\ ~Live(i) /\ row' = row
       \/ /\ found # NoRow /\ Live(i)
          /\ \E source \in {p.source, Net(old.source, p.source, row[i].source)} :
                row' = [row EXCEPT
                    ![i].name   = Net(old.name, name, @),
                    ![i].source = source,
                    ![i].status = Net(old.status, "connected", @)]
    /\ request' = [request EXCEPT ![a] = NoRequest]
    /\ UNCHANGED <<tick, up, races, bounds>>

-----------------------------------------------------------------------------
(* DELETE /integrations/config/{provider}.                                 *)

(* By its id, or as the provider's only row.                               *)
Deletable(i, byId) == Live(i) /\ (byId \/ Of(row[i].provider) = {i})

Delete(a) == \E i \in Rows, byId \in BOOLEAN :
    /\ Deletable(i, byId)
    /\ Read(a, "delete", i, Unborn)
    /\ UNCHANGED races

Remove(a) ==
    LET i == request[a].found IN
    /\ request[a].what = "delete"
    /\ row' = [row EXCEPT ![i] = [Unborn EXCEPT !.state = "deleted",
                                                !.provider = row[i].provider]]
    /\ request' = [request EXCEPT ![a] = NoRequest]
    /\ UNCHANGED <<tick, up, races, bounds>>

-----------------------------------------------------------------------------
(* The probes.                                                             *)

(* kubernetes: the nodes of the tenant's cluster, by which _tenant_kube    *)
(* means the one that was connected first, whatever row is probed.         *)
Oldest == CHOOSE i \in Of("kubernetes") :
              \A j \in Of("kubernetes") : i <= j
KubeReached == Of("kubernetes") = {} \/ Oldest \in up

(* The kubeconfig of tinkerbell is resolved from its row, as the session   *)
(* of the tick w knows it: as it was read at the start.                    *)
Seen(w) == {i \in Rows : tick[w].read[i] # "none"}
SourceIn(w) == [t \in Rows |-> IF t \in Seen(w) THEN tick[w].source[t]
                               ELSE row[t].source]
SourceNow == [t \in Rows |-> row[t].source]

(* Only LookupError is caught there, neither a YAML error nor that one row *)
(* was expected and there are more.                                        *)
ProbeRaises(i, source) ==
    /\ row[i].provider = "tinkerbell"
    /\ \/ Cardinality(Of("tinkerbell")) > 1
       \/ \E t \in Of("tinkerbell") :
             \/ source[t] = "malformed"
             \/ source[t] = "tunnel" /\ Cardinality(Of("kubernetes")) > 1

(* What a probe of row i answers.                                          *)
Probed(i, source) ==
    CASE row[i].provider = "kubernetes" ->
             IF KubeReached THEN "connected" ELSE "error"
      [] Of("tinkerbell") = {} -> "error"
      [] OTHER -> LET t == CHOOSE t \in Of("tinkerbell") : TRUE IN
             IF source[t] = "tunnel"
             THEN IF Of("kubernetes") # {} /\ KubeReached
                  THEN "connected" ELSE "error"
             ELSE IF t \in up THEN "connected" ELSE "error"

-----------------------------------------------------------------------------
(* The tick.                                                               *)

ReadAll(w) ==
    /\ tick[w].at = "idle"
    /\ \E i \in Rows : Live(i)
    /\ tick' = [tick EXCEPT ![w] =
           [at |-> "running", todo |-> {i \in Rows : Live(i)},
            read |-> [i \in Rows |-> IF Live(i) THEN row[i].status ELSE "none"],
            source |-> [i \in Rows |-> IF Live(i) THEN row[i].source ELSE "inline"],
            verdict |-> NoTick.verdict]]
    /\ UNCHANGED <<row, request, up, races, bounds>>

Running(w) == tick[w].at = "running"

Probe(w, i) ==
    /\ i \in tick[w].todo
    /\ ~ProbeRaises(i, SourceIn(w))
    /\ tick' = [tick EXCEPT ![w].todo = @ \ {i},
                            ![w].verdict[i] = Probed(i, SourceIn(w))]
    /\ UNCHANGED <<row, request, up, races, bounds>>

(* The exception ends the tick, and what it found out of all other rows,   *)
(* of every tenant, is not written.                                        *)
Abort(w) ==
    /\ \E i \in tick[w].todo : ProbeRaises(i, SourceIn(w))
    /\ tick' = [tick EXCEPT ![w] = NoTick]
    /\ UNCHANGED <<row, request, up, races, bounds>>

(* Mutant of Commit: rows are written that the tick has not read.          *)
CommitAll(w) ==
    /\ Running(w)
    /\ tick[w].todo = {}
    /\ row' = [i \in Rows |-> IF Live(i)
           THEN [row[i] EXCEPT !.status = tick[w].verdict[i]] ELSE row[i]]
    /\ tick' = [tick EXCEPT ![w] = NoTick]
    /\ UNCHANGED <<request, up, races, bounds>>

(* Mutant of Commit: a badge that is red stays red.                        *)
CommitErrors(w) ==
    /\ Running(w)
    /\ tick[w].todo = {}
    /\ row' = [i \in Rows |->
           IF i \in Seen(w) /\ Live(i) /\ tick[w].verdict[i] = "error"
           THEN [row[i] EXCEPT !.status = "error"] ELSE row[i]]
    /\ tick' = [tick EXCEPT ![w] = NoTick]
    /\ UNCHANGED <<request, up, races, bounds>>

(* The commit writes the status of the rows whose status differs from the  *)
(* one that was read.                                                      *)
Commit(w) ==
    /\ Running(w)
    /\ tick[w].todo = {}
    /\ row' = [i \in Rows |->
           IF /\ i \in Seen(w) /\ Live(i)
              /\ tick[w].verdict[i] # tick[w].read[i]
           THEN [row[i] EXCEPT !.status = tick[w].verdict[i]] ELSE row[i]]
    /\ tick' = [tick EXCEPT ![w] = NoTick]
    /\ UNCHANGED <<request, up, races, bounds>>

(* A row it updates by itself is gone (StaleDataError).                    *)
CommitRaises(w) ==
    /\ Running(w)
    /\ tick[w].todo = {}
    /\ \E i \in Seen(w) : ~Live(i)
    /\ tick' = [tick EXCEPT ![w] = NoTick]
    /\ UNCHANGED <<row, request, up, races, bounds>>

Crash(w) ==
    /\ Running(w)
    /\ crashes < MaxCrashes
    /\ crashes' = crashes + 1
    /\ tick' = [tick EXCEPT ![w] = NoTick]
    /\ UNCHANGED <<row, request, up, races, requests, flips>>

-----------------------------------------------------------------------------
(* A cluster goes down or comes back; that of a row that was deleted is of *)
(* no interest.                                                            *)
Flip(i) ==
    /\ row[i].state # "deleted"
    /\ flips < MaxFlips
    /\ flips' = flips + 1
    /\ up' = IF i \in up THEN up \ {i} ELSE up \cup {i}
    /\ UNCHANGED <<row, request, tick, races, requests, crashes>>

Next ==
    \/ \E a \in Admins : Put(a) \/ PutById(a) \/ Delete(a) \/ Remove(a)
    \/ \E a \in Admins, i \in Rows : Write(a, i)
    \/ \E w \in Workers : ReadAll(w) \/ Abort(w) \/ Commit(w)
                          \/ CommitRaises(w) \/ Crash(w)
    \/ \E w \in Workers, i \in Rows : Probe(w, i)
    \/ \E i \in Rows : Flip(i)

(* Beat starts tick after tick, and the database answers.  Of probes       *)
(* nothing is assumed.                                                     *)
Fairness == \A w \in Workers :
    /\ WF_vars(ReadAll(w))
    /\ WF_vars(Commit(w) \/ CommitRaises(w))

Spec == Init /\ [][Next]_vars /\ Fairness

-----------------------------------------------------------------------------
(* A provider that has one row gets a second one only from two first       *)
(* connects at the same time, and no more than one from each such pair.    *)
(* (With two rows every reader of the provider fails until one of them is  *)
(* deleted by its id.)                                                     *)
DuplicatesAreRaces ==
    \/ Of("tinkerbell") = {}
    \/ Cardinality(Of("tinkerbell")) <= 1 + races

(* A worker whose probes end, each of them or by an exception.             *)
SomeWorkerEnds == \E w \in Workers : []<>(tick[w].todo = {})

(* A badge comes to show what the probe of its row answers, whatever edits *)
(* and older ticks wrote in between, as long as no probe of any row raises *)
(* and there is a worker whose probes end.                                 *)
BadgeShowsProbe ==
    SomeWorkerEnds => \A i \in Rows, s \in Status :
        <>[](/\ Live(i) /\ Probed(i, SourceNow) = s
             /\ \A j \in Rows : Live(j) => ~ProbeRaises(j, SourceNow))
            => <>[](Live(i) /\ row[i].status = s)

(* The badge of a cluster that went down for good turns red: the health    *)
(* check is there so that a badge does not stay green for ever.  It does,  *)
(* for every cluster but the one that was connected first.                 *)
BadgeShowsCluster ==
    SomeWorkerEnds => \A i \in Rows :
        <>[](i \in Of("kubernetes") /\ i \notin up) => <>[](row[i].status = "error")
=============================================================================
