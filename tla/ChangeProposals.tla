--------------------------- MODULE ChangeProposals ---------------------------
(***************************************************************************)
(* The approval-gated path from a ChangeProposal row to a live device:     *)
(*   core/change_proposals.py        the lifecycle service                 *)
(*   api/routers/change_proposals.py the approve and reject endpoints      *)
(*   workers/executor.py             the executor's beat task              *)
(*                                                                         *)
(* Postgres is the committed columns of each row (status, content,         *)
(* approvedAt, stamped) and rowLock, the holder of its SELECT ... FOR      *)
(* UPDATE lock.  Every request and every executor tick owns a SQLAlchemy   *)
(* session.  What a session first read of a row stays in its identity map  *)
(* (seen, reqSeen): the later locking SELECT returns the same Python       *)
(* object and, as it does not ask for populate_existing, leaves the loaded *)
(* status as it was.  The status checks of the code test that object, so   *)
(* here they test seen.                                                    *)
(***************************************************************************)
EXTENDS Naturals, FiniteSets

CONSTANTS
    Proposals,    \* ids of change_proposals rows
    Devices,      \* SoT device ids
    Configs,      \* rendered configurations
    Ticks,        \* executor worker slots (daalu executor --concurrency=N)
    Requests,     \* approve/reject HTTP requests, each sent once
    Target,       \* the proposal each request is about
    BatchSize,    \* settings.executor_batch_size
    Unresolvable, \* rows whose device or credentials raise an exception that
                  \* _execute_one does not catch
    SotEdits,     \* what a SoT edit may turn a device's intent into
    MaxFaults     \* bound on adapter exceptions and executor crashes

Nothing  == [kind |-> "nothing"]    \* the content of a row that does not exist
NoIntent == "no_intent"    \* the device has no daalu_intent context
Gone     == "gone"         \* the device is not in the SoT
BadSpec  == "bad_spec"     \* a provisioning spec that does not validate
Blank    == "blank"        \* nothing was rendered yet
Free     == "free"         \* nobody holds the row lock

Statuses == {"pending", "approved", "rejected", "executed", "failed", "stale"}
Kinds    == {"declarative", "provision_op"}
Decisions == {"approved", "rejected"}

(* How a push ends: the adapter reports success and the device holds the   *)
(* whole change; it reports success although the device holds part of it   *)
(* or nothing (a refused line or rpc, a failing command, the resources of  *)
(* an earlier provisioning); it reports an error.                          *)
Results   == {"succeeded", "claimed", "errored"}

ASSUME ConstantsAssumption ==
    /\ Target \in [Requests -> Proposals]
    /\ BatchSize \in Nat \ {0}
    /\ Unresolvable \subseteq Proposals
    /\ MaxFaults \in Nat
    /\ SotEdits \subseteq Configs \cup {NoIntent, Gone}
    /\ {NoIntent, Gone, BadSpec, Blank} \cap Configs = {}
    /\ Free \notin Ticks

VARIABLES
    \* the change_proposals table
    status,       \* Proposals -> status column, or absent
    content,      \* Proposals -> kind, device_id and intended_config
    approvedAt,   \* Proposals -> rank of approved_at, 0 for NULL
    stamped,      \* the proposals whose executed_at is set
    rowLock,      \* Proposals -> the tick holding the row lock, or Free
    \* the source of truth and the devices
    sot,          \* Devices -> intended config in the SoT, NoIntent or Gone
    running,      \* Devices -> the pushed configs of which it runs anything
    \* the executor's ticks
    at,           \* Ticks -> where the run is
    batch,        \* Ticks -> ids it has still to process
    cur,          \* Ticks -> the id in hand
    seen,         \* Ticks -> that row's status in the session's identity map
    fresh,        \* Ticks -> what adapter.render returned
    \* the API requests
    reqAt,        \* Requests -> where the request is
    reqSeen,      \* Requests -> status of its row in the identity map
    \* bounds and history
    clock,        \* last rank given to an approved_at
    faults,       \* adapter exceptions and crashes so far
    pushes,       \* Proposals -> number of pushes to the device
    approvals     \* the proposals some operator approved

rowVars     == <<status, content, approvedAt, stamped>>
tickVars    == <<at, batch, cur, seen, fresh>>
requestVars == <<reqAt, reqSeen>>

vars == <<rowVars, rowLock, sot, running, tickVars, requestVars, clock,
          faults, pushes, approvals>>

Exists(p) == status[p] # "absent"

Contents == [kind: Kinds, device: Devices, intended: Configs \cup {BadSpec}]

TickPoints == {"idle", "batch", "loaded", "ready", "locked", "rendered"}
                  \cup Results

TypeOK ==
    /\ status \in [Proposals -> Statuses \cup {"absent"}]
    /\ content \in [Proposals -> Contents \cup {Nothing}]
    /\ \A p \in Proposals : Exists(p) => content[p] \in Contents
    /\ approvedAt \in [Proposals -> Nat]
    /\ stamped \in SUBSET Proposals
    /\ rowLock \in [Proposals -> Ticks \cup {Free}]
    /\ sot \in [Devices -> Configs \cup {NoIntent, Gone}]
    /\ running \in [Devices -> SUBSET Configs]
    /\ at \in [Ticks -> TickPoints]
    /\ batch \in [Ticks -> SUBSET Proposals]
    /\ cur \in [Ticks -> Proposals]
    /\ seen \in [Ticks -> Statuses]
    /\ fresh \in [Ticks -> Configs \cup {Blank}]
    /\ reqAt \in [Requests -> {"new", "read", "done"}]
    /\ reqSeen \in [Requests -> Statuses]
    /\ clock \in Nat
    /\ faults \in Nat
    /\ pushes \in [Proposals -> Nat]
    /\ approvals \in SUBSET Proposals

Init ==
    /\ status = [p \in Proposals |-> "absent"]
    /\ content = [p \in Proposals |-> Nothing]
    /\ approvedAt = [p \in Proposals |-> 0]
    /\ stamped = {}
    /\ rowLock = [p \in Proposals |-> Free]
    /\ sot \in [Devices -> Configs]
    /\ running = [d \in Devices |-> {}]
    /\ at = [t \in Ticks |-> "idle"]
    /\ batch = [t \in Ticks |-> {}]
    /\ \E p \in Proposals : cur = [t \in Ticks |-> p]
    /\ seen = [t \in Ticks |-> "pending"]
    /\ fresh = [t \in Ticks |-> Blank]
    /\ reqAt = [r \in Requests |-> "new"]
    /\ reqSeen = [r \in Requests |-> "pending"]
    /\ clock = 0
    /\ faults = 0
    /\ pushes = [p \in Proposals |-> 0]
    /\ approvals = {}

-----------------------------------------------------------------------------
(* Mutant of Propose: an author reuses the row of an earlier proposal.     *)
ProposeOver(p, k, d, c) ==
    /\ c = BadSpec => k = "provision_op"
    /\ status' = [status EXCEPT ![p] = "pending"]
    /\ content' = [content EXCEPT ![p] =
                      [kind |-> k, device |-> d, intended |-> c]]
    /\ UNCHANGED <<approvedAt, stamped, rowLock, sot, running, tickVars,
                   requestVars, clock, faults, pushes, approvals>>

(* propose(): the engine, the reconciler, an importer or a user inserts a  *)
(* pending row.  Its intended_config is whatever the author rendered.      *)
Propose(p, k, d, c) ==
    /\ ~Exists(p)
    /\ c = BadSpec => k = "provision_op"
    /\ status' = [status EXCEPT ![p] = "pending"]
    /\ content' = [content EXCEPT ![p] =
                      [kind |-> k, device |-> d, intended |-> c]]
    /\ UNCHANGED <<approvedAt, stamped, rowLock, sot, running, tickVars,
                   requestVars, clock, faults, pushes, approvals>>

(* Somebody edits or removes a device's intent in the SoT.                 *)
EditSot(d, c) ==
    /\ sot[d] # c
    /\ sot' = [sot EXCEPT ![d] = c]
    /\ UNCHANGED <<rowVars, rowLock, running, tickVars, requestVars, clock,
                   faults, pushes, approvals>>

-----------------------------------------------------------------------------
(* The router's ownership check: an unlocked SELECT in the request's       *)
(* session (404 when there is no such row).                                *)
ReadForDecision(r) ==
    /\ reqAt[r] = "new"
    /\ Exists(Target[r])
    /\ reqAt' = [reqAt EXCEPT ![r] = "read"]
    /\ reqSeen' = [reqSeen EXCEPT ![r] = status[Target[r]]]
    /\ UNCHANGED <<rowVars, rowLock, sot, running, tickVars, clock, faults,
                   pushes, approvals>>

(* approve() and reject(): lock the row, refuse unless the loaded object   *)
(* is pending, stamp the decision and commit.  Nothing is awaited between  *)
(* the lock and the commit but statements on the locked row.               *)
Decide(r, decision) ==
    /\ reqAt[r] = "read"
    /\ reqSeen[r] = "pending"
    /\ rowLock[Target[r]] = Free
    /\ clock' = clock + 1
    /\ status' = [status EXCEPT ![Target[r]] = decision]
    /\ approvedAt' = [approvedAt EXCEPT ![Target[r]] = clock + 1]
    /\ approvals' = approvals \cup
                      (IF decision = "approved" THEN {Target[r]} ELSE {})
    /\ reqAt' = [reqAt EXCEPT ![r] = "done"]
    /\ UNCHANGED <<content, stamped, rowLock, sot, running, tickVars, reqSeen,
                   faults, pushes>>

(* ProposalStatusError: the request answers 409 and changes nothing.       *)
RefuseDecision(r) ==
    /\ reqAt[r] = "read"
    /\ reqSeen[r] # "pending"
    /\ rowLock[Target[r]] = Free
    /\ reqAt' = [reqAt EXCEPT ![r] = "done"]
    /\ UNCHANGED <<rowVars, rowLock, sot, running, tickVars, reqSeen, clock,
                   faults, pushes, approvals>>

-----------------------------------------------------------------------------
(* The executor's beat task.                                               *)

Due == {p \in Proposals : status[p] = "approved" /\ p \notin stamped}

(* ORDER BY approved_at LIMIT executor_batch_size                          *)
IsBatch(B) ==
    /\ Cardinality(B) <= BatchSize
    /\ B # Due => Cardinality(B) = BatchSize
    /\ \A p \in B, q \in Due \ B : approvedAt[p] <= approvedAt[q]

StartTick(t) ==
    /\ at[t] = "idle"
    /\ \E B \in SUBSET Due :
          /\ B # {}
          /\ IsBatch(B)
          /\ batch' = [batch EXCEPT ![t] = B]
    /\ at' = [at EXCEPT ![t] = "batch"]
    /\ UNCHANGED <<rowVars, rowLock, sot, running, cur, seen, fresh,
                   requestVars, clock, faults, pushes, approvals>>

(* _execute_one opens a session and reads the row without a lock; a row    *)
(* that is no longer approved is skipped.  Grouping by tenant reorders the *)
(* batch, so any remaining id may come next.                               *)
Load(t, p) ==
    /\ at[t] = "batch"
    /\ p \in batch[t]
    /\ batch' = [batch EXCEPT ![t] = batch[t] \ {p}]
    /\ \/ /\ status[p] = "approved"
          /\ cur' = [cur EXCEPT ![t] = p]
          /\ at' = [at EXCEPT ![t] = "loaded"]
          /\ seen' = [seen EXCEPT ![t] = status[p]]
       \/ /\ status[p] # "approved"
          /\ UNCHANGED <<at, cur, seen>>
    /\ UNCHANGED <<rowVars, rowLock, sot, running, fresh, requestVars, clock,
                   faults, pushes, approvals>>

EndTick(t) ==
    /\ at[t] = "batch"
    /\ batch[t] = {}
    /\ at' = [at EXCEPT ![t] = "idle"]
    /\ UNCHANGED <<rowVars, rowLock, sot, running, batch, cur, seen, fresh,
                   requestVars, clock, faults, pushes, approvals>>

Row(t) == content[cur[t]]

(* sot.get_device, get_device_adapter and resolve_credentials, for the     *)
(* declarative kinds; provision_op goes straight to execute_provision.     *)
Resolve(t) ==
    /\ at[t] = "loaded"
    /\ Row(t).kind = "declarative" => /\ sot[Row(t).device] # Gone
                                      /\ cur[t] \notin Unresolvable
    /\ at' = [at EXCEPT ![t] = "ready"]
    /\ UNCHANGED <<rowVars, rowLock, sot, running, batch, cur, seen, fresh,
                   requestVars, clock, faults, pushes, approvals>>

(* Mutant of CloseSession: the row lock outlives the session.              *)
CloseSessionHolding(t) ==
    /\ UNCHANGED rowLock
    /\ seen' = [seen EXCEPT ![t] = "pending"]
    /\ fresh' = [fresh EXCEPT ![t] = Blank]

(* Closing the session ends its transaction, releases its row lock and     *)
(* forgets what it had loaded.                                             *)
CloseSession(t) ==
    /\ rowLock' = [p \in Proposals |->
                      IF rowLock[p] = t THEN Free ELSE rowLock[p]]
    /\ seen' = [seen EXCEPT ![t] = "pending"]
    /\ fresh' = [fresh EXCEPT ![t] = Blank]

(* The exits that leave the row approved for a later tick: the SoT does    *)
(* not answer, the device is unknown to it, no adapter, no credentials, no *)
(* Tinkerbell target.                                                      *)
Skip(t) ==
    /\ \/ at[t] = "loaded" /\ Row(t).kind = "declarative"
       \/ at[t] = "locked"
    /\ CloseSession(t)
    /\ at' = [at EXCEPT ![t] = "batch"]
    /\ UNCHANGED <<rowVars, sot, running, batch, cur, requestVars,
                   clock, faults, pushes, approvals>>

(* A lookup that raises anything else (an HTTP error, two integrations     *)
(* where one is expected, a secret that does not decrypt, a port that is   *)
(* no number) is not caught: it ends the tick, and the rest of the batch   *)
(* waits for the next one.  Those that pass are among the crashes below.   *)
Escape(t) ==
    /\ at[t] = "loaded"
    /\ Row(t).kind = "declarative"
    /\ cur[t] \in Unresolvable
    /\ CloseSession(t)
    /\ at' = [at EXCEPT ![t] = "idle"]
    /\ batch' = [batch EXCEPT ![t] = {}]
    /\ UNCHANGED <<rowVars, sot, running, cur, requestVars, clock, faults,
                   pushes, approvals>>

(* Mutant of LockRow: the locking read without FOR UPDATE.                 *)
LockRowPlain(t) ==
    /\ at[t] = "ready"
    /\ seen[t] = "approved"
    /\ at' = [at EXCEPT ![t] = "locked"]
    /\ rowLock' = [rowLock EXCEPT ![cur[t]] = t]
    /\ UNCHANGED <<rowVars, sot, running, batch, cur, seen, fresh, requestVars,
                   clock, faults, pushes, approvals>>

(* SELECT ... FOR UPDATE, then the status check of execute() and           *)
(* execute_provision(), on the object the session already held.            *)
LockRow(t) ==
    /\ at[t] = "ready"
    /\ rowLock[cur[t]] = Free
    /\ seen[t] = "approved"
    /\ at' = [at EXCEPT ![t] = "locked"]
    /\ rowLock' = [rowLock EXCEPT ![cur[t]] = t]
    /\ UNCHANGED <<rowVars, sot, running, batch, cur, seen, fresh, requestVars,
                   clock, faults, pushes, approvals>>

(* Commit the outcome of the row in hand: the transaction ends, and the    *)
(* lock with it.                                                           *)
CommitStatus(t, outcome) ==
    /\ status' = [status EXCEPT ![cur[t]] = outcome]
    /\ at' = [at EXCEPT ![t] = "batch"]
    /\ CloseSession(t)
    /\ UNCHANGED <<content, approvedAt, sot, running, batch, cur, requestVars,
                   clock, faults, pushes, approvals>>

(* Ready to push x.                                                        *)
Prepare(t, x) ==
    /\ at' = [at EXCEPT ![t] = "rendered"]
    /\ fresh' = [fresh EXCEPT ![t] = x]
    /\ UNCHANGED <<rowVars, rowLock, sot, running, batch, cur, seen,
                   requestVars, clock, faults, pushes, approvals>>

(* Mutant of Render: the fresh rendering is not compared with the snapshot. *)
RenderUnchecked(t) ==
    /\ at[t] = "locked"
    /\ Row(t).kind = "declarative"
    /\ \/ /\ sot[Row(t).device] \in Configs
          /\ Prepare(t, sot[Row(t).device])
       \/ /\ sot[Row(t).device] = NoIntent
          /\ CommitStatus(t, "stale")
          /\ UNCHANGED stamped

(* Mutant of Render: the row is marked stale but pushed all the same.      *)
RenderNoReturn(t) ==
    /\ at[t] = "locked"
    /\ Row(t).kind = "declarative"
    /\ sot[Row(t).device] \in Configs
    /\ status' = [status EXCEPT ![cur[t]] =
                     IF sot[Row(t).device] = Row(t).intended THEN @ ELSE "stale"]
    /\ at' = [at EXCEPT ![t] = "rendered"]
    /\ fresh' = [fresh EXCEPT ![t] = sot[Row(t).device]]
    /\ UNCHANGED <<content, approvedAt, stamped, rowLock, sot, running, batch,
                   cur, seen, requestVars, clock, faults, pushes, approvals>>

(* execute(): re-read the intent from the SoT, render it, and give the     *)
(* proposal up as stale when it is gone or differs from the snapshot.      *)
Render(t) ==
    /\ at[t] = "locked"
    /\ Row(t).kind = "declarative"
    /\ \/ /\ sot[Row(t).device] \in Configs
          /\ sot[Row(t).device] = Row(t).intended
          /\ Prepare(t, sot[Row(t).device])
       \/ /\ sot[Row(t).device] # Row(t).intended
          /\ CommitStatus(t, "stale")
          /\ UNCHANGED stamped

(* Mutant of Precheck: the spec is not validated.                          *)
PrecheckUnvalidated(t) ==
    /\ at[t] = "locked"
    /\ Row(t).kind = "provision_op"
    /\ \/ /\ sot[Row(t).device] = Gone
          /\ CommitStatus(t, "stale")
          /\ UNCHANGED stamped
       \/ /\ sot[Row(t).device] # Gone
          /\ Prepare(t, Row(t).intended)

(* execute_provision(): the device must still be in the SoT, the spec must *)
(* validate, the management cluster must answer its health probe.          *)
Precheck(t) ==
    /\ at[t] = "locked"
    /\ Row(t).kind = "provision_op"
    /\ \/ /\ sot[Row(t).device] = Gone
          /\ CommitStatus(t, "stale")
          /\ UNCHANGED stamped
       \/ /\ sot[Row(t).device] # Gone
          /\ CommitStatus(t, "failed")
          /\ UNCHANGED stamped
       \/ /\ sot[Row(t).device] # Gone
          /\ Row(t).intended # BadSpec
          /\ Prepare(t, Row(t).intended)

(* adapter.execute or provision(): the device takes the configuration,     *)
(* part of it or nothing.                                                  *)
Push(t, result) ==
    /\ at[t] = "rendered"
    /\ at' = [at EXCEPT ![t] = result]
    /\ LET d == Row(t).device IN
       \E held \in {{fresh[t]}, running[d] \cup {fresh[t]}, running[d]} :
          /\ result = "succeeded" => held = {fresh[t]}
          /\ running' = [running EXCEPT ![d] = held]
    /\ pushes' = [pushes EXCEPT ![cur[t]] = pushes[cur[t]] + 1]
    /\ UNCHANGED <<rowVars, rowLock, sot, batch, cur, seen, fresh, requestVars,
                   clock, faults, approvals>>

(* The push has reported success.                                          *)
Reported == {"succeeded", "claimed"}

(* Mutant of Record: executed_at is left NULL.                             *)
RecordUnstamped(t) ==
    /\ \/ at[t] \in Reported /\ CommitStatus(t, "executed")
       \/ at[t] = "errored" /\ CommitStatus(t, "failed")
    /\ UNCHANGED stamped

(* Mutant of Record: a failed push is left for the next tick to retry.     *)
RecordRetrying(t) ==
    \/ /\ at[t] \in Reported
       /\ CommitStatus(t, "executed")
       /\ stamped' = stamped \cup {cur[t]}
    \/ /\ at[t] = "errored"
       /\ CommitStatus(t, "approved")
       /\ UNCHANGED stamped

(* executed_at, executor_result and the final status, in one commit.       *)
Record(t) ==
    /\ \/ at[t] \in Reported /\ CommitStatus(t, "executed")
       \/ at[t] = "errored" /\ CommitStatus(t, "failed")
    /\ stamped' = stamped \cup {cur[t]}

(* An exception out of the adapter or the commit: _execute_one catches it, *)
(* counts the row as failed and rolls back; the row itself stays approved. *)
Raise(t) ==
    /\ at[t] \in Results
    /\ faults < MaxFaults
    /\ faults' = faults + 1
    /\ CloseSession(t)
    /\ at' = [at EXCEPT ![t] = "batch"]
    /\ UNCHANGED <<rowVars, sot, running, batch, cur, requestVars,
                   clock, pushes, approvals>>

(* The executor process dies: Postgres rolls its transaction back, the     *)
(* task is lost (it was acknowledged when it started), the beat goes on.   *)
Crash(t) ==
    /\ at[t] # "idle"
    /\ faults < MaxFaults
    /\ faults' = faults + 1
    /\ CloseSession(t)
    /\ at' = [at EXCEPT ![t] = "idle"]
    /\ batch' = [batch EXCEPT ![t] = {}]
    /\ UNCHANGED <<rowVars, sot, running, cur, requestVars, clock,
                   pushes, approvals>>

-----------------------------------------------------------------------------
RequestNext(r) ==
    \/ ReadForDecision(r)
    \/ \E decision \in Decisions : Decide(r, decision)
    \/ RefuseDecision(r)

TickNext(t) ==
    \/ StartTick(t)
    \/ \E p \in Proposals : Load(t, p)
    \/ EndTick(t)
    \/ Resolve(t)
    \/ Skip(t)
    \/ Escape(t)
    \/ LockRow(t)
    \/ Render(t)
    \/ Precheck(t)
    \/ \E result \in Results : Push(t, result)
    \/ Record(t)
    \/ Raise(t)
    \/ Crash(t)

Next ==
    \/ \E p \in Proposals, k \in Kinds, d \in Devices, c \in Configs \cup {BadSpec} :
          Propose(p, k, d, c)
    \/ \E d \in Devices, c \in SotEdits : EditSot(d, c)
    \/ \E r \in Requests : RequestNext(r)
    \/ \E t \in Ticks : TickNext(t)

Spec == Init /\ [][Next]_vars

(* The beat keeps firing and a tick that started keeps going (weak         *)
(* fairness); the SoT, the credentials of a resolvable row and the         *)
(* management cluster are reachable again and again, and Postgres hands a  *)
(* contended row lock to a waiter eventually (strong fairness).  Nothing   *)
(* obliges an operator, or a push to come to an end.                       *)
Fairness ==
    \A t \in Ticks :
        /\ WF_vars(StartTick(t))
        /\ \A p \in Proposals : WF_vars(Load(t, p))
        /\ WF_vars(EndTick(t))
        /\ WF_vars(Skip(t))
        /\ SF_vars(Resolve(t))
        /\ SF_vars(LockRow(t))
        /\ SF_vars(Render(t))
        /\ SF_vars(Precheck(t))
        /\ WF_vars(Record(t))

FairSpec == Spec /\ Fairness

-----------------------------------------------------------------------------
(* Safety that no interleaving, crash or race may break.                   *)

(* No device ever runs anything of a configuration that is not the         *)
(* reviewed content of a proposal some operator approved for that very     *)
(* device (the three refusals of change_proposals.execute together).       *)
OnlyApprovedConfigRuns ==
    \A d \in Devices : \A c \in running[d] :
        \E p \in approvals : /\ Exists(p)
                             /\ content[p].device = d
                             /\ content[p].intended = c

Working == {"locked", "rendered"} \cup Results

(* However many ticks and requests run, one row is executed by one tick at *)
(* a time, and that tick holds the row lock until its outcome is committed *)
(* or rolled back (SELECT ... FOR UPDATE in execute).                      *)
OneExecutorPerRow ==
    \A t \in Ticks :
        at[t] \in Working =>
            /\ rowLock[cur[t]] = t
            /\ \A u \in Ticks \ {t} :
                  ~(at[u] \in Working /\ cur[u] = cur[t])

(* The audit columns never lie: a row reaches approved, stale, failed or   *)
(* executed only after an operator approved it, a push never precedes that *)
(* approval, and a row that says executed has executed_at and was pushed.  *)
OutcomesAreBacked ==
    \A p \in Proposals :
        /\ status[p] \in {"approved", "executed", "failed", "stale"}
              => p \in approvals
        /\ pushes[p] > 0 => p \in approvals
        /\ status[p] = "executed" => p \in stamped /\ pushes[p] > 0

(* However often races and stale reads approve a row again, every executor *)
(* slot pushes it at most once, plus once for each crash or exception that *)
(* kept an outcome from being recorded: executed_at keeps a recorded row   *)
(* out of every later batch (_execute_approved_batch).  With one slot that *)
(* is one push.                                                            *)
PushesBounded ==
    \A p \in Proposals : pushes[p] <= Cardinality(Ticks) + faults

-----------------------------------------------------------------------------
(* Safety of the documented deployment: one tick at a time, one decision   *)
(* per proposal.                                                           *)

(* "execute() refuses to push unless proposal.status is approved": when a  *)
(* push starts, the committed status of the row is approved.               *)
PushOnlyWhileApproved ==
    [][\A p \in Proposals : pushes'[p] # pushes[p]
                               => status[p] = "approved"]_vars

(* Rejected, executed, failed and stale are the ends of the status machine *)
(* in docs/02: no later step of anyone rewrites such a row.                *)
FinalRowsNeverChange ==
    [][\A p \in Proposals :
          status[p] \in {"rejected", "executed", "failed", "stale"}
            => /\ status'[p] = status[p]
               /\ approvedAt'[p] = approvedAt[p]
               /\ p \in stamped' => p \in stamped]_vars

(* At the moment a row is recorded as executed its device runs what was    *)
(* reviewed and nothing else, whatever was edited, pushed or lost since    *)
(* the approval, unless the adapter had claimed a success it did not have  *)
(* (which ones do is the subject of DevicePush).                           *)
RecordMatchesDevice ==
    [][\A p \in Proposals :
          status[p] = "approved" /\ status'[p] = "executed"
            => \/ running[content[p].device] = {content[p].intended}
               \/ \E t \in Ticks : cur[t] = p /\ at[t] = "claimed"]_vars

(* The pipeline implements the lifecycle of docs/02.                       *)
Promise == INSTANCE ProposalLifecycle WITH
    Specs   <- Configs \cup {BadSpec},
    state   <- status,
    applied <- {p \in Proposals : pushes[p] > 0}

ImplementsLifecycle == Promise!Lifecycle

(* Approved rows whose lookup raises: whoever shares a batch with one may  *)
(* starve.                                                                 *)
Poison ==
    {p \in Unresolvable : /\ status[p] = "approved"
                          /\ content[p].kind = "declarative"}

(* The next tick picks up the rest (config.py, executor_batch_size): as    *)
(* long as pushes end, no row stays approved for ever while its device is  *)
(* in the SoT, whatever becomes of the other rows of the queue, unless a   *)
(* row whose lookup raises stays approved for ever.  (That one bad row     *)
(* starves the others is not what executor.py, lines 31-33, says.)         *)
ReachableIsDrained ==
    (\A t \in Ticks : []<>(at[t] # "rendered"))
        => \A p \in Proposals :
              \/ []<>~(/\ Exists(p)
                       /\ status[p] = "approved"
                       /\ sot[content[p].device] # Gone)
              \/ <>[](Poison # {})
=============================================================================
