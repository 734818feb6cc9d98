-------------------------- MODULE TenantController --------------------------
(***************************************************************************)
(* The two controllers that run a stack of software per tenant:            *)
(*   nautobot_controller/app.py, k8s.py           raw manifests            *)
(*   config_manager_controller/app.py,            a Helm release, by bare  *)
(*     helm_runner.py, deployer_runner.py         helm or by the Deployer  *)
(* Both are a REST surface that writes one row per tenant and a loop that  *)
(* every 30 s reads all rows and makes the clusters agree with them.  One  *)
(* process runs the loop and the endpoints, so a request may come at every *)
(* await of the loop.                                                      *)
(*                                                                         *)
(* A sweep loads every row at its start and works on those objects, for    *)
(* minutes: loaded and aim are what its session remembers, state and       *)
(* target what the table says.  A commit of the session writes a column    *)
(* only if the sweep gave it a value other than the one it loaded.         *)
(***************************************************************************)
CONSTANTS
    Tenants,        \* tenants of the hub
    Clusters,       \* the hub's cluster and those joined by a tunnel
    SoundTenants,   \* those whose clusters can be reached
    Hub,            \* target_cluster_tunnel_id is NULL
    LateRetargets   \* TRUE: a pending row may be retargeted while a sweep has
                    \* it in hand, or after one that died had begun to apply it

NoTenant == "no_tenant"

ASSUME ControllerAssumption ==
    /\ NoTenant \notin Tenants
    /\ SoundTenants \subseteq Tenants
    /\ Hub \in Clusters
    /\ LateRetargets \in BOOLEAN

(* Which controller this is, and which backend config_manager_use_deployer *)
(* chooses for it.                                                         *)
Kinds == {"nautobot", "helm", "deployer"}

Unsettled == {"pending", "provisioning", "error"}
States    == Unsettled \cup {"active", "deleting", "destroyed"}

(* What a cluster holds of a tenant's stack: nothing, an apply or install  *)
(* that stopped in the middle, a release helm believes an operation is     *)
(* still running on, everything, or everything less what somebody removed. *)
(* The residue of a teardown is a namespace that is terminating, or what   *)
(* helm does not own: volumes, and with the Deployer the secrets and the   *)
(* database in a namespace that could not be deleted.                      *)
Levels == {"none", "part", "locked", "full", "damaged", "residue"}
Vacant == {"none", "residue"}

VARIABLES
    kind,     \* the controller
    state,    \* Tenants -> state column, or absent
    target,   \* Tenants -> target column
    loaded,   \* Tenants -> state the sweep's session knows, absent when it has
              \*            not loaded the row or is done with it
    aim,      \* Tenants -> target the sweep's session knows
    stack,    \* Tenants \X Clusters -> level
    at,       \* where the loop is
    cur       \* the tenant being reconciled, or NoTenant

rowVars   == <<state, target>>
sweepVars == <<loaded, aim, at, cur>>
vars      == <<kind, rowVars, sweepVars, stack>>

TypeOK ==
    /\ kind \in Kinds
    /\ state \in [Tenants -> States \cup {"absent"}]
    /\ target \in [Tenants -> Clusters]
    /\ loaded \in [Tenants -> (States \ {"destroyed"}) \cup {"absent"}]
    /\ aim \in [Tenants -> Clusters]
    /\ stack \in [Tenants \X Clusters -> Levels]
    /\ at \in {"idle", "sweep", "gone", "apply", "touched", "applied"}
    /\ cur \in Tenants \cup {NoTenant}
    /\ (cur = NoTenant) <=> (at \in {"idle", "sweep"})

Init ==
    /\ kind \in Kinds
    /\ state = [t \in Tenants |-> "absent"]
    /\ target = [t \in Tenants |-> Hub]
    /\ loaded = [t \in Tenants |-> "absent"]
    /\ aim = [t \in Tenants |-> Hub]
    /\ stack = [p \in Tenants \X Clusters |-> "none"]
    /\ at = "idle"
    /\ cur = NoTenant

Held(t) == loaded[t] # "absent"

(* Nothing of the stack of t works anywhere.                               *)
Empty(t) == \A c \in Clusters : stack[<<t, c>>] \in Vacant

-----------------------------------------------------------------------------
(* Requests.                                                               *)

(* POST for a tenant without a row.                                        *)
Create(t, c) ==
    /\ state[t] = "absent"
    /\ state' = [state EXCEPT ![t] = "pending"]
    /\ target' = [target EXCEPT ![t] = c]
    /\ UNCHANGED <<kind, sweepVars, stack>>

(* POST for a tenant whose row is pending.  In any other state the row is  *)
(* returned as it is.                                                      *)
Retarget(t, c) ==
    /\ state[t] = "pending"
    /\ LateRetargets \/ (~Held(t) /\ Empty(t))
    /\ target' = [target EXCEPT ![t] = c]
    /\ UNCHANGED <<kind, state, sweepVars, stack>>

(* DELETE, whatever the state.                                             *)
Delete(t) ==
    /\ state[t] # "absent"
    /\ state' = [state EXCEPT ![t] = "deleting"]
    /\ UNCHANGED <<kind, target, sweepVars, stack>>

-----------------------------------------------------------------------------
(* The loop.                                                               *)

(* Mutant of StartSweep: the query has lost its filter.                    *)
StartSweepAll ==
    /\ at = "idle"
    /\ at' = "sweep"
    /\ loaded' = state
    /\ aim' = target
    /\ UNCHANGED <<kind, rowVars, stack, cur>>

(* Mutant of StartSweep: rows on their way out are filtered as well.       *)
StartSweepLiving ==
    /\ at = "idle"
    /\ at' = "sweep"
    /\ loaded' = [t \in Tenants |->
                    IF state[t] \in {"deleting", "destroyed"} THEN "absent"
                    ELSE state[t]]
    /\ aim' = target
    /\ UNCHANGED <<kind, rowVars, stack, cur>>

StartSweep ==
    /\ at = "idle"
    /\ at' = "sweep"
    /\ loaded' = [t \in Tenants |->
                    IF state[t] = "destroyed" THEN "absent" ELSE state[t]]
    /\ aim' = target
    /\ UNCHANGED <<kind, rowVars, stack, cur>>

(* The sweep's session gives the state column of t the value s and commits. *)
Commit(t, s) == state' = [state EXCEPT ![t] = IF s = loaded[t] THEN @ ELSE s]

(* Nothing after this looks at the row in this sweep.                      *)
DoneWith(t) ==
    /\ loaded' = [loaded EXCEPT ![t] = "absent"]
    /\ at' = "sweep"
    /\ cur' = NoTenant

(* The handler changes nothing but last_error or last_ready_at: the web    *)
(* Deployment is not ready, the teardown failed, the Deployer's release is *)
(* deployed, or an error before the handler wrote a state (of the Nautobot *)
(* API; for the other controller, in the kubeconfig of a joined cluster).  *)
Leave(t) ==
    /\ at = "sweep"
    /\ Held(t)
    /\ IF kind = "nautobot"
       THEN loaded[t] \in {"deleting", "provisioning", "active"}
       ELSE \/ loaded[t] = "deleting"
            \/ aim[t] # Hub
            \/ /\ kind = "deployer"
               /\ loaded[t] = "active"
               /\ stack[<<t, aim[t]>>] \in {"full", "damaged"}
    /\ DoneWith(t)
    /\ UNCHANGED <<kind, rowVars, aim, stack>>

(* Mutant of TakeDown: the outcome of the teardown is ignored.             *)
TakeDownUnchecked(t) ==
    /\ at = "sweep"
    /\ loaded[t] = "deleting"
    /\ at' = "gone"
    /\ cur' = t
    /\ UNCHANGED <<kind, rowVars, loaded, aim, stack>>

(* The deletion of the namespace is accepted, or the release uninstalled;  *)
(* that the Deployer cannot delete the namespace after it is not an error. *)
TakeDown(t) ==
    /\ at = "sweep"
    /\ loaded[t] = "deleting"
    /\ \E left \in IF stack[<<t, aim[t]>>] = "none" THEN {"none"} ELSE Vacant :
          stack' = [stack EXCEPT ![<<t, aim[t]>>] = left]
    /\ at' = "gone"
    /\ cur' = t
    /\ UNCHANGED <<kind, rowVars, loaded, aim>>

RecordGone(t) ==
    /\ at = "gone"
    /\ cur = t
    /\ Commit(t, "destroyed")
    /\ DoneWith(t)
    /\ UNCHANGED <<kind, target, aim, stack>>

(* The Nautobot web Deployment has a ready replica.                        *)
Poll(t) ==
    /\ at = "sweep"
    /\ kind = "nautobot"
    /\ loaded[t] = "provisioning"
    /\ stack[<<t, aim[t]>>] # "none"
    /\ Commit(t, "active")
    /\ DoneWith(t)
    /\ UNCHANGED <<kind, target, aim, stack>>

BeginFrom(t, states) ==
    /\ at = "sweep"
    /\ \/ loaded[t] \in states
       \/ kind # "nautobot" /\ loaded[t] = "provisioning"
    /\ IF kind # "nautobot" /\ loaded[t] \in {"pending", "error"}
       THEN /\ Commit(t, "provisioning")
            /\ loaded' = [loaded EXCEPT ![t] = "provisioning"]
       ELSE UNCHANGED <<state, loaded>>
    /\ at' = "apply"
    /\ cur' = t
    /\ UNCHANGED <<kind, target, aim, stack>>

(* Mutant of Begin: an error waits for an operator.                        *)
BeginOnce(t) == BeginFrom(t, {"pending", "active"})

(* Mutant of Begin: an active row is left alone.                           *)
BeginInactive(t) == BeginFrom(t, {"pending", "error"})

(* The handler sets out to apply or install.  The config manager's first   *)
(* commits provisioning.                                                   *)
Begin(t) == BeginFrom(t, {"pending", "error", "active"})

(* The first change to the cluster.  Helm refuses a release on which it    *)
(* believes another operation to be running.                               *)
Touch(t) ==
    /\ at = "apply"
    /\ cur = t
    /\ stack[<<t, aim[t]>>] # "locked"
    /\ stack' = [stack EXCEPT ![<<t, aim[t]>>] =
                    IF kind # "nautobot" THEN "locked"
                    ELSE IF @ = "none" THEN "part" ELSE @]
    /\ at' = "touched"
    /\ UNCHANGED <<kind, rowVars, loaded, aim, cur>>

(* The last one: every manifest is in place, or helm returned 0.           *)
Finish(t) ==
    /\ at = "touched"
    /\ cur = t
    /\ stack[<<t, aim[t]>>] # "none"
    /\ stack' = [stack EXCEPT ![<<t, aim[t]>>] = "full"]
    /\ at' = "applied"
    /\ UNCHANGED <<kind, rowVars, loaded, aim, cur>>

(* What is recorded once everything is applied.                            *)
Reached(t) ==
    IF kind = "nautobot" /\ loaded[t] # "active"
    THEN "provisioning" ELSE "active"

Record(t) ==
    /\ at = "applied"
    /\ cur = t
    /\ Commit(t, Reached(t))
    /\ DoneWith(t)
    /\ UNCHANGED <<kind, target, aim, stack>>

(* The apply or install fails: before anything was changed (no kubeconfig, *)
(* host cluster not ready, helm's lock) or half way.  An active Nautobot   *)
(* stays active; the config manager's handler may also raise, which leaves *)
(* the state as it is.                                                     *)
Fail(t) ==
    /\ at \in {"apply", "touched"}
    /\ cur = t
    /\ \/ /\ kind = "nautobot" => loaded[t] # "active"
          /\ Commit(t, "error")
       \/ /\ kind = "nautobot" => loaded[t] = "active"
          /\ UNCHANGED state
    /\ stack' = [stack EXCEPT ![<<t, aim[t]>>] =
                    IF at = "touched" /\ @ = "locked" THEN "part" ELSE @]
    /\ DoneWith(t)
    /\ UNCHANGED <<kind, target, aim>>

EndSweep ==
    /\ at = "sweep"
    /\ \A t \in Tenants : ~Held(t)
    /\ at' = "idle"
    /\ UNCHANGED <<kind, rowVars, loaded, aim, stack, cur>>

(* The process dies and is started again, or a commit fails, after which   *)
(* the session can commit nothing more and the iteration is given up.      *)
SweepDies ==
    /\ at # "idle"
    /\ at' = "idle"
    /\ loaded' = [t \in Tenants |-> "absent"]
    /\ cur' = NoTenant
    /\ UNCHANGED <<kind, rowVars, aim, stack>>

-----------------------------------------------------------------------------
(* Somebody removes the stack of an active tenant, or part of it, behind   *)
(* the controller's back.                                                  *)
Drift(t, c) ==
    /\ state[t] = "active"
    /\ \/ /\ stack[<<t, c>>] # "none"
          /\ stack' = [stack EXCEPT ![<<t, c>>] = "none"]
       \/ /\ stack[<<t, c>>] = "full"
          /\ stack' = [stack EXCEPT ![<<t, c>>] = "damaged"]
    /\ UNCHANGED <<kind, rowVars, sweepVars>>

(* A namespace has terminated, or somebody has cleared what was left.      *)
Clear(t, c) ==
    /\ stack[<<t, c>>] = "residue"
    /\ stack' = [stack EXCEPT ![<<t, c>>] = "none"]
    /\ UNCHANGED <<kind, rowVars, sweepVars>>

Reconcile(t) ==
    \/ Leave(t)
    \/ TakeDown(t)
    \/ RecordGone(t)
    \/ Poll(t)
    \/ Begin(t)
    \/ Touch(t)
    \/ Finish(t)
    \/ Record(t)
    \/ Fail(t)

Loop == StartSweep \/ EndSweep \/ \E t \in Tenants : Reconcile(t)

Request(t) == Delete(t) \/ \E c \in Clusters : Create(t, c) \/ Retarget(t, c)

Next ==
    \/ Loop
    \/ SweepDies
    \/ \E t \in Tenants : Request(t)
    \/ \E t \in Tenants, c \in Clusters : Drift(t, c) \/ Clear(t, c)

Spec == Init /\ [][Next]_vars

(* The loop runs, and starts again after a crash.  For the tenants of      *)
(* Sound, whose clusters are reachable, every stage of a pass that is      *)
(* tried again and again succeeds some time, and crashes do not hit it for *)
(* ever.  Of the other tenants nothing is assumed.                         *)
Sound(t) ==
    /\ SF_vars(TakeDown(t) \/ Poll(t) \/ Begin(t))
    /\ SF_vars(RecordGone(t) \/ Touch(t))
    /\ SF_vars(Finish(t))
    /\ SF_vars(Record(t))

FairSpec == Spec /\ WF_vars(Loop) /\ \A t \in SoundTenants : Sound(t)

-----------------------------------------------------------------------------
(* Properties.                                                             *)

(* A DELETE counts from the moment the sweep does not work on an older     *)
(* copy of the row: from then on the tenant is leaving.                    *)
Leaving(t) == state[t] = "deleting" /\ loaded[t] \in {"absent", "deleting"}

Phase(t) ==
    IF state[t] = "absent" THEN "none"
    ELSE IF state[t] = "destroyed" THEN "gone"
    ELSE IF Leaving(t) THEN "leaving" ELSE "living"

Occupied == {p \in Tenants \X Clusters : stack[p] \notin Vacant}
Residues == {p \in Tenants \X Clusters : stack[p] = "residue"}

(* The controllers keep the promise of the row's life: no POST, no sweep,  *)
(* no crash brings a leaving tenant or anything of its stack back, nothing *)
(* is ever put on a cluster but the one the row names, that does not       *)
(* change as long as anything of the stack is there, and a row that says   *)
(* destroyed has no stack, only what its teardown may have left behind.    *)
Promise == INSTANCE TenantLifecycle WITH
    phase   <- [t \in Tenants |-> Phase(t)],
    home    <- target,
    present <- Occupied,
    remains <- Residues

ImplementsLifecycle == Promise!Lifecycle

(* ... and a removal that is under way is completed.                       *)
DeleteIsDone ==
    \A t \in SoundTenants :
        Leaving(t) ~> (state[t] = "destroyed")

(* A release left locked by an operation that is not running any more.     *)
Locked(t) ==
    /\ \E c \in Clusters : stack[<<t, c>>] = "locked"
    /\ ~(at = "touched" /\ cur = t)

(* Provisioning ends: a row that is not settled becomes active, through    *)
(* failed applies and crashes, unless somebody deletes it or a crash in    *)
(* the middle of helm has locked its release.                              *)
Settles ==
    \A t \in SoundTenants :
        (state[t] \in Unsettled) ~> (state[t] \notin Unsettled \/ Locked(t))

(* What each controller repairs of its own accord while a row is active:   *)
(* the Nautobot controller and bare helm apply everything again at every   *)
(* tick, the Deployer only when helm has lost the release.                 *)
Broken(t) ==
    stack[<<t, target[t]>>] \in
        {"none"} \cup (IF kind = "deployer" THEN {} ELSE {"damaged"})

Heals ==
    \A t \in SoundTenants :
        (state[t] = "active" /\ Broken(t))
            ~> \/ state[t] # "active"
               \/ stack[<<t, target[t]>>] = "full"
               \/ Locked(t)
=============================================================================
