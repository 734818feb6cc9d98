------------------------------ MODULE AlertChat ------------------------------
(***************************************************************************)
(* The remediation chat of one alert:                                      *)
(*   api/routers/alert_chat.py  chat, triage, approve and reject requests  *)
(*   models/alert_chat.py       the transcript and the action ledger       *)
(*   core/kube_tools.py         which tool calls wait for an operator      *)
(*                                                                         *)
(* A request owns a session.  What it adds to the transcript takes its     *)
(* place when it is flushed (created_at) and is seen by others when the    *)
(* request commits.  approve_action reads the action without a lock; its   *)
(* flush locks the row until the commit that follows the run and the       *)
(* verification, and until then everybody else still reads pending.        *)
(***************************************************************************)
EXTENDS Naturals, Sequences, FiniteSets

CONSTANTS
    Calls,      \* ids of tool calls the model may make
    Writes,     \* those whose tool may change the cluster
    Requests,   \* HTTP requests on this alert in flight at one time
    OneTab,     \* no two decisions on one action are in flight together
    PassCap,    \* model turns per request (12 in the code)
    MaxRetries, \* _MAX_FORCED_FIX_RETRIES
    MaxClicks,  \* bound on the operators' requests
    MaxCrashes  \* bound on requests that end before their commit

Free   == "free"     \* nobody holds the lock of an action's row
Stored == "stored"   \* a committed message
Lost   == "lost"     \* a message rolled back

(* How execute_tool ends: an answer, or "error: ..." for an exception or   *)
(* the timeout.  It raises nothing, and either way the tool may have acted.*)
Outcomes == {"executed", "failed"}

Decided  == Outcomes \cup {"rejected"}
Deciding == {"approve", "reject", "claimed", "ran"}

ASSUME ChatAssumption ==
    /\ Writes \subseteq Calls
    /\ IsFiniteSet(Requests)
    /\ {Free, Stored, Lost} \cap Requests = {}
    /\ OneTab \in BOOLEAN
    /\ PassCap \in Nat \ {0}
    /\ MaxRetries \in Nat
    /\ MaxClicks \in Nat
    /\ MaxCrashes \in Nat

VARIABLES
    ledger,    \* Calls -> committed status of its AlertAction, or absent
    log,       \* the transcript by created_at, with who has to commit what
    rowLock,   \* Calls -> the request holding the row of the action, or Free
    at,        \* Requests -> where the request is
    cur,       \* Requests -> the action it decides
    result,    \* Requests -> how that action's tool ended
    todo,      \* Requests -> read calls of this model turn still to run
    passes,    \* Requests -> model turns so far
    retries,   \* Requests -> forced retries so far
    runs,      \* Calls -> times the tool was run
    approvals, \* Calls -> times an operator clicked Approve on it
    clicks, crashes  \* how much of each bound is used

turnVars == <<todo, passes, retries>>
requestVars == <<at, cur, result, turnVars>>
vars == <<ledger, log, rowLock, requestVars, runs, approvals, clicks, crashes>>

Message == [role: {"user", "assistant", "tool"}, calls: SUBSET Calls,
            by: Requests \cup {Stored, Lost}]

TypeOK ==
    /\ ledger \in [Calls -> Decided \cup {"absent", "pending"}]
    /\ log \in Seq(Message)
    /\ rowLock \in [Calls -> Requests \cup {Free}]
    /\ at \in [Requests -> Deciding \cup {"idle", "unresolved", "turn", "asked",
                                          "refused", "reading"}]
    /\ cur \in [Requests -> Calls]
    /\ result \in [Requests -> Outcomes]
    /\ todo \in [Requests -> SUBSET Calls]
    /\ passes \in [Requests -> 0 .. PassCap]
    /\ retries \in [Requests -> 0 .. MaxRetries]
    /\ runs \in [Calls -> Nat]
    /\ approvals \in [Calls -> Nat]
    /\ clicks \in 0 .. MaxClicks
    /\ crashes \in 0 .. MaxCrashes

Init ==
    /\ ledger = [c \in Calls |-> "absent"]
    /\ log = <<>>
    /\ rowLock = [c \in Calls |-> Free]
    /\ at = [r \in Requests |-> "idle"]
    /\ \E c \in Calls : cur = [r \in Requests |-> c]
    /\ result = [r \in Requests |-> "failed"]
    /\ todo = [r \in Requests |-> {}]
    /\ passes = [r \in Requests |-> 0]
    /\ retries = [r \in Requests |-> 0]
    /\ runs = [c \in Calls |-> 0]
    /\ approvals = [c \in Calls |-> 0]
    /\ clicks = 0
    /\ crashes = 0

Entry(role, C, who) == [role |-> role, calls |-> C, by |-> who]

(* The transcript once r has committed, or rolled back.                    *)
Settled(r, fate) ==
    [i \in DOMAIN log |-> IF log[i].by = r THEN [log[i] EXCEPT !.by = fate] ELSE log[i]]

Click ==
    /\ clicks < MaxClicks
    /\ clicks' = clicks + 1

Goto(r, place) == at' = [at EXCEPT ![r] = place]

(* The request ends, or another model turn begins.                         *)
EndTurn(r) ==
    /\ Goto(r, "idle")
    /\ passes' = [passes EXCEPT ![r] = 0]
    /\ retries' = [retries EXCEPT ![r] = 0]

-----------------------------------------------------------------------------
(* POST chat, and POST triage, whose kickoff the page sends when it is     *)
(* opened and nothing was answered yet, or when the operator asks for it:  *)
(* a message is committed before the model is asked.                       *)
Say(r) ==
    /\ at[r] = "idle"
    /\ Click
    /\ log' = Append(log, Entry("user", {}, Stored))
    /\ Goto(r, "turn")
    /\ UNCHANGED <<ledger, rowLock, cur, result, turnVars, runs, approvals, crashes>>

(* Mutant of Open: the status is not looked at.                            *)
OpenUnchecked(r, c, decision) ==
    /\ at[r] = "idle"
    /\ ledger[c] # "absent"
    /\ OneTab => \A s \in Requests : at[s] \in Deciding => cur[s] # c
    /\ Click
    /\ Goto(r, decision)
    /\ cur' = [cur EXCEPT ![r] = c]
    /\ approvals' = IF decision = "approve" THEN [approvals EXCEPT ![c] = @ + 1]
                    ELSE approvals
    /\ UNCHANGED <<ledger, log, rowLock, result, turnVars, runs, crashes>>

(* POST approve or reject: read the action without a lock, 409 unless it   *)
(* is pending.                                                             *)
Open(r, c, decision) ==
    /\ at[r] = "idle"
    /\ ledger[c] = "pending"
    /\ OneTab => \A s \in Requests : at[s] \in Deciding => cur[s] # c
    /\ Click
    /\ Goto(r, decision)
    /\ cur' = [cur EXCEPT ![r] = c]
    /\ approvals' = IF decision = "approve" THEN [approvals EXCEPT ![c] = @ + 1]
                    ELSE approvals
    /\ UNCHANGED <<ledger, log, rowLock, result, turnVars, runs, crashes>>

(* The flush: UPDATE ... SET status = 'approved', not committed.           *)
Claim(r) ==
    /\ at[r] = "approve"
    /\ rowLock[cur[r]] = Free
    /\ rowLock' = [rowLock EXCEPT ![cur[r]] = r]
    /\ Goto(r, "claimed")
    /\ UNCHANGED <<ledger, log, cur, result, turnVars, runs, approvals, clicks, crashes>>

(* Mutant of RunTool: the tool's word for a failure goes into the ledger.  *)
RunToolError(r, outcome) ==
    /\ at[r] = "claimed"
    /\ runs' = [runs EXCEPT ![cur[r]] = @ + 1]
    /\ result' = [result EXCEPT ![r] = IF outcome = "failed" THEN "error" ELSE outcome]
    /\ Goto(r, "ran")
    /\ UNCHANGED <<ledger, log, rowLock, cur, turnVars, approvals, clicks, crashes>>

(* The tool runs; the verification that follows only reads.                *)
RunTool(r, outcome) ==
    /\ at[r] = "claimed"
    /\ runs' = [runs EXCEPT ![cur[r]] = @ + 1]
    /\ result' = [result EXCEPT ![r] = outcome]
    /\ Goto(r, "ran")
    /\ UNCHANGED <<ledger, log, rowLock, cur, turnVars, approvals, clicks, crashes>>

(* Where the request goes after the verification: any doubt, and always a  *)
(* run that failed, counts as unresolved.                                  *)
Verdicts(r) ==
    {"unresolved"} \cup IF result[r] = "executed" THEN {"idle"} ELSE {}

(* Mutant of RecordRun: a run that failed leaves the action pending.       *)
RecordRunRetriable(r) ==
    /\ at[r] = "ran"
    /\ ledger' = [ledger EXCEPT ![cur[r]] = IF result[r] = "failed" THEN @ ELSE result[r]]
    /\ log' = Append(log, Entry("tool", {cur[r]}, Stored))
    /\ rowLock' = [rowLock EXCEPT ![cur[r]] = Free]
    /\ \E place \in Verdicts(r) : Goto(r, place)
    /\ UNCHANGED <<cur, result, turnVars, runs, approvals, clicks, crashes>>

(* The outcome and the tool's message, in one commit.                      *)
RecordRun(r) ==
    /\ at[r] = "ran"
    /\ ledger' = [ledger EXCEPT ![cur[r]] = result[r]]
    /\ log' = Append(log, Entry("tool", {cur[r]}, Stored))
    /\ rowLock' = [rowLock EXCEPT ![cur[r]] = Free]
    /\ \E place \in Verdicts(r) : Goto(r, place)
    /\ UNCHANGED <<cur, result, turnVars, runs, approvals, clicks, crashes>>

(* "... verification shows the issue is NOT resolved": back to the model.  *)
Reengage(r) ==
    /\ at[r] = "unresolved"
    /\ log' = Append(log, Entry("user", {}, Stored))
    /\ Goto(r, "turn")
    /\ UNCHANGED <<ledger, rowLock, cur, result, turnVars, runs, approvals, clicks, crashes>>

(* Mutant of Reject: the model is not told.                                *)
RejectSilently(r) ==
    /\ at[r] = "reject"
    /\ rowLock[cur[r]] = Free
    /\ ledger' = [ledger EXCEPT ![cur[r]] = "rejected"]
    /\ Goto(r, "turn")
    /\ UNCHANGED <<log, rowLock, cur, result, turnVars, runs, approvals, clicks, crashes>>

(* Status and note in one commit, which waits for whoever holds the row.   *)
Reject(r) ==
    /\ at[r] = "reject"
    /\ rowLock[cur[r]] = Free
    /\ ledger' = [ledger EXCEPT ![cur[r]] = "rejected"]
    /\ log' = Append(log, Entry("tool", {cur[r]}, Stored))
    /\ Goto(r, "turn")
    /\ UNCHANGED <<rowLock, cur, result, turnVars, runs, approvals, clicks, crashes>>

-----------------------------------------------------------------------------
(* _record_assistant_turn.                                                 *)

(* What _messages_for_openai makes of the transcript is a valid request:   *)
(* calls without an answer get a placeholder right after the message that  *)
(* makes them, so only the stored answers have to be in their place, among *)
(* the tool messages that directly follow the message with their call.     *)
WellFormed ==
    LET V == {i \in DOMAIN log : log[i].by = Stored} IN
    \A i \in V :
        log[i].role = "tool" =>
            \E j \in V : /\ j < i
                         /\ log[j].role = "assistant"
                         /\ log[i].calls \subseteq log[j].calls
                         /\ \A k \in V : j < k /\ k < i => log[k].role = "tool"

(* Load the transcript and ask; the provider refuses a malformed request.  *)
Ask(r) ==
    /\ at[r] = "turn"
    /\ passes[r] < PassCap
    /\ passes' = [passes EXCEPT ![r] = @ + 1]
    /\ Goto(r, IF WellFormed THEN "asked" ELSE "refused")
    /\ UNCHANGED <<ledger, log, rowLock, cur, result, todo, retries, runs, approvals,
                   clicks, crashes>>

(* The loop's hard cap.                                                    *)
CapHit(r) ==
    /\ at[r] = "turn"
    /\ passes[r] = PassCap
    /\ EndTurn(r)
    /\ UNCHANGED <<ledger, log, rowLock, cur, result, todo, runs, approvals, clicks, crashes>>

(* A text, or the text that stands in for a model that is not available:   *)
(* the request ends, unless the text announces a fix without calling it.   *)
Conclude(r) ==
    /\ at[r] \in {"asked", "refused"}
    /\ log' = Append(log, Entry("assistant", {}, Stored))
    /\ \/ EndTurn(r)
       \/ /\ at[r] = "asked"
          /\ retries[r] < MaxRetries
          /\ retries' = [retries EXCEPT ![r] = @ + 1]
          /\ Goto(r, "turn")
          /\ UNCHANGED passes
    /\ UNCHANGED <<ledger, rowLock, cur, result, todo, runs, approvals, clicks, crashes>>

(* Mutant of RequiresApproval: nothing is gated.                           *)
RequiresApprovalNever(c) == FALSE

(* tool_requires_approval                                                  *)
RequiresApproval(c) == c \in Writes

Fresh == {c \in Calls : \A i \in DOMAIN log : c \notin log[i].calls}

(* Tool calls: the message and its actions are flushed, not committed.     *)
Answer(r, C) ==
    /\ at[r] = "asked"
    /\ C # {}
    /\ C \subseteq Fresh
    /\ log' = Append(log, Entry("assistant", C, r))
    /\ todo' = [todo EXCEPT ![r] = {c \in C : ~RequiresApproval(c)}]
    /\ Goto(r, "reading")
    /\ UNCHANGED <<ledger, rowLock, cur, result, passes, retries, runs, approvals, clicks,
                   crashes>>

RunRead(r, c) ==
    /\ at[r] = "reading"
    /\ c \in todo[r]
    /\ runs' = [runs EXCEPT ![c] = @ + 1]
    /\ log' = Append(log, Entry("tool", {c}, r))
    /\ todo' = [todo EXCEPT ![r] = @ \ {c}]
    /\ UNCHANGED <<ledger, rowLock, at, cur, result, passes, retries, approvals, clicks,
                   crashes>>

Flushed(r) == UNION {log[i].calls : i \in {k \in DOMAIN log : log[k].by = r}}

(* The commit of a model turn.  A write among its calls ends the request.  *)
CommitPass(r) ==
    /\ at[r] = "reading"
    /\ todo[r] = {}
    /\ log' = Settled(r, Stored)
    /\ ledger' = [c \in Calls |->
          IF c \notin Flushed(r) THEN ledger[c]
          ELSE IF RequiresApproval(c) THEN "pending" ELSE "executed"]
    /\ \/ /\ \E c \in Flushed(r) : RequiresApproval(c)
          /\ EndTurn(r)
       \/ /\ \A c \in Flushed(r) : ~RequiresApproval(c)
          /\ Goto(r, "turn")
          /\ UNCHANGED <<passes, retries>>
    /\ UNCHANGED <<rowLock, cur, result, todo, runs, approvals, clicks, crashes>>

(* The process dies or the database does not answer: the session rolls     *)
(* back, whatever was done to the cluster stays.                           *)
Crash(r) ==
    /\ at[r] # "idle"
    /\ crashes < MaxCrashes
    /\ crashes' = crashes + 1
    /\ log' = Settled(r, Lost)
    /\ rowLock' = [c \in Calls |-> IF rowLock[c] = r THEN Free ELSE rowLock[c]]
    /\ todo' = [todo EXCEPT ![r] = {}]
    /\ EndTurn(r)
    /\ UNCHANGED <<ledger, cur, result, runs, approvals, clicks>>

-----------------------------------------------------------------------------
RequestNext(r) ==
    \/ Say(r)
    \/ \E c \in Calls, decision \in {"approve", "reject"} : Open(r, c, decision)
    \/ Claim(r)
    \/ \E outcome \in Outcomes : RunTool(r, outcome)
    \/ RecordRun(r)
    \/ Reengage(r)
    \/ Reject(r)
    \/ Ask(r)
    \/ CapHit(r)
    \/ Conclude(r)
    \/ \E C \in SUBSET Calls : Answer(r, C)
    \/ \E c \in Calls : RunRead(r, c)
    \/ CommitPass(r)
    \/ Crash(r)

Next == \E r \in Requests : RequestNext(r)

Spec == Init /\ [][Next]_vars

-----------------------------------------------------------------------------
(* "Nothing executes without the operator": a tool that may change the     *)
(* cluster never runs more often than somebody clicked Approve on that     *)
(* very call, in whatever order requests interleave, crash and retry.      *)
NothingRunsUnapproved == \A c \in Writes : runs[c] <= approvals[c]

(* The ledger tells what happened to the cluster: an action on record as   *)
(* executed or failed was run, one rejected or still pending was not, and  *)
(* none was run twice, but for runs whose commit a crash took away.        *)
LedgerMatchesCluster ==
    \A c \in Writes :
        /\ ledger[c] \in {"executed", "failed"} => runs[c] \in 1 .. 1 + crashes
        /\ \/ ledger[c] \in {"absent", "rejected"}
           \/ ledger[c] = "pending" /\ \A r \in Requests : at[r] = "ran" => cur[r] # c
           => runs[c] <= crashes

(* The model is told every decision once: a write has one answer in the    *)
(* transcript if it was decided, and none before.                          *)
LedgerMatchesTranscript ==
    \A c \in Writes :
        Cardinality({i \in DOMAIN log : /\ log[i] = Entry("tool", {c}, Stored)})
            = IF ledger[c] \in Decided THEN 1 ELSE 0

(* How far action c is: somebody has run it, or is about to, and did not   *)
(* commit yet, or what the ledger says.                                    *)
Held(c, places) == \E r \in Requests : at[r] \in places /\ cur[r] = c

Stage(c) ==
    IF ledger[c] # "pending" THEN ledger[c]
    ELSE IF Held(c, {"ran"}) THEN "ran"
    ELSE IF Held(c, {"approve", "claimed"}) THEN "approved"
    ELSE "offered"

(* Every request, crash and commit keeps the promise of the action's life: *)
(* decided once, never run again after that, never rejected while somebody *)
(* runs it, and only offered anew when a decision was lost.                *)
Promise == INSTANCE ActionLifecycle WITH
    Actions <- Writes,
    stage   <- [c \in Writes |-> Stage(c)],
    ran     <- [c \in Writes |-> runs[c]],
    faults  <- crashes

ImplementsLifecycle == Promise!Lifecycle
=============================================================================
