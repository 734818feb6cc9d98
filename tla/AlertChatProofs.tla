--------------------------- MODULE AlertChatProofs ---------------------------
(***************************************************************************)
(* Theorems about AlertChat, for any number of calls, requests, clicks and *)
(* crashes: types; no write runs without its own approval, nor twice at    *)
(* the same time, in any deployment; and, when decisions on one action do  *)
(* not overlap, the ledger never misreports what was run, the transcript   *)
(* has one answer for each decision, and every action lives the life of    *)
(* ActionLifecycle.                                                        *)
(***************************************************************************)
EXTENDS AlertChat, FiniteSetTheorems, TLAPS

(* Only reads run inside a model turn.                                     *)
TodoReads == \A r \in Requests : todo[r] \cap Writes = {}

TInv == TypeOK /\ TodoReads

-----------------------------------------------------------------------------
(* The two things that happen to the transcript.                           *)

LEMMA AppendLog ==
    ASSUME log \in Seq(Message), NEW e \in Message, log' = Append(log, e)
    PROVE  /\ log' \in Seq(Message)
           /\ DOMAIN log' = DOMAIN log \cup {Len(log) + 1}
           /\ Len(log) + 1 \notin DOMAIN log
           /\ \A i \in DOMAIN log : log'[i] = log[i]
           /\ log'[Len(log) + 1] = e
  OBVIOUS

LEMMA SettleLog ==
    ASSUME log \in Seq(Message), NEW r \in Requests, NEW fate \in {Stored, Lost},
           log' = Settled(r, fate)
    PROVE  /\ log' \in Seq(Message)
           /\ DOMAIN log' = DOMAIN log
           /\ \A i \in DOMAIN log :
                 /\ log'[i].calls = log[i].calls
                 /\ log'[i].by = IF log[i].by = r THEN fate ELSE log[i].by
  <1>1. DOMAIN log = 1 .. Len(log) /\ Len(log) \in Nat
    OBVIOUS
  <1>2. DOMAIN log' = DOMAIN log
    BY DEF Settled
  <1>3. ASSUME NEW i \in DOMAIN log
        PROVE  /\ log'[i] \in Message
               /\ log'[i].calls = log[i].calls
               /\ log'[i].by = IF log[i].by = r THEN fate ELSE log[i].by
    <2>1. log[i] \in Message
      OBVIOUS
    <2>2. log'[i] = IF log[i].by = r THEN [log[i] EXCEPT !.by = fate] ELSE log[i]
      BY DEF Settled
    <2>3. QED
      BY <2>1, <2>2 DEF Message
  <1>4. log' \in [1 .. Len(log) -> Message]
    BY <1>1, <1>3 DEF Settled
  <1>5. QED
    BY <1>1, <1>2, <1>3, <1>4

LEMMA EntryType ==
    ASSUME NEW role \in {"user", "assistant", "tool"}, NEW C \in SUBSET Calls,
           NEW who \in Requests \cup {Stored, Lost}
    PROVE  Entry(role, C, who) \in Message
  BY DEF Entry, Message

LEMMA RequiresWrite == \A c \in Calls : RequiresApproval(c) <=> c \in Writes
  BY DEF RequiresApproval

-----------------------------------------------------------------------------
LEMMA InitTInv == Init => TInv
  BY ChatAssumption DEF Init, TInv, TypeOK, TodoReads, Deciding, Decided, Outcomes, Message

LEMMA TInvStep == TInv /\ [Next]_vars => TInv'
  <1> SUFFICES ASSUME TInv, [Next]_vars
               PROVE  TInv'
    OBVIOUS
  <1> USE ChatAssumption DEF TInv, TypeOK, TodoReads, Deciding, Decided, Outcomes, Goto, turnVars
  <1>0. CASE UNCHANGED vars
    BY <1>0 DEF vars, requestVars
  <1>1. ASSUME NEW r \in Requests, Say(r)
        PROVE  TInv'
    <2>1. log' \in Seq(Message)
      BY <1>1, EntryType, AppendLog DEF Say
    <2>2. QED
      BY <1>1, <2>1 DEF Say, Click
  <1>2. ASSUME NEW r \in Requests, NEW c \in Calls, NEW decision \in {"approve", "reject"},
               Open(r, c, decision)
        PROVE  TInv'
    BY <1>2 DEF Open, Click
  <1>3. ASSUME NEW r \in Requests, Claim(r)
        PROVE  TInv'
    BY <1>3 DEF Claim
  <1>4. ASSUME NEW r \in Requests, NEW outcome \in Outcomes, RunTool(r, outcome)
        PROVE  TInv'
    BY <1>4 DEF RunTool
  <1>5. ASSUME NEW r \in Requests, RecordRun(r)
        PROVE  TInv'
    <2>1. log' \in Seq(Message)
      BY <1>5, EntryType, AppendLog DEF RecordRun
    <2>2. QED
      BY <1>5, <2>1 DEF RecordRun, Verdicts
  <1>6. ASSUME NEW r \in Requests, Reengage(r)
        PROVE  TInv'
    <2>1. log' \in Seq(Message)
      BY <1>6, EntryType, AppendLog DEF Reengage
    <2>2. QED
      BY <1>6, <2>1 DEF Reengage
  <1>7. ASSUME NEW r \in Requests, Reject(r)
        PROVE  TInv'
    <2>1. log' \in Seq(Message)
      BY <1>7, EntryType, AppendLog DEF Reject
    <2>2. QED
      BY <1>7, <2>1 DEF Reject
  <1>8. ASSUME NEW r \in Requests, Ask(r)
        PROVE  TInv'
    <2>1. at' \in [Requests -> Deciding \cup {"idle", "unresolved", "turn", "asked",
                                              "refused", "reading"}]
      BY <1>8 DEF Ask
    <2>2. passes' \in [Requests -> 0 .. PassCap]
      BY <1>8 DEF Ask
    <2>3. QED
      BY <1>8, <2>1, <2>2 DEF Ask
  <1>9. ASSUME NEW r \in Requests, CapHit(r)
        PROVE  TInv'
    BY <1>9 DEF CapHit, EndTurn
  <1>10. ASSUME NEW r \in Requests, Conclude(r)
         PROVE  TInv'
    <2>1. log' \in Seq(Message)
      BY <1>10, EntryType, AppendLog DEF Conclude
    <2>2. CASE EndTurn(r)
      BY <1>10, <2>1, <2>2 DEF Conclude, EndTurn
    <2>3. CASE retries[r] < MaxRetries /\ retries' = [retries EXCEPT ![r] = @ + 1]
                 /\ Goto(r, "turn") /\ UNCHANGED passes
      BY <1>10, <2>1, <2>3 DEF Conclude
    <2>4. QED
      BY <1>10, <2>2, <2>3 DEF Conclude
  <1>11. ASSUME NEW r \in Requests, NEW C \in SUBSET Calls, Answer(r, C)
         PROVE  TInv'
    <2>1. log' \in Seq(Message)
      BY <1>11, EntryType, AppendLog DEF Answer
    <2>2. todo' = [todo EXCEPT ![r] = {c \in C : c \notin Writes}]
      BY <1>11, RequiresWrite DEF Answer
    <2>3. QED
      BY <1>11, <2>1, <2>2 DEF Answer
  <1>12. ASSUME NEW r \in Requests, NEW c \in Calls, RunRead(r, c)
         PROVE  TInv'
    <2>1. log' \in Seq(Message)
      BY <1>12, EntryType, AppendLog DEF RunRead
    <2>2. QED
      BY <1>12, <2>1 DEF RunRead
  <1>13. ASSUME NEW r \in Requests, CommitPass(r)
         PROVE  TInv'
    <2>1. log' \in Seq(Message)
      BY <1>13, SettleLog DEF CommitPass
    <2>2. ledger' \in [Calls -> Decided \cup {"absent", "pending"}]
      BY <1>13 DEF CommitPass
    <2>3. CASE EndTurn(r)
      BY <1>13, <2>1, <2>2, <2>3 DEF CommitPass, EndTurn
    <2>4. CASE Goto(r, "turn") /\ UNCHANGED <<passes, retries>>
      BY <1>13, <2>1, <2>2, <2>4 DEF CommitPass
    <2>5. QED
      BY <1>13, <2>3, <2>4 DEF CommitPass
  <1>14. ASSUME NEW r \in Requests, Crash(r)
         PROVE  TInv'
    <2>1. log' \in Seq(Message)
      BY <1>14, SettleLog DEF Crash
    <2>2. QED
      BY <1>14, <2>1 DEF Crash, EndTurn
  <1> HIDE DEF TInv, TypeOK, TodoReads, Deciding, Decided, Outcomes, Goto, turnVars
  <1>15. QED
    BY <1>0, <1>1, <1>2, <1>3, <1>4, <1>5, <1>6, <1>7, <1>8, <1>9, <1>10, <1>11,
       <1>12, <1>13, <1>14 DEF Next, RequestNext

(* The types of the remediation chat hold in every deployment.             *)
THEOREM ChatTypes == Spec => []TypeOK
  <1>1. TInv => TypeOK
    BY DEF TInv
  <1>2. QED
    BY <1>1, InitTInv, TInvStep, PTL DEF Spec

-----------------------------------------------------------------------------
(* No write runs unapproved.  Between the click and the run there may be   *)
(* any number of requests for one action; every one of them has a click of *)
(* its own, which is not yet used up.                                      *)

Waiting(c) == {r \in Requests : at[r] \in {"approve", "claimed"} /\ cur[r] = c}

ClicksCover == \A c \in Writes : runs[c] + Cardinality(Waiting(c)) <= approvals[c]

LEMMA WaitingFinite ==
    \A c \in Calls : IsFiniteSet(Waiting(c)) /\ Cardinality(Waiting(c)) \in Nat
  BY ChatAssumption, FS_Subset, FS_CardinalityType DEF Waiting

(* A step after which nobody else waits, and nothing was run or clicked.   *)
LEMMA FewerWait ==
    ASSUME ClicksCover, UNCHANGED <<runs, approvals>>,
           \A c \in Writes : Waiting(c)' \subseteq Waiting(c), TypeOK
    PROVE  ClicksCover'
  <1>1. ASSUME NEW c \in Writes
        PROVE  runs'[c] + Cardinality(Waiting(c)') <= approvals'[c]
    <2>1. Cardinality(Waiting(c)') <= Cardinality(Waiting(c))
      BY ChatAssumption, WaitingFinite, FS_Subset
    <2>2. Cardinality(Waiting(c)') \in Nat
      BY ChatAssumption, WaitingFinite, FS_Subset, FS_CardinalityType
    <2>3. QED
      BY <2>1, <2>2, WaitingFinite, ChatAssumption DEF ClicksCover, TypeOK
  <1>2. QED
    BY <1>1 DEF ClicksCover

LEMMA ClicksCoverStep == TInv /\ ClicksCover /\ [Next]_vars => ClicksCover'
  <1> SUFFICES ASSUME TInv, ClicksCover, [Next]_vars
               PROVE  ClicksCover'
    OBVIOUS
  <1> USE ChatAssumption DEF Goto, turnVars
  <1>t. TypeOK
    BY DEF TInv
  <1>a. at \in [Requests -> Deciding \cup {"idle", "unresolved", "turn", "asked",
                                           "refused", "reading"}]
    BY DEF TInv, TypeOK
  <1>0. CASE UNCHANGED vars
    BY <1>0, <1>t, FewerWait DEF vars, requestVars, Waiting
  <1>1. ASSUME NEW r \in Requests,
               Say(r) \/ Claim(r) \/ RecordRun(r) \/ Reengage(r) \/ Reject(r) \/ Ask(r)
        PROVE  ClicksCover'
    BY <1>1, <1>a, <1>t, FewerWait
       DEF Say, Claim, RecordRun, Verdicts, Reengage, Reject, Ask, Waiting
  <1>2. ASSUME NEW r \in Requests, CapHit(r) \/ Conclude(r) \/ CommitPass(r) \/ Crash(r)
        PROVE  ClicksCover'
    BY <1>2, <1>a, <1>t, FewerWait DEF CapHit, Conclude, CommitPass, Crash, EndTurn, Waiting
  <1>3. ASSUME NEW r \in Requests, NEW C \in SUBSET Calls, Answer(r, C)
        PROVE  ClicksCover'
    BY <1>3, <1>a, <1>t, FewerWait DEF Answer, Waiting
  <1>4. ASSUME NEW r \in Requests, NEW c \in Calls, NEW decision \in {"approve", "reject"},
               Open(r, c, decision)
        PROVE  ClicksCover'
    <2>1. ASSUME NEW d \in Writes
          PROVE  runs'[d] + Cardinality(Waiting(d)') <= approvals'[d]
      <3>1. CASE d = c /\ decision = "approve"
        <4>1. Waiting(d)' = Waiting(d) \cup {r}
          BY <1>4, <1>a, <1>t, <3>1 DEF Open, Waiting, TypeOK
        <4>2. Cardinality(Waiting(d)') <= Cardinality(Waiting(d)) + 1
              /\ Cardinality(Waiting(d)') \in Nat
          <5>1. IsFiniteSet(Waiting(d)) /\ Cardinality(Waiting(d)) \in Nat
            BY WaitingFinite, ChatAssumption
          <5>2. Cardinality(Waiting(d) \cup {r}) =
                  IF r \in Waiting(d) THEN Cardinality(Waiting(d))
                  ELSE Cardinality(Waiting(d)) + 1
            BY <5>1, FS_AddElement
          <5>3. QED
            BY <4>1, <5>1, <5>2
        <4>3. runs'[d] = runs[d] /\ approvals'[d] = approvals[d] + 1
          BY <1>4, <1>t, <3>1 DEF Open, TypeOK
        <4>4. QED
          BY <4>2, <4>3, <1>t, WaitingFinite DEF ClicksCover, TypeOK
      <3>2. CASE ~(d = c /\ decision = "approve")
        <4>1. Waiting(d)' = Waiting(d)
          BY <1>4, <1>a, <1>t, <3>2 DEF Open, Waiting, TypeOK
        <4>2. runs'[d] = runs[d] /\ approvals'[d] = approvals[d]
          BY <1>4, <1>t, <3>2 DEF Open, TypeOK
        <4>3. QED
          BY <4>1, <4>2 DEF ClicksCover
      <3>3. QED
        BY <3>1, <3>2
    <2>2. QED
      BY <2>1 DEF ClicksCover
  <1>5. ASSUME NEW r \in Requests, NEW outcome \in Outcomes, RunTool(r, outcome)
        PROVE  ClicksCover'
    <2>1. ASSUME NEW d \in Writes
          PROVE  runs'[d] + Cardinality(Waiting(d)') <= approvals'[d]
      <3>1. CASE d = cur[r]
        <4>1. r \in Waiting(d) /\ Waiting(d)' = Waiting(d) \ {r}
          BY <1>5, <1>a, <1>t, <3>1 DEF RunTool, Waiting, TypeOK
        <4>2. Cardinality(Waiting(d)') = Cardinality(Waiting(d)) - 1
          BY <4>1, WaitingFinite, FS_RemoveElement
        <4>3. runs'[d] = runs[d] + 1 /\ approvals'[d] = approvals[d]
          BY <1>5, <1>t, <3>1 DEF RunTool, TypeOK
        <4>4. QED
          BY <4>2, <4>3, <1>t, WaitingFinite DEF ClicksCover, TypeOK
      <3>2. CASE d # cur[r]
        <4>1. Waiting(d)' = Waiting(d)
          BY <1>5, <1>a, <1>t, <3>2 DEF RunTool, Waiting, TypeOK
        <4>2. runs'[d] = runs[d] /\ approvals'[d] = approvals[d]
          BY <1>5, <1>t, <3>2 DEF RunTool, TypeOK
        <4>3. QED
          BY <4>1, <4>2 DEF ClicksCover
      <3>3. QED
        BY <3>1, <3>2
    <2>2. QED
      BY <2>1 DEF ClicksCover
  <1>6. ASSUME NEW r \in Requests, NEW c \in Calls, RunRead(r, c)
        PROVE  ClicksCover'
    <2>1. c \notin Writes
      BY <1>6 DEF RunRead, TInv, TodoReads
    <2>2. \A d \in Writes : Waiting(d)' = Waiting(d) /\ runs'[d] = runs[d]
      BY <1>6, <1>t, <2>1 DEF RunRead, Waiting, TypeOK
    <2>3. QED
      BY <1>6, <2>2 DEF RunRead, ClicksCover
  <1> HIDE DEF Goto, turnVars
  <1>7. QED
    BY <1>0, <1>1, <1>2, <1>3, <1>4, <1>5, <1>6 DEF Next, RequestNext

(* The gate of the write tools, in every deployment: the guarantee of      *)
(* docs/02 that nothing runs until the operator clicks Approve.            *)
THEOREM ApprovalBeforeRun == Spec => []NothingRunsUnapproved
  <1>1. Init => ClicksCover
    <2> SUFFICES ASSUME Init
                 PROVE  ClicksCover
      OBVIOUS
    <2>1. \A c \in Writes : Waiting(c) = {} /\ runs[c] = 0 /\ approvals[c] = 0
      BY ChatAssumption DEF Init, Waiting
    <2>2. QED
      BY <2>1, FS_EmptySet DEF ClicksCover
  <1>2. TInv /\ ClicksCover => NothingRunsUnapproved
    BY WaitingFinite, ChatAssumption DEF TInv, TypeOK, ClicksCover, NothingRunsUnapproved
  <1>3. QED
    BY <1>1, <1>2, InitTInv, TInvStep, ClicksCoverStep, PTL DEF Spec

-----------------------------------------------------------------------------
(* What is left when decisions do overlap.  The lock of an action's row is *)
(* held from the flush of an approval to its commit, and whoever holds it  *)
(* waits for nobody.                                                       *)

Acting == {"claimed", "ran"}

HoldersAct ==
    \A c \in Calls, r \in Requests :
        rowLock[c] = r <=> at[r] \in Acting /\ cur[r] = c

(* An action is never run by two requests at the same time, and nothing is *)
(* on the ledger as executed or failed that was not run.                   *)
RunsDoNotOverlap ==
    \A r, s \in Requests :
        at[r] \in Acting /\ at[s] \in Acting /\ cur[r] = cur[s] => r = s

RecordedWasRun ==
    \A c \in Writes :
        /\ ledger[c] \in Outcomes => runs[c] > 0
        /\ \A r \in Requests : at[r] = "ran" /\ cur[r] = c => runs[c] > 0

LEMMA HoldersStep ==
    ASSUME TInv, HoldersAct, [Next]_vars
    PROVE  HoldersAct'
  <1>a. /\ at \in [Requests -> Deciding \cup {"idle", "unresolved", "turn", "asked",
                                              "refused", "reading"}]
        /\ cur \in [Requests -> Calls]
        /\ rowLock \in [Calls -> Requests \cup {Free}]
    BY DEF TInv, TypeOK
  <1>b. Free \notin Requests
    BY ChatAssumption
  <1>0. CASE UNCHANGED vars
    BY <1>0 DEF vars, requestVars, HoldersAct
  <1>1. ASSUME NEW r \in Requests, UNCHANGED <<rowLock, cur>>,
               \A s \in Requests \ {r} : at'[s] = at[s],
               at[r] \in Acting <=> at'[r] \in Acting
        PROVE  HoldersAct'
    BY <1>1 DEF HoldersAct
  <1>2. ASSUME NEW r \in Requests,
               Say(r) \/ Reengage(r) \/ Ask(r) \/ CapHit(r) \/ Conclude(r) \/ Reject(r)
               \/ CommitPass(r)
        PROVE  HoldersAct'
    <2>1. /\ UNCHANGED <<rowLock, cur>>
          /\ \A s \in Requests \ {r} : at'[s] = at[s]
      BY <1>2, <1>a DEF Say, Reengage, Ask, CapHit, Conclude, Reject, CommitPass,
                        Goto, EndTurn
    <2>2. at[r] \notin Acting /\ at'[r] \notin Acting
      BY <1>2, <1>a DEF Say, Reengage, Ask, CapHit, Conclude, Reject, CommitPass,
                        Goto, EndTurn, Acting
    <2>3. QED
      BY <1>1, <2>1, <2>2
  <1>3. ASSUME NEW r \in Requests, NEW C \in SUBSET Calls, Answer(r, C)
        PROVE  HoldersAct'
    BY <1>1, <1>3, <1>a DEF Answer, Goto, Acting
  <1>4. ASSUME NEW r \in Requests, NEW c \in Calls, RunRead(r, c)
        PROVE  HoldersAct'
    BY <1>4 DEF RunRead, HoldersAct
  <1>5. ASSUME NEW r \in Requests, NEW outcome \in Outcomes, RunTool(r, outcome)
        PROVE  HoldersAct'
    BY <1>1, <1>5, <1>a DEF RunTool, Goto, Acting
  <1>6. ASSUME NEW r \in Requests, NEW c \in Calls, NEW decision \in {"approve", "reject"},
               Open(r, c, decision)
        PROVE  HoldersAct'
    <2>1. /\ at[r] = "idle" /\ at'[r] = decision
          /\ \A s \in Requests \ {r} : at'[s] = at[s] /\ cur'[s] = cur[s]
          /\ UNCHANGED rowLock
      BY <1>6, <1>a DEF Open, Goto
    <2>2. QED
      BY <2>1 DEF HoldersAct, Acting
  <1>7. ASSUME NEW r \in Requests, Claim(r)
        PROVE  HoldersAct'
    <2>1. /\ at[r] = "approve" /\ at'[r] = "claimed" /\ UNCHANGED cur
          /\ \A s \in Requests \ {r} : at'[s] = at[s]
          /\ rowLock[cur[r]] = Free /\ rowLock'[cur[r]] = r
          /\ \A d \in Calls \ {cur[r]} : rowLock'[d] = rowLock[d]
      BY <1>7, <1>a DEF Claim, Goto
    <2>2. QED
      BY <1>a, <1>b, <2>1 DEF HoldersAct, Acting
  <1>8. ASSUME NEW r \in Requests, RecordRun(r)
        PROVE  HoldersAct'
    <2>1. /\ at[r] = "ran" /\ at'[r] \in {"idle", "unresolved"} /\ UNCHANGED cur
          /\ \A s \in Requests \ {r} : at'[s] = at[s]
          /\ rowLock'[cur[r]] = Free
          /\ \A d \in Calls \ {cur[r]} : rowLock'[d] = rowLock[d]
      BY <1>8, <1>a DEF RecordRun, Verdicts, Goto
    <2>2. rowLock[cur[r]] = r
      BY <1>a, <2>1 DEF HoldersAct, Acting
    <2>3. QED
      BY <1>a, <1>b, <2>1, <2>2 DEF HoldersAct, Acting
  <1>9. ASSUME NEW r \in Requests, Crash(r)
        PROVE  HoldersAct'
    <2>1. /\ at'[r] = "idle" /\ UNCHANGED cur
          /\ \A s \in Requests \ {r} : at'[s] = at[s]
          /\ \A d \in Calls : rowLock'[d] = IF rowLock[d] = r THEN Free ELSE rowLock[d]
      BY <1>9, <1>a DEF Crash, EndTurn, Goto
    <2>2. QED
      BY <1>b, <2>1 DEF HoldersAct, Acting
  <1>10. QED
    BY <1>0, <1>2, <1>3, <1>4, <1>5, <1>6, <1>7, <1>8, <1>9 DEF Next, RequestNext

LEMMA RecordedStep ==
    ASSUME TInv, RecordedWasRun, [Next]_vars
    PROVE  RecordedWasRun'
  <1>a. /\ at \in [Requests -> Deciding \cup {"idle", "unresolved", "turn", "asked",
                                              "refused", "reading"}]
        /\ cur \in [Requests -> Calls] /\ Writes \subseteq Calls
        /\ ledger \in [Calls -> Decided \cup {"absent", "pending"}]
        /\ runs \in [Calls -> Nat] /\ runs' \in [Calls -> Nat]
    BY TInvStep, ChatAssumption DEF TInv, TypeOK
  <1>0. CASE UNCHANGED vars
    BY <1>0 DEF vars, requestVars, RecordedWasRun
  <1>1. ASSUME NEW r \in Requests,
               \A d \in Writes : runs'[d] >= runs[d],
               \A d \in Writes : ledger'[d] \in Outcomes => runs'[d] > 0,
               \A s \in Requests \ {r} : at'[s] = at[s] /\ cur'[s] = cur[s],
               at'[r] # "ran"
        PROVE  RecordedWasRun'
    <2>1. ASSUME NEW d \in Writes, NEW s \in Requests, at'[s] = "ran", cur'[s] = d
          PROVE  runs'[d] > 0
      <3>1. s # r /\ at[s] = "ran" /\ cur[s] = d
        BY <1>1, <2>1
      <3>2. runs[d] > 0 /\ runs'[d] >= runs[d] /\ runs[d] \in Nat /\ runs'[d] \in Nat
        BY <1>1, <1>a, <3>1 DEF RecordedWasRun
      <3>3. QED
        BY <3>2
    <2>2. QED
      BY <1>1, <2>1 DEF RecordedWasRun
  <1>2. ASSUME NEW r \in Requests,
               \/ Say(r) \/ Reengage(r) \/ Ask(r) \/ CapHit(r) \/ Conclude(r)
               \/ Claim(r) \/ Crash(r)
               \/ \E C \in SUBSET Calls : Answer(r, C)
               \/ \E c \in Calls, decision \in {"approve", "reject"} : Open(r, c, decision)
        PROVE  RecordedWasRun'
    <2>1. /\ UNCHANGED <<runs, ledger>>
          /\ \A s \in Requests \ {r} : at'[s] = at[s] /\ cur'[s] = cur[s]
      BY <1>2, <1>a DEF Say, Reengage, Ask, CapHit, Conclude, Claim, Crash, Answer, Open,
                        Goto, EndTurn
    <2>2. at'[r] # "ran"
      BY <1>2, <1>a DEF Say, Reengage, Ask, CapHit, Conclude, Claim, Crash, Answer, Open,
                        Goto, EndTurn
    <2>3. QED
      BY <1>1, <1>a, <2>1, <2>2 DEF RecordedWasRun
  <1>3. ASSUME NEW r \in Requests, NEW c \in Calls, RunRead(r, c)
        PROVE  RecordedWasRun'
    <2>1. c \notin Writes
      BY <1>3 DEF RunRead, TInv, TodoReads
    <2>2. UNCHANGED <<ledger, at, cur>> /\ \A d \in Writes : runs'[d] = runs[d]
      BY <1>3, <1>a, <2>1 DEF RunRead
    <2>3. QED
      BY <2>2 DEF RecordedWasRun
  <1>4. ASSUME NEW r \in Requests, NEW outcome \in Outcomes, RunTool(r, outcome)
        PROVE  RecordedWasRun'
    <2>1. /\ UNCHANGED <<ledger, cur>>
          /\ \A s \in Requests \ {r} : at'[s] = at[s]
          /\ runs' = [runs EXCEPT ![cur[r]] = @ + 1] /\ cur[r] \in Calls
      BY <1>4, <1>a DEF RunTool, Goto
    <2>2. \A d \in Writes : runs[d] > 0 => runs'[d] > 0
      BY <1>a, <2>1
    <2>3. \A d \in Writes : d = cur[r] => runs'[d] > 0
      BY <1>a, <2>1
    <2>4. QED
      BY <2>1, <2>2, <2>3 DEF RecordedWasRun
  <1>5. ASSUME NEW r \in Requests, RecordRun(r) \/ Reject(r)
        PROVE  RecordedWasRun'
    <2>1. /\ UNCHANGED <<runs, cur>> /\ at'[r] # "ran"
          /\ \A s \in Requests \ {r} : at'[s] = at[s]
          /\ \A d \in Calls \ {cur[r]} : ledger'[d] = ledger[d]
      BY <1>5, <1>a DEF RecordRun, Reject, Verdicts, Goto
    <2>2. ledger'[cur[r]] \in Outcomes => at[r] = "ran"
      BY <1>5, <1>a DEF RecordRun, Reject, Outcomes
    <2>3. \A d \in Writes : ledger'[d] \in Outcomes => runs'[d] > 0
      BY <1>a, <2>1, <2>2 DEF RecordedWasRun
    <2>4. QED
      BY <1>1, <1>a, <2>1, <2>3
  <1>6. ASSUME NEW r \in Requests, CommitPass(r)
        PROVE  RecordedWasRun'
    <2>1. /\ UNCHANGED <<runs, cur>> /\ at'[r] # "ran"
          /\ \A s \in Requests \ {r} : at'[s] = at[s]
      BY <1>6, <1>a DEF CommitPass, EndTurn, Goto
    <2>2. \A d \in Writes : ledger'[d] \in Outcomes => ledger[d] \in Outcomes
      BY <1>6, <1>a, RequiresWrite DEF CommitPass, Outcomes
    <2>3. QED
      BY <1>1, <1>a, <2>1, <2>2 DEF RecordedWasRun
  <1>7. QED
    BY <1>0, <1>2, <1>3, <1>4, <1>5, <1>6 DEF Next, RequestNext

(* In any deployment, with any number of tabs: the row lock keeps the runs *)
(* of one action apart although the status was read without it, whoever    *)
(* holds it is between flush and commit and waits for no other lock, and   *)
(* the ledger shows no run that did not happen.  What it may get wrong     *)
(* then is a second run, or a rejection after one.                         *)
THEOREM RunsAreApart == Spec => [](HoldersAct /\ RunsDoNotOverlap /\ RecordedWasRun)
  <1>1. Init => HoldersAct /\ RecordedWasRun
    BY ChatAssumption DEF Init, HoldersAct, RecordedWasRun, Acting, Outcomes
  <1>2. TInv /\ HoldersAct => RunsDoNotOverlap
    BY DEF TInv, TypeOK, HoldersAct, RunsDoNotOverlap
  <1>3. QED
    BY <1>1, <1>2, InitTInv, TInvStep, HoldersStep, RecordedStep, PTL DEF Spec

-----------------------------------------------------------------------------
(* When the decisions on one action do not overlap, the ledger accounts    *)
(* for every run.  What a request has flushed and not committed is its     *)
(* own, and not on the ledger yet; whoever decides an action finds it      *)
(* pending until its own commit; a run the ledger does not show is either  *)
(* on its way to the commit or was taken by a crash.                       *)

Listed == {c \in Calls : \E i \in DOMAIN log : c \in log[i].calls}

CallsOf(r) == {c \in Calls : \E i \in DOMAIN log : log[i].by = r /\ c \in log[i].calls}

Unlisted ==
    /\ \A c \in Calls : ledger[c] # "absent" => c \in Listed
    /\ \A r \in Requests : \A c \in CallsOf(r) : ledger[c] = "absent"
    /\ \A r \in Requests : todo[r] \subseteq CallsOf(r)
    /\ \A r, s \in Requests : r # s => CallsOf(r) \cap CallsOf(s) = {}

OneAtATime ==
    /\ \A r \in Requests : at[r] \in Deciding => ledger[cur[r]] = "pending"
    /\ \A r, s \in Requests :
          at[r] \in Deciding /\ at[s] \in Deciding /\ cur[r] = cur[s] => r = s

(* What is being decided is on the ledger, whoever else decides it.        *)
Known == \A r \in Requests : at[r] \in Deciding => ledger[cur[r]] # "absent"

LEMMA OneIsKnown == OneAtATime => Known
  BY DEF OneAtATime, Known

Accounted(c) ==
    /\ ledger[c] = "absent" => runs[c] = 0
    /\ ledger[c] \in {"executed", "failed"} => runs[c] \in 1 .. 1 + crashes
    /\ ledger[c] = "rejected" => runs[c] <= crashes
    /\ ledger[c] = "pending" =>
          \/ runs[c] <= crashes
          \/ runs[c] = 1 + crashes /\ \E r \in Requests : at[r] = "ran" /\ cur[r] = c
    /\ \A r \in Requests : at[r] = "ran" /\ cur[r] = c => runs[c] > 0

RunsAccounted == \A c \in Writes : Accounted(c)

LedgerInv == Unlisted /\ OneAtATime /\ RunsAccounted

LEMMA CallsAppend ==
    ASSUME TypeOK, NEW e \in Message, log' = Append(log, e)
    PROVE  /\ Listed' = Listed \cup e.calls
           /\ \A r \in Requests :
                 CallsOf(r)' = CallsOf(r) \cup (IF e.by = r THEN e.calls ELSE {})
  <1>1. log \in Seq(Message)
    BY DEF TypeOK
  <1>2. /\ DOMAIN log' = DOMAIN log \cup {Len(log) + 1}
        /\ \A i \in DOMAIN log : log'[i] = log[i]
        /\ log'[Len(log) + 1] = e
    BY <1>1, AppendLog
  <1>3. e.calls \subseteq Calls
    BY DEF Message
  <1>4. Listed' = Listed \cup e.calls
    BY <1>2, <1>3 DEF Listed
  <1>5. ASSUME NEW r \in Requests
        PROVE  CallsOf(r)' = CallsOf(r) \cup (IF e.by = r THEN e.calls ELSE {})
    BY <1>2, <1>3 DEF CallsOf
  <1>6. QED
    BY <1>4, <1>5

LEMMA CallsSettle ==
    ASSUME TypeOK, NEW r \in Requests, NEW fate \in {Stored, Lost}, log' = Settled(r, fate)
    PROVE  /\ Listed' = Listed
           /\ CallsOf(r)' = {}
           /\ \A s \in Requests \ {r} : CallsOf(s)' = CallsOf(s)
  <1>1. log \in Seq(Message)
    BY DEF TypeOK
  <1>2. /\ DOMAIN log' = DOMAIN log
        /\ \A i \in DOMAIN log :
              /\ log'[i].calls = log[i].calls
              /\ log'[i].by = IF log[i].by = r THEN fate ELSE log[i].by
    BY <1>1, SettleLog
  <1>3. fate # r /\ \A s \in Requests : fate # s
    BY ChatAssumption
  <1>4. Listed' = Listed
    BY <1>2 DEF Listed
  <1>5. CallsOf(r)' = {}
    BY <1>2, <1>3 DEF CallsOf
  <1>6. ASSUME NEW s \in Requests \ {r}
        PROVE  CallsOf(s)' = CallsOf(s)
    BY <1>2, <1>3, <1>6 DEF CallsOf
  <1>7. QED
    BY <1>4, <1>5, <1>6

LEMMA FlushedCalls ==
    ASSUME TypeOK, NEW r \in Requests
    PROVE  Flushed(r) = CallsOf(r)
  <1>1. \A i \in DOMAIN log : log[i].calls \subseteq Calls
    <2>1. log \in Seq(Message)
      BY DEF TypeOK
    <2>2. \A i \in DOMAIN log : log[i] \in Message
      BY <2>1
    <2>3. QED
      BY <2>2 DEF Message
  <1>2. \A c : c \in Flushed(r) <=> \E i \in DOMAIN log : log[i].by = r /\ c \in log[i].calls
    BY Zenon DEF Flushed
  <1>3. \A c : c \in CallsOf(r) <=>
             c \in Calls /\ \E i \in DOMAIN log : log[i].by = r /\ c \in log[i].calls
    BY Zenon DEF CallsOf
  <1>4. QED
    BY <1>1, <1>2, <1>3

(* A message of its own commit: nothing becomes anyone's.                  *)
LEMMA AppendStored ==
    ASSUME TypeOK, NEW role \in {"user", "assistant", "tool"}, NEW C \in SUBSET Calls,
           log' = Append(log, Entry(role, C, Stored))
    PROVE  /\ Listed' = Listed \cup C
           /\ \A r \in Requests : CallsOf(r)' = CallsOf(r)
  <1>1. Entry(role, C, Stored) \in Message
    BY EntryType
  <1>2. Entry(role, C, Stored).calls = C /\ Entry(role, C, Stored).by = Stored
    BY DEF Entry
  <1>3. \A r \in Requests : Stored # r
    BY ChatAssumption
  <1>4. QED
    BY <1>1, <1>2, <1>3, CallsAppend

(* A step of r that neither decides, runs nor records anything.            *)
LEMMA QuietStep ==
    ASSUME TInv, LedgerInv, NEW r \in Requests,
           UNCHANGED <<ledger, cur, runs, crashes>>,
           at[r] # "ran", at'[r] \notin Deciding,
           \A s \in Requests \ {r} : at'[s] = at[s]
    PROVE  OneAtATime' /\ RunsAccounted'
  <1>1. \A s \in Requests : at'[s] \in Deciding => at[s] \in Deciding
    OBVIOUS
  <1>2. \A s \in Requests : at'[s] = "ran" <=> at[s] = "ran"
    BY DEF Deciding
  <1>3. OneAtATime'
    BY <1>1 DEF LedgerInv, OneAtATime
  <1>4. RunsAccounted'
    BY <1>2 DEF LedgerInv, RunsAccounted, Accounted
  <1>5. QED
    BY <1>3, <1>4

LEMMA InitLedgerInv == Init => LedgerInv
  <1> SUFFICES ASSUME Init
               PROVE  LedgerInv
    OBVIOUS
  <1>1. Listed = {} /\ \A r \in Requests : CallsOf(r) = {}
    BY DEF Init, Listed, CallsOf
  <1>2. \A r \in Requests : at[r] \notin Deciding
    BY DEF Init, Deciding
  <1>3. Unlisted
    BY <1>1 DEF Init, Unlisted
  <1>4. OneAtATime
    BY <1>2 DEF OneAtATime
  <1>5. RunsAccounted
    BY ChatAssumption DEF Init, RunsAccounted, Accounted
  <1>6. QED
    BY <1>3, <1>4, <1>5 DEF LedgerInv

LEMMA UnlistedStep ==
    ASSUME TInv, Unlisted, Known, [Next]_vars
    PROVE  Unlisted'
  <1>t. TypeOK
    BY DEF TInv
  <1>u. Unlisted
    OBVIOUS
  <1> USE ChatAssumption DEF turnVars
  <1>0. CASE UNCHANGED vars
    BY <1>0, <1>u DEF vars, requestVars, Unlisted, Listed, CallsOf
  <1>1. ASSUME NEW r \in Requests, Say(r) \/ Reengage(r)
        PROVE  Unlisted'
    <2>1. log' = Append(log, Entry("user", {}, Stored)) /\ UNCHANGED <<ledger, todo>>
      BY <1>1 DEF Say, Reengage
    <2>2. Listed' = Listed \cup {} /\ \A s \in Requests : CallsOf(s)' = CallsOf(s)
      BY <2>1, <1>t, AppendStored
    <2>3. QED
      BY <1>u, <2>1, <2>2 DEF Unlisted
  <1>2. ASSUME NEW r \in Requests, Conclude(r)
        PROVE  Unlisted'
    <2>1. log' = Append(log, Entry("assistant", {}, Stored)) /\ UNCHANGED <<ledger, todo>>
      BY <1>2 DEF Conclude
    <2>2. Listed' = Listed \cup {} /\ \A s \in Requests : CallsOf(s)' = CallsOf(s)
      BY <2>1, <1>t, AppendStored
    <2>3. QED
      BY <1>u, <2>1, <2>2 DEF Unlisted
  <1>3. ASSUME NEW r \in Requests, RecordRun(r) \/ Reject(r)
        PROVE  Unlisted'
    <2>1. at[r] \in Deciding /\ cur[r] \in Calls
      BY <1>3, <1>t DEF RecordRun, Reject, Deciding, TypeOK
    <2>2. ledger[cur[r]] # "absent"
      BY <2>1 DEF Known
    <2>3. /\ log' = Append(log, Entry("tool", {cur[r]}, Stored))
          /\ UNCHANGED todo
      BY <1>3 DEF RecordRun, Reject
    <2>4. \A c \in Calls : c # cur[r] => ledger'[c] = ledger[c]
      BY <1>3, <1>t DEF RecordRun, Reject, TypeOK
    <2>5. Listed' = Listed \cup {cur[r]} /\ \A s \in Requests : CallsOf(s)' = CallsOf(s)
      BY <2>1, <2>3, <1>t, AppendStored
    <2>6. \A s \in Requests : cur[r] \notin CallsOf(s)
      BY <2>2, <1>u DEF Unlisted
    <2>7. \A s \in Requests : CallsOf(s) \subseteq Calls
      BY DEF CallsOf
    <2>8. QED
      BY <1>u, <2>3, <2>4, <2>5, <2>6, <2>7 DEF Unlisted
  <1>4. ASSUME NEW r \in Requests, Claim(r) \/ Ask(r) \/ CapHit(r)
        PROVE  Unlisted'
    BY <1>4, <1>u DEF Claim, Ask, CapHit, Unlisted, Listed, CallsOf
  <1>5. ASSUME NEW r \in Requests, NEW c \in Calls, NEW decision \in {"approve", "reject"},
               Open(r, c, decision)
        PROVE  Unlisted'
    BY <1>5, <1>u DEF Open, Unlisted, Listed, CallsOf
  <1>6. ASSUME NEW r \in Requests, NEW outcome \in Outcomes, RunTool(r, outcome)
        PROVE  Unlisted'
    BY <1>6, <1>u DEF RunTool, Unlisted, Listed, CallsOf
  <1>7. ASSUME NEW r \in Requests, NEW C \in SUBSET Calls, Answer(r, C)
        PROVE  Unlisted'
    <2>1. /\ log' = Append(log, Entry("assistant", C, r))
          /\ todo' = [todo EXCEPT ![r] = {c \in C : ~RequiresApproval(c)}]
          /\ UNCHANGED ledger
      BY <1>7 DEF Answer
    <2>2. /\ Entry("assistant", C, r) \in Message
          /\ Entry("assistant", C, r).calls = C
          /\ Entry("assistant", C, r).by = r
      BY EntryType DEF Entry
    <2>3. /\ Listed' = Listed \cup C
          /\ CallsOf(r)' = CallsOf(r) \cup C
          /\ \A s \in Requests \ {r} : CallsOf(s)' = CallsOf(s)
      BY <2>1, <2>2, <1>t, CallsAppend
    <2>4. C \cap Listed = {}
      BY <1>7 DEF Answer, Fresh, Listed
    <2>5. \A c \in C : ledger[c] = "absent"
      BY <2>4, <1>u DEF Unlisted
    <2>6. \A s \in Requests : CallsOf(s) \subseteq Listed
      BY DEF CallsOf, Listed
    <2>7. todo'[r] \subseteq C /\ \A s \in Requests \ {r} : todo'[s] = todo[s]
      BY <2>1, <1>t DEF TypeOK
    <2>8. /\ \A c \in Calls : ledger'[c] # "absent" => c \in Listed'
          /\ \A s \in Requests : \A c \in CallsOf(s)' : ledger'[c] = "absent"
          /\ \A s \in Requests : todo'[s] \subseteq CallsOf(s)'
      BY <1>u, <2>1, <2>3, <2>5, <2>7 DEF Unlisted
    <2>9. ASSUME NEW s \in Requests, NEW q \in Requests, s # q
          PROVE  CallsOf(s)' \cap CallsOf(q)' = {}
      BY <1>u, <2>3, <2>4, <2>6, <2>9 DEF Unlisted
    <2>10. QED
      BY <2>8, <2>9 DEF Unlisted
  <1>8. ASSUME NEW r \in Requests, NEW c \in Calls, RunRead(r, c)
        PROVE  Unlisted'
    <2>1. /\ log' = Append(log, Entry("tool", {c}, r))
          /\ todo' = [todo EXCEPT ![r] = @ \ {c}]
          /\ UNCHANGED ledger
          /\ c \in CallsOf(r)
      BY <1>8, <1>u DEF RunRead, Unlisted
    <2>2. /\ Entry("tool", {c}, r) \in Message
          /\ Entry("tool", {c}, r).calls = {c}
          /\ Entry("tool", {c}, r).by = r
      BY EntryType DEF Entry
    <2>3. c \in Listed
      BY <2>1 DEF CallsOf, Listed
    <2>4. Listed' = Listed /\ \A s \in Requests : CallsOf(s)' = CallsOf(s)
      <3>1. /\ Listed' = Listed \cup {c}
            /\ \A s \in Requests : CallsOf(s)' = CallsOf(s) \cup (IF r = s THEN {c} ELSE {})
        BY <2>1, <2>2, <1>t, CallsAppend
      <3>2. QED
        BY <2>1, <2>3, <3>1
    <2>5. \A s \in Requests : todo'[s] \subseteq todo[s]
      BY <2>1, <1>t DEF TypeOK
    <2>6. QED
      BY <1>u, <2>1, <2>4, <2>5 DEF Unlisted
  <1>9. ASSUME NEW r \in Requests, CommitPass(r)
        PROVE  Unlisted'
    <2>1. /\ Listed' = Listed
          /\ CallsOf(r)' = {}
          /\ \A s \in Requests \ {r} : CallsOf(s)' = CallsOf(s)
      BY <1>9, <1>t, CallsSettle DEF CommitPass
    <2>2. \A c \in Calls : c \notin CallsOf(r) => ledger'[c] = ledger[c]
      BY <1>9, <1>t, FlushedCalls DEF CommitPass
    <2>3. CallsOf(r) \subseteq Listed /\ \A s \in Requests : CallsOf(s) \subseteq Calls
      BY DEF CallsOf, Listed
    <2>4. todo' = todo /\ todo[r] = {}
      BY <1>9 DEF CommitPass
    <2>5. \A s \in Requests \ {r} : CallsOf(s) \cap CallsOf(r) = {}
      BY <1>u DEF Unlisted
    <2>6. \A s \in Requests : \A c \in CallsOf(s)' : ledger'[c] = "absent"
      BY <1>u, <2>1, <2>2, <2>3, <2>5 DEF Unlisted
    <2>7. QED
      BY <1>u, <2>1, <2>2, <2>3, <2>4, <2>6 DEF Unlisted
  <1>10. ASSUME NEW r \in Requests, Crash(r)
         PROVE  Unlisted'
    <2>1. /\ Listed' = Listed
          /\ CallsOf(r)' = {}
          /\ \A s \in Requests \ {r} : CallsOf(s)' = CallsOf(s)
      BY <1>10, <1>t, CallsSettle DEF Crash
    <2>2. ledger' = ledger /\ todo'[r] = {} /\ \A s \in Requests \ {r} : todo'[s] = todo[s]
      BY <1>10, <1>t DEF Crash, TypeOK
    <2>3. QED
      BY <1>u, <2>1, <2>2 DEF Unlisted
  <1> HIDE DEF turnVars
  <1>11. QED
    BY <1>0, <1>1, <1>2, <1>3, <1>4, <1>5, <1>6, <1>7, <1>8, <1>9, <1>10 DEF Next, RequestNext

LEMMA KnownStep ==
    ASSUME TInv, Known, [Next]_vars
    PROVE  Known'
  <1>a. /\ at \in [Requests -> Deciding \cup {"idle", "unresolved", "turn", "asked",
                                              "refused", "reading"}]
        /\ cur \in [Requests -> Calls]
        /\ ledger \in [Calls -> Decided \cup {"absent", "pending"}]
        /\ \A r \in Requests : result[r] \in Outcomes
    BY DEF TInv, TypeOK
  <1>0. CASE UNCHANGED vars
    BY <1>0 DEF vars, requestVars, Known
  <1>1. ASSUME NEW r \in Requests,
               \A c \in Calls : ledger[c] # "absent" => ledger'[c] # "absent",
               \A s \in Requests \ {r} : at'[s] = at[s] /\ cur'[s] = cur[s],
               at'[r] \in Deciding => at[r] \in Deciding /\ cur'[r] = cur[r]
        PROVE  Known'
    BY <1>1, <1>a DEF Known
  <1>2. ASSUME NEW r \in Requests,
               \/ Say(r) \/ Reengage(r) \/ Ask(r) \/ CapHit(r) \/ Conclude(r)
               \/ Claim(r) \/ Crash(r)
               \/ \E C \in SUBSET Calls : Answer(r, C)
               \/ \E c \in Calls : RunRead(r, c)
               \/ \E outcome \in Outcomes : RunTool(r, outcome)
        PROVE  Known'
    <2>1. /\ UNCHANGED <<ledger, cur>>
          /\ \A s \in Requests \ {r} : at'[s] = at[s]
      BY <1>2, <1>a DEF Say, Reengage, Ask, CapHit, Conclude, Claim, Crash, Answer,
                        RunRead, RunTool, Goto, EndTurn
    <2>2. at'[r] \in Deciding => at[r] \in Deciding
      BY <1>2, <1>a DEF Say, Reengage, Ask, CapHit, Conclude, Claim, Crash, Answer,
                        RunRead, RunTool, Goto, EndTurn, Deciding
    <2>3. QED
      BY <1>1, <2>1, <2>2
  <1>3. ASSUME NEW r \in Requests, RecordRun(r) \/ Reject(r)
        PROVE  Known'
    <2>1. /\ UNCHANGED cur /\ at'[r] \notin Deciding
          /\ \A s \in Requests \ {r} : at'[s] = at[s]
      BY <1>3, <1>a DEF RecordRun, Reject, Verdicts, Goto, Deciding
    <2>2. \A c \in Calls : ledger[c] # "absent" => ledger'[c] # "absent"
      BY <1>3, <1>a DEF RecordRun, Reject, Outcomes
    <2>3. QED
      BY <1>1, <2>1, <2>2
  <1>4. ASSUME NEW r \in Requests, CommitPass(r)
        PROVE  Known'
    <2>1. /\ UNCHANGED cur /\ at'[r] \notin Deciding
          /\ \A s \in Requests \ {r} : at'[s] = at[s]
      BY <1>4, <1>a DEF CommitPass, EndTurn, Goto, Deciding
    <2>2. \A c \in Calls : ledger[c] # "absent" => ledger'[c] # "absent"
      BY <1>4, <1>a DEF CommitPass
    <2>3. QED
      BY <1>1, <2>1, <2>2
  <1>5. ASSUME NEW r \in Requests, NEW c \in Calls, NEW decision \in {"approve", "reject"},
               Open(r, c, decision)
        PROVE  Known'
    <2>1. /\ ledger[c] = "pending" /\ cur'[r] = c /\ UNCHANGED ledger
          /\ \A s \in Requests \ {r} : at'[s] = at[s] /\ cur'[s] = cur[s]
      BY <1>5, <1>a DEF Open, Goto
    <2>2. QED
      BY <1>a, <2>1 DEF Known
  <1>6. QED
    BY <1>0, <1>2, <1>3, <1>4, <1>5 DEF Next, RequestNext

(* An action has one decision at a time, and it is about a pending action. *)
LEMMA DecisionsStep ==
    ASSUME TInv, LedgerInv, OneTab, [Next]_vars
    PROVE  OneAtATime' /\ RunsAccounted'
  <1>t. TypeOK
    BY DEF TInv
  <1>u. Unlisted /\ OneAtATime /\ RunsAccounted
    BY DEF LedgerInv
  <1>a. /\ at \in [Requests -> Deciding \cup {"idle", "unresolved", "turn", "asked",
                                              "refused", "reading"}]
        /\ cur \in [Requests -> Calls]
        /\ ledger \in [Calls -> Decided \cup {"absent", "pending"}]
        /\ runs \in [Calls -> Nat]
        /\ crashes \in Nat
    BY <1>t, ChatAssumption DEF TypeOK
  <1>w. Writes \subseteq Calls
    BY ChatAssumption
  <1>0. CASE UNCHANGED vars
    BY <1>0, <1>u DEF vars, requestVars, OneAtATime, RunsAccounted, Accounted
  <1>1. ASSUME NEW r \in Requests, Say(r) \/ Reengage(r) \/ Ask(r)
        PROVE  OneAtATime' /\ RunsAccounted'
    BY <1>1, <1>a, QuietStep DEF Say, Reengage, Ask, Goto, Deciding
  <1>2. ASSUME NEW r \in Requests, CapHit(r) \/ Conclude(r)
        PROVE  OneAtATime' /\ RunsAccounted'
    BY <1>2, <1>a, QuietStep DEF CapHit, Conclude, EndTurn, Goto, Deciding
  <1>3. ASSUME NEW r \in Requests, NEW C \in SUBSET Calls, Answer(r, C)
        PROVE  OneAtATime' /\ RunsAccounted'
    BY <1>3, <1>a, QuietStep DEF Answer, Goto, Deciding
  <1>4. ASSUME NEW r \in Requests, NEW c \in Calls, NEW decision \in {"approve", "reject"},
               Open(r, c, decision)
        PROVE  OneAtATime' /\ RunsAccounted'
    <2>1. /\ at[r] = "idle" /\ at'[r] = decision /\ cur'[r] = c
          /\ \A s \in Requests \ {r} : at'[s] = at[s] /\ cur'[s] = cur[s]
          /\ UNCHANGED <<ledger, runs, crashes>>
          /\ ledger[c] = "pending"
          /\ \A s \in Requests : at[s] \in Deciding => cur[s] # c
      BY <1>4, <1>a DEF Open, Goto
    <2>2. OneAtATime'
      BY <1>u, <2>1 DEF OneAtATime
    <2>3. \A s \in Requests : (at'[s] = "ran" <=> at[s] = "ran") /\
                              (at[s] = "ran" => cur'[s] = cur[s])
      BY <2>1
    <2>4. RunsAccounted'
      BY <1>u, <2>1, <2>3 DEF RunsAccounted, Accounted
    <2>5. QED
      BY <2>2, <2>4
  <1>5. ASSUME NEW r \in Requests, Claim(r)
        PROVE  OneAtATime' /\ RunsAccounted'
    <2>1. /\ at[r] = "approve" /\ at'[r] = "claimed"
          /\ \A s \in Requests \ {r} : at'[s] = at[s]
          /\ UNCHANGED <<ledger, cur, runs, crashes>>
      BY <1>5, <1>a DEF Claim, Goto
    <2>2. OneAtATime'
      BY <1>u, <2>1 DEF OneAtATime, Deciding
    <2>3. \A s \in Requests : at'[s] = "ran" <=> at[s] = "ran"
      BY <2>1
    <2>4. RunsAccounted'
      BY <1>u, <2>1, <2>3 DEF RunsAccounted, Accounted
    <2>5. QED
      BY <2>2, <2>4
  <1>6. ASSUME NEW r \in Requests, NEW outcome \in Outcomes, RunTool(r, outcome)
        PROVE  OneAtATime' /\ RunsAccounted'
    <2>1. /\ at[r] = "claimed" /\ at'[r] = "ran"
          /\ \A s \in Requests \ {r} : at'[s] = at[s]
          /\ UNCHANGED <<ledger, cur, crashes>>
          /\ runs'[cur[r]] = runs[cur[r]] + 1
          /\ \A d \in Calls \ {cur[r]} : runs'[d] = runs[d]
      BY <1>6, <1>a DEF RunTool, Goto
    <2>2. OneAtATime'
      BY <1>u, <2>1 DEF OneAtATime, Deciding
    <2>3. ledger[cur[r]] = "pending" /\ ~ \E s \in Requests : at[s] = "ran" /\ cur[s] = cur[r]
      BY <1>u, <2>1 DEF OneAtATime, Deciding
    <2>4. ASSUME NEW d \in Writes
          PROVE  Accounted(d)'
      <3>1. Accounted(d)
        BY <1>u DEF RunsAccounted
      <3>2. CASE d = cur[r]
        <4>1. runs[d] <= crashes /\ runs[d] \in Nat
          BY <3>1, <3>2, <2>3, <1>a, <1>w DEF Accounted
        <4>2. runs'[d] \in 1 .. 1 + crashes
          BY <4>1, <2>1, <3>2, <1>a
        <4>3. at'[r] = "ran" /\ cur'[r] = d
          BY <2>1, <3>2
        <4>4. ledger'[d] = "pending"
          BY <2>1, <2>3, <3>2
        <4>5. QED
          BY <4>2, <4>3, <4>4, <2>1, <1>a DEF Accounted
      <3>3. CASE d # cur[r]
        <4>1. \A s \in Requests : (at'[s] = "ran" /\ cur'[s] = d) <=>
                                  (at[s] = "ran" /\ cur[s] = d)
          BY <2>1, <3>3
        <4>2. runs'[d] = runs[d]
          BY <2>1, <3>3, <1>w
        <4>3. QED
          BY <3>1, <4>1, <4>2, <2>1 DEF Accounted
      <3>4. QED
        BY <3>2, <3>3
    <2>5. QED
      BY <2>2, <2>4 DEF RunsAccounted
  <1>7. ASSUME NEW r \in Requests, RecordRun(r)
        PROVE  OneAtATime' /\ RunsAccounted'
    <2>1. /\ at[r] = "ran" /\ at'[r] \in {"unresolved", "idle"}
          /\ \A s \in Requests \ {r} : at'[s] = at[s]
          /\ UNCHANGED <<cur, runs, crashes>>
          /\ ledger'[cur[r]] = result[r]
          /\ \A d \in Calls \ {cur[r]} : ledger'[d] = ledger[d]
      BY <1>7, <1>a DEF RecordRun, Verdicts, Goto
    <2>2. result[r] \in {"executed", "failed"}
      BY <1>t DEF TypeOK, Outcomes
    <2>3. \A s \in Requests \ {r} : at[s] \in Deciding => cur[s] # cur[r]
      BY <1>u, <2>1 DEF OneAtATime, Deciding
    <2>4. ledger[cur[r]] = "pending"
      BY <1>u, <2>1 DEF OneAtATime, Deciding
    <2>5. OneAtATime'
      BY <1>u, <1>a, <2>1, <2>3 DEF OneAtATime, Deciding
    <2>6. ASSUME NEW d \in Writes
          PROVE  Accounted(d)'
      <3>1. Accounted(d)
        BY <1>u DEF RunsAccounted
      <3>2. CASE d = cur[r]
        <4>1. runs[d] \in 1 .. 1 + crashes
          BY <3>1, <3>2, <2>1, <2>4, <1>a, <1>w DEF Accounted
        <4>2. ledger'[d] \in {"executed", "failed"}
          BY <2>1, <2>2, <3>2
        <4>3. QED
          BY <4>1, <4>2, <2>1, <1>a DEF Accounted
      <3>3. CASE d # cur[r]
        <4>1. \A s \in Requests : (at'[s] = "ran" /\ cur'[s] = d) <=>
                                  (at[s] = "ran" /\ cur[s] = d)
          BY <2>1, <3>3
        <4>2. ledger'[d] = ledger[d]
          BY <2>1, <3>3, <1>w
        <4>3. QED
          BY <3>1, <4>1, <4>2, <2>1 DEF Accounted
      <3>4. QED
        BY <3>2, <3>3
    <2>7. QED
      BY <2>5, <2>6 DEF RunsAccounted
  <1>8. ASSUME NEW r \in Requests, Reject(r)
        PROVE  OneAtATime' /\ RunsAccounted'
    <2>1. /\ at[r] = "reject" /\ at'[r] = "turn"
          /\ \A s \in Requests \ {r} : at'[s] = at[s]
          /\ UNCHANGED <<cur, runs, crashes>>
          /\ ledger'[cur[r]] = "rejected"
          /\ \A d \in Calls \ {cur[r]} : ledger'[d] = ledger[d]
      BY <1>8, <1>a DEF Reject, Goto
    <2>2. \A s \in Requests \ {r} : at[s] \in Deciding => cur[s] # cur[r]
      BY <1>u, <2>1 DEF OneAtATime, Deciding
    <2>3. ledger[cur[r]] = "pending"
      BY <1>u, <2>1 DEF OneAtATime, Deciding
    <2>4. OneAtATime'
      BY <1>u, <1>a, <2>1, <2>2 DEF OneAtATime, Deciding
    <2>5. ASSUME NEW d \in Writes
          PROVE  Accounted(d)'
      <3>1. Accounted(d)
        BY <1>u DEF RunsAccounted
      <3>2. \A s \in Requests : (at'[s] = "ran" /\ cur'[s] = d) <=>
                                (at[s] = "ran" /\ cur[s] = d)
        BY <2>1
      <3>3. CASE d = cur[r]
        <4>1. ~ \E s \in Requests : at[s] = "ran" /\ cur[s] = d
          BY <2>1, <2>2, <3>3 DEF Deciding
        <4>2. runs[d] <= crashes
          BY <3>1, <3>3, <2>3, <4>1 DEF Accounted
        <4>3. QED
          BY <3>2, <3>3, <4>1, <4>2, <2>1 DEF Accounted
      <3>4. CASE d # cur[r]
        BY <3>1, <3>2, <3>4, <2>1, <1>w DEF Accounted
      <3>5. QED
        BY <3>3, <3>4
    <2>6. QED
      BY <2>4, <2>5 DEF RunsAccounted
  <1>9. ASSUME NEW r \in Requests, NEW c \in Calls, RunRead(r, c)
        PROVE  OneAtATime' /\ RunsAccounted'
    <2>1. c \notin Writes
      BY <1>9 DEF RunRead, TInv, TodoReads
    <2>2. UNCHANGED <<ledger, at, cur, crashes>> /\ \A d \in Writes : runs'[d] = runs[d]
      BY <1>9, <1>a, <1>w, <2>1 DEF RunRead
    <2>3. QED
      BY <1>u, <2>2 DEF OneAtATime, RunsAccounted, Accounted
  <1>10. ASSUME NEW r \in Requests, CommitPass(r)
         PROVE  OneAtATime' /\ RunsAccounted'
    <2>1. /\ at[r] = "reading" /\ at'[r] \in {"idle", "turn"}
          /\ \A s \in Requests \ {r} : at'[s] = at[s]
          /\ UNCHANGED <<cur, runs, crashes>>
      BY <1>10, <1>a DEF CommitPass, EndTurn, Goto
    <2>2. \A d \in Calls : d \notin CallsOf(r) => ledger'[d] = ledger[d]
      BY <1>10, <1>t, FlushedCalls DEF CommitPass
    <2>3. \A d \in Writes : d \in CallsOf(r) => ledger'[d] = "pending" /\ ledger[d] = "absent"
      BY <1>10, <1>t, <1>u, <1>w, FlushedCalls, RequiresWrite DEF CommitPass, Unlisted
    <2>4. \A d \in CallsOf(r) : ledger[d] = "absent"
      BY <1>u DEF Unlisted
    <2>5. OneAtATime'
      BY <1>u, <1>a, <2>1, <2>2, <2>4 DEF OneAtATime, Deciding
    <2>6. \A s \in Requests : at'[s] = "ran" <=> at[s] = "ran"
      BY <2>1
    <2>7. ASSUME NEW d \in Writes
          PROVE  Accounted(d)'
      <3>1. Accounted(d)
        BY <1>u DEF RunsAccounted
      <3>2. CASE d \in CallsOf(r)
        BY <3>1, <3>2, <2>1, <2>3, <2>6, <1>a DEF Accounted
      <3>3. CASE d \notin CallsOf(r)
        BY <3>1, <3>3, <2>1, <2>2, <2>6, <1>w DEF Accounted
      <3>4. QED
        BY <3>2, <3>3
    <2>8. QED
      BY <2>5, <2>7 DEF RunsAccounted
  <1>11. ASSUME NEW r \in Requests, Crash(r)
         PROVE  OneAtATime' /\ RunsAccounted'
    <2>1. /\ at'[r] = "idle"
          /\ \A s \in Requests \ {r} : at'[s] = at[s]
          /\ UNCHANGED <<ledger, cur, runs>>
          /\ crashes' = crashes + 1
      BY <1>11, <1>a DEF Crash, EndTurn, Goto
    <2>2. OneAtATime'
      BY <1>u, <2>1 DEF OneAtATime, Deciding
    <2>3. ASSUME NEW d \in Writes
          PROVE  Accounted(d)'
      <3>1. Accounted(d)
        BY <1>u DEF RunsAccounted
      <3>2. runs[d] \in Nat
        BY <1>a, <1>w
      <3>3. \A s \in Requests : at'[s] = "ran" => at[s] = "ran"
        BY <2>1
      <3>4. QED
        BY <3>1, <3>2, <3>3, <2>1, <1>a DEF Accounted
    <2>4. QED
      BY <2>2, <2>3 DEF RunsAccounted
  <1>12. QED
    BY <1>0, <1>1, <1>2, <1>3, <1>4, <1>5, <1>6, <1>7, <1>8, <1>9, <1>10, <1>11
       DEF Next, RequestNext

(* If no two decisions on one action are in flight together, the ledger    *)
(* the operator reads is true: see LedgerMatchesCluster.                   *)
THEOREM LedgerIsTrue ==
    ASSUME OneTab
    PROVE  Spec => []LedgerMatchesCluster
  <1>1. TInv /\ LedgerInv => LedgerMatchesCluster
    <2> SUFFICES ASSUME TInv, LedgerInv, NEW c \in Writes
                 PROVE  /\ ledger[c] \in {"executed", "failed"} => runs[c] \in 1 .. 1 + crashes
                        /\ \/ ledger[c] \in {"absent", "rejected"}
                           \/ /\ ledger[c] = "pending"
                              /\ \A r \in Requests : at[r] = "ran" => cur[r] # c
                           => runs[c] <= crashes
      BY DEF LedgerMatchesCluster
    <2>1. Accounted(c)
      BY DEF LedgerInv, RunsAccounted
    <2>2. crashes \in Nat
      BY ChatAssumption DEF TInv, TypeOK
    <2>3. QED
      BY <2>1, <2>2 DEF Accounted
  <1>2. TInv /\ LedgerInv /\ [Next]_vars => LedgerInv'
    BY UnlistedStep, OneIsKnown, DecisionsStep DEF LedgerInv
  <1>3. QED
    BY <1>1, <1>2, InitTInv, InitLedgerInv, TInvStep, PTL DEF Spec

-----------------------------------------------------------------------------
(* The answers the transcript holds for call c.                            *)
Told(c) == {i \in DOMAIN log : log[i] = Entry("tool", {c}, Stored)}

(* Answers to writes are never flushed without their commit.               *)
AnswersCommitted ==
    \A c \in Writes : \A i \in DOMAIN log :
        log[i].role = "tool" /\ log[i].calls = {c} => log[i].by = Stored

ToldOnce(c) ==
    IF ledger[c] \in Decided THEN \E i \in DOMAIN log : Told(c) = {i}
    ELSE Told(c) = {}

TalkInv == AnswersCommitted /\ \A c \in Writes : ToldOnce(c)

LEMMA InitTalkInv == Init => TalkInv
  BY ChatAssumption
     DEF Init, TalkInv, AnswersCommitted, ToldOnce, Told, Decided, Outcomes

(* A message that is not the answer to a write tells nothing of writes.    *)
LEMMA TalkAppend ==
    ASSUME TInv, AnswersCommitted, NEW e \in Message, log' = Append(log, e),
           \A c \in Writes : e.role = "tool" => e.calls # {c}
    PROVE  AnswersCommitted' /\ \A c \in Writes : Told(c)' = Told(c)
  <1>1. /\ DOMAIN log' = DOMAIN log \cup {Len(log) + 1}
        /\ \A i \in DOMAIN log : log'[i] = log[i]
        /\ log'[Len(log) + 1] = e
    BY AppendLog DEF TInv, TypeOK
  <1>2. \A c \in Writes : e # Entry("tool", {c}, Stored)
    BY DEF Entry
  <1>3. QED
    BY <1>1, <1>2 DEF AnswersCommitted, Told

(* Commits and rollbacks do not touch the answers to writes.               *)
LEMMA TalkSettle ==
    ASSUME TInv, AnswersCommitted, NEW r \in Requests, NEW fate \in {Stored, Lost},
           log' = Settled(r, fate)
    PROVE  AnswersCommitted' /\ \A c \in Writes : Told(c)' = Told(c)
  <1>1. DOMAIN log' = DOMAIN log
    BY DEF Settled
  <1>2. Stored # r
    BY ChatAssumption
  <1>3. ASSUME NEW i \in DOMAIN log
        PROVE  /\ log[i].by # r => log'[i] = log[i]
               /\ log'[i].role = log[i].role
               /\ log'[i].calls = log[i].calls
    <2>1. log[i] \in Message
      BY DEF TInv, TypeOK
    <2>2. log'[i] = IF log[i].by = r THEN [log[i] EXCEPT !.by = fate] ELSE log[i]
      BY DEF Settled
    <2>3. QED
      BY <2>1, <2>2 DEF Message
  <1>4. ASSUME NEW c \in Writes, NEW i \in DOMAIN log,
               log[i].role = "tool", log[i].calls = {c}
        PROVE  log'[i] = log[i] /\ log[i].by = Stored
    BY <1>2, <1>3, <1>4 DEF AnswersCommitted
  <1>5. AnswersCommitted'
    BY <1>1, <1>3, <1>4 DEF AnswersCommitted
  <1>6. ASSUME NEW c \in Writes
        PROVE  Told(c)' = Told(c)
    <2>0. Entry("tool", {c}, Stored).role = "tool" /\ Entry("tool", {c}, Stored).calls = {c}
      BY DEF Entry
    <2>1. ASSUME NEW i \in DOMAIN log
          PROVE  log'[i] = Entry("tool", {c}, Stored) <=> log[i] = Entry("tool", {c}, Stored)
      <3>1. CASE log[i].role = "tool" /\ log[i].calls = {c}
        BY <3>1, <1>4
      <3>2. CASE ~(log[i].role = "tool" /\ log[i].calls = {c})
        BY <3>2, <1>3, <2>0
      <3>3. QED
        BY <3>1, <3>2
    <2>2. QED
      BY <1>1, <2>1 DEF Told
  <1>7. QED
    BY <1>5, <1>6

(* The answer to a decision: the transcript had none, and has one now.     *)
LEMMA TalkAnswer ==
    ASSUME TInv, TalkInv, NEW d \in Calls, ledger[d] \notin Decided, ledger'[d] \in Decided,
           \A c \in Calls \ {d} : ledger'[c] = ledger[c],
           log' = Append(log, Entry("tool", {d}, Stored))
    PROVE  TalkInv'
  <1>1. Entry("tool", {d}, Stored) \in Message
    BY EntryType
  <1>2. /\ DOMAIN log' = DOMAIN log \cup {Len(log) + 1}
        /\ Len(log) + 1 \notin DOMAIN log
        /\ \A i \in DOMAIN log : log'[i] = log[i]
        /\ log'[Len(log) + 1] = Entry("tool", {d}, Stored)
    BY <1>1, AppendLog DEF TInv, TypeOK
  <1>3. AnswersCommitted'
    BY <1>2 DEF TalkInv, AnswersCommitted, Entry
  <1>4. ASSUME NEW c \in Writes
        PROVE  ToldOnce(c)'
    <2>0. c \in Calls
      BY ChatAssumption
    <2>1. CASE c = d
      <3>1. Told(c) = {}
        BY <2>1 DEF TalkInv, ToldOnce
      <3>2. \A i \in DOMAIN log : log'[i] # Entry("tool", {c}, Stored)
        BY <1>2, <3>1 DEF Told
      <3>3. \A i \in DOMAIN log' : log'[i] = Entry("tool", {c}, Stored) <=> i = Len(log) + 1
        BY <1>2, <2>1, <3>2
      <3>4. Len(log) + 1 \in DOMAIN log'
        BY <1>2
      <3>5. Told(c)' = {Len(log) + 1}
        BY <3>3, <3>4 DEF Told
      <3>6. QED
        BY <1>2, <2>1, <3>4, <3>5 DEF ToldOnce
    <2>2. CASE c # d
      <3>1. Entry("tool", {d}, Stored) # Entry("tool", {c}, Stored)
        BY <2>2 DEF Entry
      <3>2. Told(c)' = Told(c)
        BY <1>2, <3>1 DEF Told
      <3>3. ledger'[c] = ledger[c]
        BY <2>0, <2>2
      <3>4. QED
        BY <1>2, <3>2, <3>3 DEF TalkInv, ToldOnce
    <2>3. QED
      BY <2>1, <2>2
  <1>5. QED
    BY <1>3, <1>4 DEF TalkInv

(* Steps that tell nothing and decide nothing.                             *)
LEMMA TalkQuiet ==
    ASSUME TalkInv, AnswersCommitted', \A c \in Writes : Told(c)' = Told(c),
           \A c \in Writes : (ledger'[c] \in Decided <=> ledger[c] \in Decided)
    PROVE  TalkInv'
  <1>1. ASSUME NEW c \in Writes
        PROVE  ToldOnce(c)'
    <2>1. ToldOnce(c) /\ Told(c)' = Told(c) /\ (ledger'[c] \in Decided <=> ledger[c] \in Decided)
      BY DEF TalkInv
    <2>2. \A i : Told(c)' = {i} => i \in DOMAIN log'
      BY DEF Told
    <2>3. QED
      BY <2>1, <2>2 DEF ToldOnce
  <1>2. QED
    BY <1>1 DEF TalkInv

LEMMA TalkStep ==
    ASSUME TInv, LedgerInv, TalkInv, OneTab, [Next]_vars
    PROVE  TalkInv'
  <1>t. TypeOK
    BY DEF TInv
  <1>k. AnswersCommitted
    BY DEF TalkInv
  <1>w. Writes \subseteq Calls
    BY ChatAssumption
  <1>0. ASSUME UNCHANGED <<log, ledger>>
        PROVE  TalkInv'
    BY <1>0, <1>k, TalkQuiet DEF AnswersCommitted, Told
  <1>1. ASSUME NEW r \in Requests, Say(r) \/ Reengage(r) \/ Conclude(r)
        PROVE  TalkInv'
    <2>1. PICK role \in {"user", "assistant"} :
              log' = Append(log, Entry(role, {}, Stored)) /\ UNCHANGED ledger
      BY <1>1 DEF Say, Reengage, Conclude
    <2>2. Entry(role, {}, Stored) \in Message /\ Entry(role, {}, Stored).role # "tool"
      BY EntryType DEF Entry
    <2>3. AnswersCommitted' /\ \A c \in Writes : Told(c)' = Told(c)
      BY <1>k, <2>1, <2>2, TalkAppend
    <2>4. QED
      BY <2>1, <2>3, TalkQuiet
  <1>2. ASSUME NEW r \in Requests,
               Claim(r) \/ Ask(r) \/ CapHit(r)
               \/ (\E c \in Calls, decision \in {"approve", "reject"} : Open(r, c, decision))
               \/ (\E outcome \in Outcomes : RunTool(r, outcome))
        PROVE  TalkInv'
    BY <1>0, <1>2 DEF Claim, Ask, CapHit, Open, RunTool
  <1>3. ASSUME NEW r \in Requests, RecordRun(r) \/ Reject(r)
        PROVE  TalkInv'
    <2>1. at[r] \in Deciding /\ cur[r] \in Calls
      BY <1>3, <1>t DEF RecordRun, Reject, Deciding, TypeOK
    <2>2. ledger[cur[r]] = "pending"
      BY <2>1 DEF LedgerInv, OneAtATime
    <2>3. result[r] \in Outcomes
      BY <1>t DEF TypeOK
    <2>4. /\ ledger'[cur[r]] \in Decided
          /\ \A c \in Calls \ {cur[r]} : ledger'[c] = ledger[c]
          /\ log' = Append(log, Entry("tool", {cur[r]}, Stored))
      BY <1>3, <1>t, <2>1, <2>3 DEF RecordRun, Reject, Decided, TypeOK
    <2>5. ledger[cur[r]] \notin Decided
      BY <2>2 DEF Decided, Outcomes
    <2>6. QED
      BY <2>1, <2>4, <2>5, TalkAnswer
  <1>4. ASSUME NEW r \in Requests, NEW C \in SUBSET Calls, Answer(r, C)
        PROVE  TalkInv'
    <2>1. log' = Append(log, Entry("assistant", C, r)) /\ UNCHANGED ledger
      BY <1>4 DEF Answer
    <2>2. Entry("assistant", C, r) \in Message /\ Entry("assistant", C, r).role # "tool"
      BY EntryType DEF Entry
    <2>3. AnswersCommitted' /\ \A c \in Writes : Told(c)' = Told(c)
      BY <1>k, <2>1, <2>2, TalkAppend
    <2>4. QED
      BY <2>1, <2>3, TalkQuiet
  <1>5. ASSUME NEW r \in Requests, NEW d \in Calls, RunRead(r, d)
        PROVE  TalkInv'
    <2>1. d \notin Writes
      BY <1>5 DEF RunRead, TInv, TodoReads
    <2>2. log' = Append(log, Entry("tool", {d}, r)) /\ UNCHANGED ledger
      BY <1>5 DEF RunRead
    <2>3. /\ Entry("tool", {d}, r) \in Message
          /\ \A c \in Writes : Entry("tool", {d}, r).calls # {c}
      BY <2>1, EntryType DEF Entry
    <2>4. AnswersCommitted' /\ \A c \in Writes : Told(c)' = Told(c)
      BY <1>k, <2>2, <2>3, TalkAppend
    <2>5. QED
      BY <2>2, <2>4, TalkQuiet
  <1>6. ASSUME NEW r \in Requests, CommitPass(r)
        PROVE  TalkInv'
    <2>1. AnswersCommitted' /\ \A c \in Writes : Told(c)' = Told(c)
      BY <1>6, <1>k, TalkSettle DEF CommitPass
    <2>2. \A c \in Calls : c \notin CallsOf(r) => ledger'[c] = ledger[c]
      BY <1>6, <1>t, FlushedCalls DEF CommitPass
    <2>3. \A c \in Writes : c \in CallsOf(r) => ledger'[c] = "pending" /\ ledger[c] = "absent"
      BY <1>6, <1>t, <1>w, FlushedCalls, RequiresWrite DEF CommitPass, LedgerInv, Unlisted
    <2>4. \A c \in Writes : (ledger'[c] \in Decided <=> ledger[c] \in Decided)
      BY <1>w, <2>2, <2>3 DEF Decided, Outcomes
    <2>5. QED
      BY <2>1, <2>4, TalkQuiet
  <1>7. ASSUME NEW r \in Requests, Crash(r)
        PROVE  TalkInv'
    <2>1. AnswersCommitted' /\ \A c \in Writes : Told(c)' = Told(c)
      BY <1>7, <1>k, TalkSettle DEF Crash
    <2>2. QED
      BY <1>7, <2>1, TalkQuiet DEF Crash
  <1>8. CASE UNCHANGED vars
    BY <1>0, <1>8 DEF vars
  <1>9. QED
    BY <1>1, <1>2, <1>3, <1>4, <1>5, <1>6, <1>7, <1>8 DEF Next, RequestNext

(* If no two decisions on one action are in flight together, the model is  *)
(* told every decision once, and none that was not made: see               *)
(* LedgerMatchesTranscript.                                                *)
THEOREM ModelIsTold ==
    ASSUME OneTab
    PROVE  Spec => []LedgerMatchesTranscript
  <1>1. TInv /\ TalkInv => LedgerMatchesTranscript
    <2> SUFFICES ASSUME TInv, TalkInv, NEW c \in Writes
                 PROVE  Cardinality(Told(c)) = IF ledger[c] \in Decided THEN 1 ELSE 0
      BY DEF LedgerMatchesTranscript, Told
    <2>1. ToldOnce(c)
      BY DEF TalkInv
    <2>2. QED
      BY <2>1, FS_EmptySet, FS_Singleton DEF ToldOnce
  <1>2. TInv /\ LedgerInv /\ [Next]_vars => LedgerInv'
    BY UnlistedStep, OneIsKnown, DecisionsStep DEF LedgerInv
  <1>3. TInv /\ LedgerInv /\ TalkInv /\ [Next]_vars => TalkInv'
    BY TalkStep
  <1>4. QED
    BY <1>1, <1>2, <1>3, InitTInv, InitLedgerInv, InitTalkInv, TInvStep, PTL DEF Spec

(* When decisions do overlap the model may be told twice, but it is told.  *)

ToldDecided == \A c \in Writes : Told(c) # {} <=> ledger[c] \in Decided

LEMMA ToldStep ==
    ASSUME TInv, Unlisted, Known, AnswersCommitted, ToldDecided, [Next]_vars
    PROVE  AnswersCommitted' /\ ToldDecided'
  <1>t. TypeOK
    BY DEF TInv
  <1>w. Writes \subseteq Calls
    BY ChatAssumption
  <1>q. ASSUME AnswersCommitted', \A c \in Writes : Told(c)' = Told(c),
               \A c \in Writes : (ledger'[c] \in Decided <=> ledger[c] \in Decided)
        PROVE  AnswersCommitted' /\ ToldDecided'
    BY <1>q DEF ToldDecided
  <1>0. ASSUME UNCHANGED <<log, ledger>>
        PROVE  AnswersCommitted' /\ ToldDecided'
    BY <1>0, <1>q DEF AnswersCommitted, Told
  <1>1. ASSUME NEW r \in Requests, Say(r) \/ Reengage(r) \/ Conclude(r)
        PROVE  AnswersCommitted' /\ ToldDecided'
    <2>1. PICK role \in {"user", "assistant"} :
              log' = Append(log, Entry(role, {}, Stored)) /\ UNCHANGED ledger
      BY <1>1 DEF Say, Reengage, Conclude
    <2>2. Entry(role, {}, Stored) \in Message /\ Entry(role, {}, Stored).role # "tool"
      BY EntryType DEF Entry
    <2>3. AnswersCommitted' /\ \A c \in Writes : Told(c)' = Told(c)
      BY <2>1, <2>2, TalkAppend
    <2>4. QED
      BY <2>1, <2>3, <1>q
  <1>2. ASSUME NEW r \in Requests,
               Claim(r) \/ Ask(r) \/ CapHit(r)
               \/ (\E c \in Calls, decision \in {"approve", "reject"} : Open(r, c, decision))
               \/ (\E outcome \in Outcomes : RunTool(r, outcome))
        PROVE  AnswersCommitted' /\ ToldDecided'
    BY <1>0, <1>2 DEF Claim, Ask, CapHit, Open, RunTool
  <1>3. ASSUME NEW r \in Requests, RecordRun(r) \/ Reject(r)
        PROVE  AnswersCommitted' /\ ToldDecided'
    <2> DEFINE e == Entry("tool", {cur[r]}, Stored)
    <2>1. /\ cur[r] \in Calls /\ ledger'[cur[r]] \in Decided
          /\ \A c \in Calls \ {cur[r]} : ledger'[c] = ledger[c]
          /\ log' = Append(log, e)
      BY <1>3, <1>t DEF RecordRun, Reject, Decided, TypeOK
    <2>2. e \in Message
      BY <2>1, EntryType
    <2>3. /\ DOMAIN log' = DOMAIN log \cup {Len(log) + 1}
          /\ \A i \in DOMAIN log : log'[i] = log[i]
          /\ log'[Len(log) + 1] = e
      BY <1>t, <2>1, <2>2, AppendLog DEF TypeOK
    <2>4. AnswersCommitted'
      BY <2>3 DEF AnswersCommitted, Entry
    <2>5. ASSUME NEW c \in Writes
          PROVE  Told(c)' # {} <=> ledger'[c] \in Decided
      <3>1. CASE c = cur[r]
        <4>1. Len(log) + 1 \in Told(c)'
          BY <2>3, <3>1 DEF Told
        <4>2. QED
          BY <2>1, <3>1, <4>1
      <3>2. CASE c # cur[r]
        <4>1. e # Entry("tool", {c}, Stored)
          BY <3>2 DEF Entry
        <4>2. Told(c)' = Told(c)
          BY <2>3, <4>1 DEF Told
        <4>3. QED
          BY <1>w, <2>1, <3>2, <4>2 DEF ToldDecided
      <3>3. QED
        BY <3>1, <3>2
    <2>6. QED
      BY <2>4, <2>5 DEF ToldDecided
  <1>4. ASSUME NEW r \in Requests, NEW C \in SUBSET Calls, Answer(r, C)
        PROVE  AnswersCommitted' /\ ToldDecided'
    <2>1. log' = Append(log, Entry("assistant", C, r)) /\ UNCHANGED ledger
      BY <1>4 DEF Answer
    <2>2. Entry("assistant", C, r) \in Message /\ Entry("assistant", C, r).role # "tool"
      BY EntryType DEF Entry
    <2>3. AnswersCommitted' /\ \A c \in Writes : Told(c)' = Told(c)
      BY <2>1, <2>2, TalkAppend
    <2>4. QED
      BY <2>1, <2>3, <1>q
  <1>5. ASSUME NEW r \in Requests, NEW d \in Calls, RunRead(r, d)
        PROVE  AnswersCommitted' /\ ToldDecided'
    <2>1. d \notin Writes
      BY <1>5 DEF RunRead, TInv, TodoReads
    <2>2. log' = Append(log, Entry("tool", {d}, r)) /\ UNCHANGED ledger
      BY <1>5 DEF RunRead
    <2>3. /\ Entry("tool", {d}, r) \in Message
          /\ \A c \in Writes : Entry("tool", {d}, r).calls # {c}
      BY <2>1, EntryType DEF Entry
    <2>4. AnswersCommitted' /\ \A c \in Writes : Told(c)' = Told(c)
      BY <2>2, <2>3, TalkAppend
    <2>5. QED
      BY <2>2, <2>4, <1>q
  <1>6. ASSUME NEW r \in Requests, CommitPass(r)
        PROVE  AnswersCommitted' /\ ToldDecided'
    <2>1. AnswersCommitted' /\ \A c \in Writes : Told(c)' = Told(c)
      BY <1>6, TalkSettle DEF CommitPass
    <2>2. \A c \in Calls : c \notin CallsOf(r) => ledger'[c] = ledger[c]
      BY <1>6, <1>t, FlushedCalls DEF CommitPass
    <2>3. \A c \in Writes : c \in CallsOf(r) => ledger'[c] = "pending" /\ ledger[c] = "absent"
      BY <1>6, <1>t, <1>w, FlushedCalls, RequiresWrite DEF CommitPass, Unlisted
    <2>4. \A c \in Writes : (ledger'[c] \in Decided <=> ledger[c] \in Decided)
      BY <1>w, <2>2, <2>3 DEF Decided, Outcomes
    <2>5. QED
      BY <2>1, <2>4, <1>q
  <1>7. ASSUME NEW r \in Requests, Crash(r)
        PROVE  AnswersCommitted' /\ ToldDecided'
    <2>1. AnswersCommitted' /\ \A c \in Writes : Told(c)' = Told(c)
      BY <1>7, TalkSettle DEF Crash
    <2>2. QED
      BY <1>7, <2>1, <1>q DEF Crash
  <1>8. CASE UNCHANGED vars
    BY <1>0, <1>8 DEF vars
  <1>9. QED
    BY <1>1, <1>2, <1>3, <1>4, <1>5, <1>6, <1>7, <1>8 DEF Next, RequestNext

(* In any deployment the model is told of every decision that is on the    *)
(* ledger, and of none that is not, whatever overlaps and crashes.         *)
THEOREM ModelIsToldAnyway == Spec => []ToldDecided
  <1>1. Init => Unlisted /\ Known /\ AnswersCommitted /\ ToldDecided
    <2>1. Init => Unlisted /\ Known
      BY InitLedgerInv, OneIsKnown DEF LedgerInv
    <2>2. Init => AnswersCommitted /\ ToldDecided
      BY ChatAssumption DEF Init, AnswersCommitted, ToldDecided, Told, Decided, Outcomes
    <2>3. QED
      BY <2>1, <2>2
  <1>2. QED
    BY <1>1, InitTInv, TInvStep, UnlistedStep, KnownStep, ToldStep, PTL DEF Spec

-----------------------------------------------------------------------------
(* The refinement.  A step of a request touches at most one action, or it  *)
(* puts actions nobody has seen yet on the ledger.                         *)

Running == {"approve", "claimed", "ran"}

(* What r does not decide, before or after its step, stays where it is.    *)
LEMMA StageFrame ==
    ASSUME NEW r \in Requests, NEW c \in Calls, ledger'[c] = ledger[c],
           \A s \in Requests \ {r} : at'[s] = at[s] /\ cur'[s] = cur[s],
           at[r] \in Running => cur[r] # c,
           at'[r] \in Running => cur'[r] # c
    PROVE  Stage(c)' = Stage(c)
  BY DEF Stage, Held, Running

(* Whoever decides an action is the only one who does.                     *)
LEMMA StageSole ==
    ASSUME OneAtATime, NEW r \in Requests, at[r] \in Deciding, NEW c \in Calls, c = cur[r]
    PROVE  Stage(c) = IF at[r] = "ran" THEN "ran"
                      ELSE IF at[r] = "reject" THEN "offered" ELSE "approved"
  <1>1. ledger[c] = "pending"
    BY DEF OneAtATime
  <1>2. \A s \in Requests : at[s] \in Deciding /\ cur[s] = c => s = r
    BY DEF OneAtATime
  <1>3. Held(c, {"ran"}) <=> at[r] = "ran"
    BY <1>2 DEF Held, Deciding
  <1>4. Held(c, {"approve", "claimed"}) <=> at[r] \in {"approve", "claimed"}
    BY <1>2 DEF Held, Deciding
  <1>5. QED
    BY <1>1, <1>3, <1>4 DEF Stage, Deciding

LEMMA StageFree ==
    ASSUME NEW c \in Calls, ledger[c] = "pending",
           \A s \in Requests : at[s] \in Deciding => cur[s] # c
    PROVE  Stage(c) = "offered"
  BY DEF Stage, Held, Deciding

LEMMA OneMoves ==
    ASSUME NEW c \in Writes, \A d \in Writes \ {c} : Stage(d)' = Stage(d)
    PROVE  Promise!Moves(c, Stage(c), Stage(c)')
  BY DEF Promise!Moves

(* A step of r in which no action moves.                                   *)
LEMMA StutterStep ==
    ASSUME \A d \in Writes : Stage(d)' = Stage(d) /\ runs'[d] = runs[d],
           crashes' = crashes
    PROVE  UNCHANGED Promise!lifecycleVars
  BY DEF Promise!lifecycleVars

LEMMA QuietStutters ==
    ASSUME TInv, NEW r \in Requests, UNCHANGED <<ledger, cur, runs, crashes>>,
           at[r] \notin Deciding, at'[r] \notin Deciding,
           \A s \in Requests \ {r} : at'[s] = at[s]
    PROVE  UNCHANGED Promise!lifecycleVars
  <1>1. at[r] \notin Running /\ at'[r] \notin Running
    BY DEF Running, Deciding
  <1>2. \A d \in Writes : Stage(d)' = Stage(d)
    BY <1>1, StageFrame, ChatAssumption
  <1>3. QED
    BY <1>2, StutterStep

LEMMA OpenRefines ==
    ASSUME TInv, LedgerInv, OneTab, NEW r \in Requests, NEW c \in Calls,
           NEW decision \in {"approve", "reject"}, Open(r, c, decision)
    PROVE  [Promise!LifecycleNext]_(Promise!lifecycleVars)
  <1>1. /\ at[r] = "idle" /\ at'[r] = decision /\ cur'[r] = c
        /\ \A s \in Requests \ {r} : at'[s] = at[s] /\ cur'[s] = cur[s]
        /\ UNCHANGED <<ledger, runs, crashes>>
        /\ ledger[c] = "pending"
        /\ \A s \in Requests : at[s] \in Deciding => cur[s] # c
    BY DEF Open, Goto, TInv, TypeOK
  <1>2. Stage(c) = "offered"
    BY <1>1, StageFree
  <1>3. \A d \in Writes \ {c} : Stage(d)' = Stage(d)
    BY <1>1, StageFrame, ChatAssumption DEF Running
  <1>4. CASE decision = "reject" \/ c \notin Writes
    <2>1. c \in Writes => Stage(c)' = Stage(c)
      BY <1>1, <1>4, StageFrame DEF Running
    <2>2. QED
      BY <1>1, <1>3, <2>1, StutterStep
  <1>5. CASE decision = "approve" /\ c \in Writes
    <2>1. Stage(c)' = "approved"
      BY <1>1, <1>5 DEF Stage, Held, Deciding
    <2>2. Promise!Moves(c, "offered", "approved")
      BY <1>2, <1>3, <1>5, <2>1, OneMoves
    <2>3. Promise!Approve(c)
      BY <1>1, <2>2 DEF Promise!Approve
    <2>4. QED
      BY <1>5, <2>3 DEF Promise!LifecycleNext
  <1>6. QED
    BY <1>4, <1>5

(* A decision of r goes on, or ends.                                       *)
LEMMA DecisionFrame ==
    ASSUME TInv, NEW r \in Requests, NEW c \in Calls, c = cur[r], UNCHANGED cur,
           \A d \in Calls \ {c} : ledger'[d] = ledger[d],
           \A s \in Requests \ {r} : at'[s] = at[s]
    PROVE  \A d \in Writes \ {c} : Stage(d)' = Stage(d)
  BY StageFrame, ChatAssumption

LEMMA ClaimRefines ==
    ASSUME TInv, LedgerInv, OneAtATime', NEW r \in Requests, Claim(r),
           NEW c \in Calls, c = cur[r]
    PROVE  UNCHANGED Promise!lifecycleVars
  <1>1. /\ at[r] = "approve" /\ at'[r] = "claimed"
        /\ \A s \in Requests \ {r} : at'[s] = at[s]
        /\ UNCHANGED <<ledger, cur, runs, crashes>>
    BY DEF Claim, Goto, TInv, TypeOK
  <1>2. Stage(c)' = Stage(c)
    BY <1>1 DEF Stage, Held
  <1>3. \A d \in Writes \ {c} : Stage(d)' = Stage(d)
    BY <1>1, DecisionFrame
  <1>4. QED
    BY <1>1, <1>2, <1>3, StutterStep

LEMMA RunRefines ==
    ASSUME TInv, LedgerInv, OneAtATime', NEW r \in Requests, NEW outcome \in Outcomes,
           RunTool(r, outcome), NEW c \in Calls, c = cur[r]
    PROVE  [Promise!LifecycleNext]_(Promise!lifecycleVars)
  <1>1. /\ at[r] = "claimed" /\ at'[r] = "ran"
        /\ \A s \in Requests \ {r} : at'[s] = at[s]
        /\ UNCHANGED <<ledger, cur, crashes>>
        /\ runs' = [runs EXCEPT ![c] = @ + 1]
        /\ c \in Calls /\ runs \in [Calls -> Nat]
    BY DEF RunTool, Goto, TInv, TypeOK
  <1>2. Stage(c) = "approved"
    BY <1>1, StageSole DEF LedgerInv, Deciding
  <1>3. \A d \in Writes \ {c} : Stage(d)' = Stage(d)
    BY <1>1, DecisionFrame
  <1>4. ledger[c] = "pending"
    BY <1>1 DEF LedgerInv, OneAtATime, Deciding
  <1>5. Stage(c)' = "ran"
    BY <1>1, <1>4 DEF Stage, Held
  <1>6. CASE c \notin Writes
    <2>1. \A d \in Writes : runs'[d] = runs[d]
      BY <1>1, <1>6, ChatAssumption
    <2>2. QED
      BY <1>1, <1>3, <1>6, <2>1, StutterStep
  <1>7. CASE c \in Writes
    <2>1. Promise!Moves(c, "approved", "ran")
      BY <1>2, <1>3, <1>5, <1>7, OneMoves
    <2>2. [d \in Writes |-> runs'[d]]
             = [[d \in Writes |-> runs[d]] EXCEPT ![c] = @ + 1]
      BY <1>1, <1>7, ChatAssumption
    <2>3. Promise!Run(c)
      BY <1>1, <2>1, <2>2 DEF Promise!Run
    <2>4. QED
      BY <1>7, <2>3 DEF Promise!LifecycleNext
  <1>8. QED
    BY <1>6, <1>7

(* The outcome, or the rejection, goes on record.                          *)
LEMMA RecordRefines ==
    ASSUME TInv, LedgerInv, NEW r \in Requests, RecordRun(r) \/ Reject(r),
           NEW c \in Calls, c = cur[r]
    PROVE  [Promise!LifecycleNext]_(Promise!lifecycleVars)
  <1>0. /\ at \in [Requests -> Deciding \cup {"idle", "unresolved", "turn", "asked",
                                              "refused", "reading"}]
        /\ c \in Calls /\ ledger \in [Calls -> Decided \cup {"absent", "pending"}]
        /\ result[r] \in {"executed", "failed"}
    BY DEF TInv, TypeOK, Outcomes
  <1>1. /\ \A s \in Requests \ {r} : at'[s] = at[s]
        /\ UNCHANGED <<cur, runs, crashes>>
        /\ \A d \in Calls \ {c} : ledger'[d] = ledger[d]
    BY <1>0 DEF RecordRun, Reject, Goto
  <1>2. \A d \in Writes \ {c} : Stage(d)' = Stage(d)
    BY <1>1, DecisionFrame
  <1>3. CASE c \notin Writes
    BY <1>1, <1>2, <1>3, StutterStep
  <1>4. CASE RecordRun(r) /\ c \in Writes
    <2>1. Stage(c) = "ran"
      BY <1>4, StageSole DEF LedgerInv, Deciding, RecordRun
    <2>2. ledger'[c] = result[r]
      BY <1>0, <1>4 DEF RecordRun
    <2>3. Stage(c)' = result[r]
      BY <1>0, <2>2 DEF Stage, Held
    <2>4. Promise!Moves(c, "ran", result[r])
      BY <1>2, <1>4, <2>1, <2>3, OneMoves
    <2>5. Promise!Report(c, result[r])
      BY <1>1, <2>4 DEF Promise!Report
    <2>6. QED
      BY <1>0, <1>4, <2>5 DEF Promise!LifecycleNext
  <1>5. CASE Reject(r) /\ c \in Writes
    <2>1. Stage(c) = "offered"
      BY <1>5, StageSole DEF LedgerInv, Deciding, Reject
    <2>2. ledger'[c] = "rejected"
      BY <1>0, <1>5 DEF Reject
    <2>3. Stage(c)' = "rejected"
      BY <2>2 DEF Stage, Held
    <2>4. Promise!Moves(c, "offered", "rejected")
      BY <1>2, <1>5, <2>1, <2>3, OneMoves
    <2>5. Promise!Refuse(c)
      BY <1>1, <2>4 DEF Promise!Refuse
    <2>6. QED
      BY <1>5, <2>5 DEF Promise!LifecycleNext
  <1>6. QED
    BY <1>3, <1>4, <1>5

(* A commit offers the writes among the calls of a model turn.             *)
LEMMA CommitRefines ==
    ASSUME TInv, LedgerInv, NEW r \in Requests, CommitPass(r)
    PROVE  [Promise!LifecycleNext]_(Promise!lifecycleVars)
  <1> DEFINE A == CallsOf(r) \cap Writes
  <1>1. /\ at[r] = "reading" /\ at'[r] \in {"idle", "turn"}
        /\ \A s \in Requests \ {r} : at'[s] = at[s]
        /\ UNCHANGED <<cur, runs, crashes>>
    BY DEF CommitPass, EndTurn, Goto, TInv, TypeOK
  <1>2. \A d \in Writes : ledger'[d] = IF d \in A THEN "pending" ELSE ledger[d]
    BY FlushedCalls, RequiresWrite, ChatAssumption DEF CommitPass, TInv
  <1>3. \A d \in A : ledger[d] = "absent"
    BY DEF LedgerInv, Unlisted
  <1>4. ASSUME NEW d \in Writes \ A
        PROVE  Stage(d)' = Stage(d)
    BY <1>1, <1>2, StageFrame, ChatAssumption DEF Running
  <1>5. ASSUME NEW d \in A
        PROVE  Stage(d) = "absent" /\ Stage(d)' = "offered"
    <2>1. Stage(d) = "absent"
      BY <1>3 DEF Stage, Held
    <2>2. \A s \in Requests : at[s] \in Deciding => cur[s] # d
      BY <1>3 DEF LedgerInv, OneAtATime
    <2>3. \A s \in Requests : at'[s] \in Deciding => cur'[s] # d
      BY <1>1, <2>2 DEF Deciding
    <2>4. ledger'[d] = "pending"
      BY <1>2
    <2>5. Stage(d)' = "offered"
      BY <2>3, <2>4 DEF Stage, Held, Deciding
    <2>6. QED
      BY <2>1, <2>5
  <1>6. Promise!Offer(A)
    <2> HIDE DEF A
    <2>1. \A d \in Writes : Stage(d)' = IF d \in A THEN "offered" ELSE Stage(d)
      BY <1>4, <1>5
    <2>2. A \subseteq Writes
      BY DEF A
    <2>3. QED
      BY <1>1, <1>5, <2>1, <2>2 DEF Promise!Offer
  <1>7. QED
    BY <1>6 DEF Promise!LifecycleNext

LEMMA CrashRefines ==
    ASSUME TInv, LedgerInv, OneAtATime', NEW r \in Requests, Crash(r),
           NEW c \in Calls, c = cur[r]
    PROVE  [Promise!LifecycleNext]_(Promise!lifecycleVars)
  <1>1. /\ at'[r] = "idle"
        /\ \A s \in Requests \ {r} : at'[s] = at[s]
        /\ UNCHANGED <<ledger, cur, runs>>
        /\ crashes' = crashes + 1
        /\ c \in Calls
    BY DEF Crash, EndTurn, Goto, TInv, TypeOK
  <1>2. \A d \in Writes \ {c} : Stage(d)' = Stage(d)
    BY <1>1, DecisionFrame
  <1>3. CASE at[r] \in Running /\ c \in Writes
    <2>1. Stage(c) \in {"approved", "ran"}
      BY <1>3, StageSole DEF LedgerInv, Deciding, Running
    <2>2. ledger'[c] = "pending" /\ \A s \in Requests : at'[s] \in Deciding => cur'[s] # c
      BY <1>1, <1>3 DEF LedgerInv, OneAtATime, Deciding, Running
    <2>3. Stage(c)' = "offered"
      BY <2>2 DEF Stage, Held, Deciding
    <2>4. Promise!Moves(c, Stage(c), "offered")
      BY <1>2, <1>3, <2>3, OneMoves
    <2>5. Promise!Forget(c)
      BY <1>1, <2>1, <2>4 DEF Promise!Forget
    <2>6. QED
      BY <1>3, <2>5 DEF Promise!LifecycleNext
  <1>4. CASE ~(at[r] \in Running /\ c \in Writes)
    <2>1. c \in Writes => Stage(c)' = Stage(c)
      BY <1>1, <1>4, StageFrame DEF Running
    <2>2. Promise!Fault
      BY <1>1, <1>2, <2>1 DEF Promise!Fault
    <2>3. QED
      BY <2>2 DEF Promise!LifecycleNext
  <1>5. QED
    BY <1>3, <1>4

LEMMA StepRefines ==
    ASSUME TInv, LedgerInv, OneTab, [Next]_vars
    PROVE  [Promise!LifecycleNext]_(Promise!lifecycleVars)
  <1>p. OneAtATime'
    BY DecisionsStep
  <1>a. at \in [Requests -> Deciding \cup {"idle", "unresolved", "turn", "asked",
                                           "refused", "reading"}]
    BY DEF TInv, TypeOK
  <1>0. CASE UNCHANGED vars
    <2>1. \A d \in Writes : Stage(d)' = Stage(d) /\ runs'[d] = runs[d]
      BY <1>0 DEF vars, requestVars, Stage, Held
    <2>2. QED
      BY <1>0, <2>1, StutterStep DEF vars
  <1>1. ASSUME NEW r \in Requests, Say(r) \/ Reengage(r) \/ Ask(r)
        PROVE  UNCHANGED Promise!lifecycleVars
    BY <1>1, <1>a, QuietStutters DEF Say, Reengage, Ask, Goto, Deciding
  <1>2. ASSUME NEW r \in Requests, CapHit(r) \/ Conclude(r)
        PROVE  UNCHANGED Promise!lifecycleVars
    BY <1>2, <1>a, QuietStutters DEF CapHit, Conclude, EndTurn, Goto, Deciding
  <1>3. ASSUME NEW r \in Requests, NEW C \in SUBSET Calls, Answer(r, C)
        PROVE  UNCHANGED Promise!lifecycleVars
    BY <1>3, <1>a, QuietStutters DEF Answer, Goto, Deciding
  <1>4. ASSUME NEW r \in Requests, NEW c \in Calls, RunRead(r, c)
        PROVE  UNCHANGED Promise!lifecycleVars
    <2>1. c \notin Writes
      BY <1>4 DEF RunRead, TInv, TodoReads
    <2>2. /\ UNCHANGED <<ledger, at, cur, crashes>>
          /\ \A d \in Writes : runs'[d] = runs[d]
      BY <1>4, <2>1, ChatAssumption DEF RunRead, TInv, TypeOK
    <2>3. \A d \in Writes : Stage(d)' = Stage(d)
      BY <2>2 DEF Stage, Held
    <2>4. QED
      BY <2>2, <2>3, StutterStep
  <1>5. ASSUME NEW r \in Requests,
               \/ Claim(r) \/ RecordRun(r) \/ Reject(r) \/ Crash(r)
               \/ \E outcome \in Outcomes : RunTool(r, outcome)
        PROVE  [Promise!LifecycleNext]_(Promise!lifecycleVars)
    <2>1. PICK c \in Calls : c = cur[r]
      BY DEF TInv, TypeOK
    <2>2. QED
      BY <1>p, <1>5, <2>1, ClaimRefines, RunRefines, RecordRefines, CrashRefines
  <1>6. QED
    BY <1>0, <1>1, <1>2, <1>3, <1>4, <1>5, OpenRefines, CommitRefines
       DEF Next, RequestNext

(* If no two decisions on one action are in flight together, the chat      *)
(* keeps the promise of an action's life (ImplementsLifecycle), for any    *)
(* number of calls, requests and crashes: every step of a request is a     *)
(* step of ActionLifecycle or a stutter.                                   *)
THEOREM Implements ==
    ASSUME OneTab
    PROVE  Spec => ImplementsLifecycle
  <1>1. Init => Promise!LifecycleInit
    <2> SUFFICES ASSUME Init
                 PROVE  Promise!LifecycleInit
      OBVIOUS
    <2>1. \A c \in Writes : Stage(c) = "absent" /\ runs[c] = 0
      BY ChatAssumption DEF Init, Stage, Held
    <2>2. crashes = 0
      BY DEF Init
    <2>3. QED
      BY <2>1, <2>2 DEF Promise!LifecycleInit
  <1>2. TInv /\ LedgerInv /\ [Next]_vars => LedgerInv'
    BY UnlistedStep, OneIsKnown, DecisionsStep DEF LedgerInv
  <1>3. TInv /\ LedgerInv /\ [Next]_vars
            => [Promise!LifecycleNext]_(Promise!lifecycleVars)
    BY StepRefines
  <1>4. QED
    BY <1>1, <1>2, <1>3, InitTInv, InitLedgerInv, TInvStep, PTL
       DEF Spec, ImplementsLifecycle, Promise!Lifecycle
=============================================================================
