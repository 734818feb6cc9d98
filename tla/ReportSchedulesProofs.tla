------------------------ MODULE ReportSchedulesProofs ------------------------
(* Theorems about ReportSchedules, for any schedules, expressions, horizon *)
(* and number of workers.                                                  *)
EXTENDS ReportSchedules, FiniteSetTheorems, TLAPS

USE ScheduleAssumption

(* compute_next_run finds a minute after the one it is given, at which the *)
(* expression fires.                                                       *)
LEMMA NextRunFound ==
    ASSUME NEW c, NEW t, NextRun(c, t) # Never
    PROVE  NextRun(c, t) \in (t + 1) .. (t + Horizon) /\ Fires(c, NextRun(c, t))
  BY DEF NextRun, Found

LEMMA NextRunType ==
    ASSUME NEW c \in Crons, NEW t \in Times \cup {-1}, NextRun(c, t) # Never
    PROVE  NextRun(c, t) \in Slots /\ NextRun(c, t) > t
<1>1. NextRun(c, t) \in (t + 1) .. (t + Horizon)
  BY NextRunFound
<1> HIDE DEF NextRun
<1> QED
  BY <1>1 DEF Slots, Times

LEMMA ScheduledType ==
    ASSUME NEW c \in Crons, NEW t \in Times \cup {-1}, NEW on \in BOOLEAN,
           NEW report \in Reports, NextRun(c, t) # Never
    PROVE  Scheduled(c, t, on, report) \in RowType
  BY NextRunType DEF Scheduled, RowType

LEMMA UnbornType == Unborn \in RowType
  BY DEF Unborn, RowType, Slots, Reports

LEMMA UnreadType == Unread \in ReadType
  BY DEF Unread, ReadType, Slots

LEMMA NoLogType == NoLog \in LogType
  BY DEF NoLog, LogType

LEMMA EditType ==
    ASSUME TypeOK, NEW r \in Rows, NEW new \in RowType, Edit(r, new)
    PROVE  /\ row' \in [Rows -> RowType]
           /\ edits' \in 0 .. MaxEdits
           /\ UNCHANGED <<now, tick, faults>>
  BY DEF Edit, TypeOK

LEMMA WrittenType ==
    ASSUME TypeOK, NEW w \in Workers, NEW r \in Rows,
           tick[w].read[r].cron \in Crons
    PROVE  Written(w, r) \in RowType
<1> DEFINE c == tick[w].read[r].cron
           n == NextRun(c, tick[w].start)
<1>1. row[r] \in RowType /\ tick[w].start \in Times
  BY DEF TypeOK
<1>2. CASE n = Never
  BY <1>1, <1>2 DEF Written, RowType
<1>3. CASE n # Never
  <2>1. n \in Slots
    BY <1>1, <1>3, NextRunType
  <2> QED
    BY <1>1, <1>3, <2>1 DEF Written, RowType
<1> QED
  BY <1>2, <1>3

(* A row that exists has an expression, and so has what a tick has read.   *)
Defined ==
    /\ \A r \in Rows : Live(r) => row[r].cron \in Crons
    /\ \A w \in Workers : \A r \in tick[w].todo \cup tick[w].done :
          row[r].state # "unborn" /\ tick[w].read[r].cron \in Crons
    /\ \A w \in Workers : tick[w].given \subseteq tick[w].done

Ticks == [at: {"idle", "running"}, start: Times, todo: SUBSET Rows,
          done: SUBSET Rows, given: SUBSET Rows, read: [Rows -> ReadType],
          broken: BOOLEAN]

LEMMA IdleType == Idle \in Ticks
  BY UnreadType DEF Idle, Ticks, Times

LEMMA ExcuseType ==
    ASSUME TypeOK, NEW rs,
           log' = Logged(rs, LAMBDA l : [l EXCEPT !.excuses = @ + 1])
    PROVE  log' \in [Rows -> LogType]
<1>1. log' = [r \in Rows |-> IF r \in rs THEN [log[r] EXCEPT !.excuses = @ + 1]
                             ELSE log[r]]
  BY DEF Logged
<1>2. \A r \in Rows : [log[r] EXCEPT !.excuses = @ + 1] \in LogType
  BY DEF TypeOK, LogType
<1> QED
  BY <1>1, <1>2 DEF TypeOK

(* Finitely many ticks have a row at any time.                             *)
FewHold == \A r \in Rows : IsFiniteSet(Holding(r))

LEMMA TypeInit == Init => TypeOK /\ Defined
<1> SUFFICES ASSUME Init
             PROVE  TypeOK /\ Defined
  OBVIOUS
<1>1. PICK c \in Crons :
          /\ NextRun(c, -1) # Never
          /\ row = [r \in Rows |-> IF r \in First THEN Scheduled(c, -1, TRUE, "sound")
                                   ELSE Unborn]
  BY DEF Init
<1>2. Scheduled(c, -1, TRUE, "sound") \in RowType
  BY <1>1, ScheduledType DEF Reports
<1>3. row \in [Rows -> RowType]
  BY <1>1, <1>2, UnbornType
<1>4. \A r \in Rows : Live(r) => row[r].cron \in Crons
  BY <1>1 DEF Scheduled, Unborn, Live
<1>5. tick \in [Workers -> Ticks]
  BY IdleType DEF Init
<1>6. log \in [Rows -> LogType]
  BY NoLogType DEF Init
<1>0. now = 0 /\ edits = 0 /\ faults = 0
  BY DEF Init
<1>7. TypeOK
  BY <1>0, <1>3, <1>5, <1>6 DEF TypeOK, Times, Ticks
<1>8. Defined
  BY <1>4 DEF Init, Defined, Idle
<1> QED
  BY <1>7, <1>8

LEMMA UserType ==
    ASSUME TypeOK, Defined, FewHold, NEW r \in Rows,
           Create(r) \/ PatchCron(r) \/ Toggle(r) \/ PatchReport(r)
               \/ Delete(r)
    PROVE  TypeOK' /\ Defined'
<1>1. row[r] \in RowType /\ now \in Times
  BY DEF TypeOK
<1>2. CASE Create(r)
  <2>1. PICK c \in Crons, on \in BOOLEAN, report \in {"sound", "failing"} :
            /\ row[r].state = "unborn"
            /\ NextRun(c, now) # Never
            /\ Edit(r, Scheduled(c, now, on, report))
            /\ UNCHANGED log
    BY <1>2 DEF Create
  <2>2. Scheduled(c, now, on, report) \in RowType
    BY <1>1, <2>1, ScheduledType DEF Reports
  <2>3. TypeOK'
    BY <2>1, <2>2, EditType DEF TypeOK
  <2>4. Defined'
    BY <2>1, <2>2 DEF Defined, Edit, Scheduled, Live, TypeOK
  <2> QED
    BY <2>3, <2>4
<1>3. CASE PatchCron(r)
  <2>1. PICK c \in Crons \ {row[r].cron} :
            /\ Live(r)
            /\ NextRun(c, now) # Never
            /\ Edit(r, [row[r] EXCEPT !.cron = c, !.next = NextRun(c, now)])
            /\ Raced(r)
    BY <1>3 DEF PatchCron
  <2>2. [row[r] EXCEPT !.cron = c, !.next = NextRun(c, now)] \in RowType
    BY <1>1, <2>1, NextRunType DEF RowType
  <2>3. log' \in [Rows -> LogType]
    <3>1. Cardinality(Holding(r)) \in Nat
      BY FS_CardinalityType DEF FewHold
    <3>2. [log[r] EXCEPT !.races = @ + Cardinality(Holding(r))] \in LogType
      BY <3>1 DEF TypeOK, LogType
    <3>3. log' = [log EXCEPT ![r] = [log[r] EXCEPT
                                        !.races = @ + Cardinality(Holding(r))]]
      BY <2>1 DEF Raced
    <3> QED
      BY <3>2, <3>3 DEF TypeOK
  <2>4. TypeOK'
    BY <2>1, <2>2, <2>3, EditType DEF TypeOK
  <2>5. Defined'
    BY <1>1, <2>1, <2>2 DEF Defined, Edit, Live, TypeOK, RowType
  <2> QED
    BY <2>4, <2>5
<1>4. CASE Toggle(r)
  <2>1. [row[r] EXCEPT !.enabled = ~@] \in RowType
    BY <1>1 DEF RowType
  <2> QED
    BY <1>1, <1>4, <2>1, EditType DEF Toggle, TypeOK, Defined, Edit, Live, RowType
<1>5. CASE PatchReport(r)
  <2>1. PICK report \in {"sound", "failing"} :
            /\ Edit(r, [row[r] EXCEPT !.report = report])
            /\ UNCHANGED log
    BY <1>5 DEF PatchReport
  <2>2. [row[r] EXCEPT !.report = report] \in RowType
    BY <1>1 DEF RowType, Reports
  <2> QED
    BY <1>1, <2>1, <2>2, EditType DEF TypeOK, Defined, Edit, Live, RowType
<1>6. CASE Delete(r)
  <2>1. PICK report \in {row[r].report, "gone"} :
            /\ Live(r)
            /\ Edit(r, [Unborn EXCEPT !.state = "deleted", !.report = report])
            /\ UNCHANGED log
    BY <1>6 DEF Delete
  <2> DEFINE gone == [Unborn EXCEPT !.state = "deleted", !.report = report]
  <2>2. gone \in RowType /\ gone.state = "deleted"
    BY <1>1, UnbornType DEF RowType, Unborn, Reports
  <2>3. TypeOK'
    BY <2>1, <2>2, EditType DEF TypeOK
  <2>4. row' = [row EXCEPT ![r] = gone] /\ tick' = tick
    BY <2>1 DEF Edit
  <2> HIDE DEF gone
  <2>5. Defined'
    BY <2>2, <2>4 DEF Defined, Live, TypeOK
  <2> QED
    BY <2>3, <2>5
<1> QED
  BY <1>2, <1>3, <1>4, <1>5, <1>6

LEMMA CostsType ==
    ASSUME TypeOK, NEW bounded, Costs(bounded)
    PROVE  faults' \in 0 .. MaxFaults
  BY DEF Costs, TypeOK

LEMMA TickType ==
    ASSUME TypeOK, Defined, NEW w \in Workers,
           \/ Select(w) \/ Commit(w) \/ CommitRaises(w) \/ Crash(w)
           \/ \E r \in Rows : Deliver(w, r) \/ Fail(w, r) \/ FailInDatabase(w, r)
    PROVE  TypeOK' /\ Defined'
<1>1. \A v \in Workers : tick[v] \in Ticks
  BY DEF TypeOK, Ticks
<1>2. ASSUME NEW new \in Ticks, tick' = [tick EXCEPT ![w] = new]
      PROVE  tick' \in [Workers -> Ticks]
  BY <1>2 DEF TypeOK, Ticks
<1>3. CASE Select(w)
  <2>1. log' \in [Rows -> LogType]
    BY <1>3, ExcuseType DEF Select
  <2>2. Due \subseteq Rows /\ \A r \in Due : row[r].state = "live"
    BY DEF Due, Live
  <2>3. [r \in Rows |-> IF r \in Due
             THEN [cron |-> row[r].cron, next |-> row[r].next]
             ELSE Unread] \in [Rows -> ReadType]
    BY UnreadType DEF TypeOK, RowType, ReadType
  <2>4. faults' \in 0 .. MaxFaults
    BY <1>3, CostsType DEF Select
  <2>5. TypeOK'
    BY <1>3, <2>1, <2>2, <2>3, <2>4 DEF Select, TypeOK
  <2>6. Defined'
    BY <1>1, <1>3, <2>2 DEF Select, TypeOK, Defined, Live
  <2> QED
    BY <2>5, <2>6
<1>4. CASE Commit(w)
  <2>1. row' \in [Rows -> RowType]
    BY <1>4, WrittenType DEF Commit, Defined, TypeOK
  <2>2. \A r \in Rows : row'[r].state = row[r].state /\ row'[r].cron = row[r].cron
    BY <1>4 DEF Commit, Written, TypeOK, RowType
  <2>3. log' \in [Rows -> LogType]
    BY <1>4, ExcuseType DEF Commit
  <2>4. TypeOK'
    BY <1>2, <1>4, IdleType, <2>1, <2>3 DEF Commit, TypeOK, Ticks
  <2>5. Defined'
    BY <1>4, <2>2 DEF Commit, TypeOK, Defined, Idle, Live
  <2> QED
    BY <2>4, <2>5
<1>5. CASE CommitRaises(w) \/ Crash(w)
  <2>1. Lose(w) /\ faults' \in 0 .. MaxFaults
    BY <1>5 DEF CommitRaises, Crash, TypeOK
  <2>2. log' \in [Rows -> LogType]
    BY <2>1, ExcuseType DEF Lose
  <2>3. TypeOK'
    BY <1>2, <2>1, <2>2, IdleType DEF Lose, TypeOK, Ticks
  <2>4. Defined'
    BY <2>1 DEF Lose, TypeOK, Defined, Idle, Live
  <2> QED
    BY <2>3, <2>4
<1>6. ASSUME NEW r \in Rows, Deliver(w, r)
      PROVE  TypeOK' /\ Defined'
  <2> DEFINE new == [tick[w] EXCEPT !.todo = @ \ {r}, !.done = @ \cup {r},
                                    !.given = @ \cup {r}]
             slot  == tick[w].read[r].next
             stray == IF Fires(tick[w].read[r].cron, slot) THEN 0 ELSE 1
  <2>1. new \in Ticks
    BY <1>1, <1>6 DEF Ticks
  <2>2. tick' = [tick EXCEPT ![w] = new] /\ r \in tick[w].todo
    BY <1>6 DEF Deliver
  <2>3. log' = [log EXCEPT ![r] = [log[r] EXCEPT !.sent[slot] = @ + 1,
                                                 !.strays = @ + stray]]
    BY <1>6 DEF Deliver, TypeOK, LogType
  <2>4. [log[r] EXCEPT !.sent[slot] = @ + 1, !.strays = @ + stray] \in LogType
    <3>1. log[r].sent \in [Slots -> Nat] /\ log[r].strays \in Nat
      BY DEF TypeOK, LogType
    <3> slot \in Slots
      BY <1>1 DEF Ticks, ReadType
    <3>2. [log[r].sent EXCEPT ![slot] = @ + 1] \in [Slots -> Nat]
      BY <3>1
    <3>3. log[r].strays + stray \in Nat
      BY <3>1
    <3>4. log[r] \in LogType
      BY DEF TypeOK
    <3> DEFINE sent == [log[r].sent EXCEPT ![slot] = @ + 1]
               strays == log[r].strays + stray
    <3>5. [log[r] EXCEPT !.sent[slot] = @ + 1, !.strays = @ + stray]
              = [log[r] EXCEPT !.sent = sent, !.strays = strays]
      BY Zenon
    <3>6. sent \in [Slots -> Nat] /\ strays \in Nat
      BY <3>2, <3>3
    <3> HIDE DEF sent, strays
    <3>7. [log[r] EXCEPT !.sent = sent, !.strays = strays] \in LogType
      BY <3>4, <3>6 DEF LogType
    <3> QED
      BY <3>5, <3>7
  <2>5. log' \in [Rows -> LogType]
    BY <2>3, <2>4 DEF TypeOK
  <2>6. faults' \in 0 .. MaxFaults
    BY <1>6, CostsType DEF Deliver
  <2>7. TypeOK'
    BY <1>2, <1>6, <2>1, <2>2, <2>5, <2>6 DEF Deliver, TypeOK, Ticks
  <2>8. Defined'
    <3>1. /\ new.todo \cup new.done = tick[w].todo \cup tick[w].done
          /\ new.given \subseteq new.done
          /\ new.read = tick[w].read
      BY <1>1, <2>2 DEF Ticks, Defined
    <3>2. UNCHANGED row
      BY <1>6 DEF Deliver
    <3> HIDE DEF new
    <3> QED
      BY <2>2, <3>1, <3>2 DEF TypeOK, Defined, Live
  <2> QED
    BY <2>7, <2>8
<1>7. ASSUME NEW r \in Rows, Fail(w, r) \/ FailInDatabase(w, r)
      PROVE  TypeOK' /\ Defined'
  <2>1. PICK b \in BOOLEAN :
            tick' = [tick EXCEPT ![w] = [tick[w] EXCEPT
                        !.todo = @ \ {r}, !.done = @ \cup {r}, !.broken = b]]
    <3>1. CASE Fail(w, r)
      <4>1. tick[w].broken \in BOOLEAN
        BY <1>1 DEF Ticks
      <4>2. tick' = [tick EXCEPT ![w] = [tick[w] EXCEPT
                        !.todo = @ \ {r}, !.done = @ \cup {r}]]
        BY <3>1 DEF Fail
      <4>3. [tick[w] EXCEPT !.todo = @ \ {r}, !.done = @ \cup {r},
                            !.broken = tick[w].broken]
              = [tick[w] EXCEPT !.todo = @ \ {r}, !.done = @ \cup {r}]
        BY <1>1 DEF Ticks
      <4> QED
        BY <4>1, <4>2, <4>3
    <3>2. CASE FailInDatabase(w, r)
      BY <3>2 DEF FailInDatabase
    <3> QED
      BY <1>7, <3>1, <3>2
  <2> DEFINE new == [tick[w] EXCEPT !.todo = @ \ {r}, !.done = @ \cup {r},
                                    !.broken = b]
  <2>2. new \in Ticks
    BY <1>1 DEF Ticks
  <2>3. /\ r \in tick[w].todo
        /\ UNCHANGED <<now, row, log, edits>>
        /\ faults' \in 0 .. MaxFaults
    <3>1. CASE Fail(w, r)
      BY <3>1 DEF Fail, TypeOK
    <3>2. CASE FailInDatabase(w, r)
      <4>1. faults' \in 0 .. MaxFaults
        BY <3>2, CostsType DEF FailInDatabase
      <4> QED
        BY <3>2, <4>1 DEF FailInDatabase
    <3> QED
      BY <1>7, <3>1, <3>2
  <2>4. tick' \in [Workers -> Ticks]
    BY <1>2, <2>1, <2>2
  <2>5. TypeOK'
    BY <2>3, <2>4 DEF TypeOK, Ticks
  <2>6. Defined'
    BY <1>1, <2>1, <2>3 DEF TypeOK, Defined, Ticks, Live
  <2> QED
    BY <2>5, <2>6
<1> QED
  BY <1>3, <1>4, <1>5, <1>6, <1>7

LEMMA FewHoldStep == TypeOK /\ FewHold /\ [Next]_vars => FewHold'
<1> SUFFICES ASSUME TypeOK, FewHold, [Next]_vars, NEW r \in Rows
             PROVE  IsFiniteSet(Holding(r)')
  BY DEF FewHold
<1>1. CASE UNCHANGED tick
  BY <1>1 DEF FewHold, Holding
<1>2. ASSUME NEW w \in Workers, \A v \in Workers \ {w} : tick'[v] = tick[v]
      PROVE  IsFiniteSet(Holding(r)')
  <2>1. Holding(r)' \in SUBSET (Holding(r) \cup {w})
    BY <1>2 DEF Holding
  <2>2. IsFiniteSet(Holding(r) \cup {w})
    BY FS_AddElement DEF FewHold
  <2> QED
    BY <2>1, <2>2, FS_Subset
<1>3. ASSUME NEW w \in Workers,
             \/ Select(w) \/ Commit(w) \/ CommitRaises(w) \/ Crash(w)
             \/ \E q \in Rows : Deliver(w, q) \/ Fail(w, q) \/ FailInDatabase(w, q)
      PROVE  \A v \in Workers \ {w} : tick'[v] = tick[v]
  BY <1>3 DEF Select, Commit, CommitRaises, Crash, Lose, Deliver, Fail,
              FailInDatabase, TypeOK
<1>4. ASSUME NEW q \in Rows, Create(q) \/ PatchCron(q) \/ Toggle(q) \/ PatchReport(q)
               \/ Delete(q)
      PROVE  UNCHANGED tick
  BY <1>4 DEF Create, PatchCron, Toggle, PatchReport, Delete, Edit
<1> QED
  BY <1>1, <1>2, <1>3, <1>4 DEF Next, vars, Clock

LEMMA TypeStep ==
    TypeOK /\ Defined /\ FewHold /\ [Next]_vars => TypeOK' /\ Defined' /\ FewHold'
<1> SUFFICES ASSUME TypeOK, Defined, FewHold, [Next]_vars
             PROVE  TypeOK' /\ Defined'
  BY FewHoldStep
<1>1. CASE UNCHANGED vars
  BY <1>1 DEF vars, TypeOK, Defined, Live
<1>2. CASE Clock
  BY <1>2 DEF Clock, TypeOK, Defined, Live, Times
<1> QED
  BY <1>1, <1>2, UserType, TickType DEF Next

LEMMA FewHoldInit == Init => FewHold
<1>1. Init => \A r \in Rows : Holding(r) = {}
  BY DEF Init, Holding, Idle
<1> QED
  BY <1>1, FS_EmptySet DEF FewHold

(* Types of every variable, for any number of schedules and workers.       *)
THEOREM ScheduleTypes == Spec => []TypeOK
<1>1. Init => TypeOK /\ Defined /\ FewHold
  BY TypeInit, FewHoldInit
<1>2. TypeOK /\ Defined /\ FewHold /\ [Next]_vars => TypeOK' /\ Defined' /\ FewHold'
  BY TypeStep
<1> QED
  BY <1>1, <1>2, PTL DEF Spec

-----------------------------------------------------------------------------
(* A worker that has no tick holds nothing, and a row is either still to   *)
(* do or done.                                                             *)
Tidy == \A w \in Workers :
    /\ tick[w].todo \cap tick[w].done = {}
    /\ tick[w].given \subseteq tick[w].done
    /\ tick[w].at = "idle" => tick[w].todo = {} /\ tick[w].done = {}

LEMMA TidyStep == TypeOK /\ Tidy /\ [Next]_vars => Tidy'
<1> SUFFICES ASSUME TypeOK, Tidy, [Next]_vars
             PROVE  Tidy'
  OBVIOUS
<1>1. \A v \in Workers : tick[v] \in Ticks
  BY DEF TypeOK, Ticks
<1>2. ASSUME UNCHANGED tick
      PROVE  Tidy'
  BY <1>2 DEF Tidy
<1>3. ASSUME NEW w \in Workers, Select(w)
      PROVE  Tidy'
  BY <1>1, <1>3 DEF Select, Tidy, TypeOK
<1>4. ASSUME NEW w \in Workers, tick' = [tick EXCEPT ![w] = Idle]
      PROVE  Tidy'
  BY <1>4 DEF Tidy, Idle, TypeOK
<1>5. ASSUME NEW w \in Workers, NEW r \in Rows,
             Deliver(w, r) \/ Fail(w, r) \/ FailInDatabase(w, r)
      PROVE  Tidy'
  <2>1. /\ r \in tick[w].todo
        /\ tick'[w].todo = tick[w].todo \ {r}
        /\ tick'[w].done = tick[w].done \cup {r}
        /\ tick'[w].given \in {tick[w].given, tick[w].given \cup {r}}
        /\ tick'[w].at = tick[w].at
    BY <1>1, <1>5 DEF Deliver, Fail, FailInDatabase, TypeOK, Ticks
  <2>2. \A v \in Workers \ {w} : tick'[v] = tick[v]
    BY <1>5 DEF Deliver, Fail, FailInDatabase, TypeOK
  <2> QED
    BY <2>1, <2>2 DEF Tidy
<1>6. ASSUME NEW w \in Workers, Commit(w) \/ CommitRaises(w) \/ Crash(w)
      PROVE  Tidy'
  BY <1>4, <1>6 DEF Commit, CommitRaises, Crash, Lose
<1>7. ASSUME NEW r \in Rows, Create(r) \/ PatchCron(r) \/ Toggle(r) \/ PatchReport(r)
               \/ Delete(r)
      PROVE  Tidy'
  BY <1>2, <1>7 DEF Create, PatchCron, Toggle, PatchReport, Delete, Edit
<1> QED
  BY <1>2, <1>3, <1>5, <1>6, <1>7 DEF Next, vars, Clock

(* A next run its own expression does not name.                            *)
Wild(x) == ~Fires(x.cron, x.next)

One(b) == IF b THEN 1 ELSE 0

LEMMA ScheduledTame ==
    ASSUME NEW c \in Crons, NEW t \in Times \cup {-1}, NEW on \in BOOLEAN,
           NEW report, NextRun(c, t) # Never
    PROVE  ~Wild(Scheduled(c, t, on, report))
  BY NextRunFound DEF Wild, Scheduled

(* What the loop of a tick, or its end, does to the rows it has.           *)
LEMMA SelectEffect ==
    ASSUME TypeOK, Tidy, NEW w \in Workers, Select(w), NEW r \in Rows
    PROVE  /\ UNCHANGED <<now, row>>
           /\ r \notin Due =>
                 /\ Holding(r)' = Holding(r) /\ log'[r] = log[r]
                 /\ \A v \in Holding(r) : tick'[v] = tick[v]
           /\ r \in Due =>
                 /\ w \notin Holding(r)
                 /\ Holding(r)' = Holding(r) \cup {w}
                 /\ \A v \in Holding(r) : tick'[v] = tick[v]
                 /\ tick'[w].start = now /\ r \notin tick'[w].given
                 /\ tick'[w].read[r] = [cron |-> row[r].cron, next |-> row[r].next]
                 /\ log'[r] = IF Holding(r) = {} THEN log[r]
                              ELSE [log[r] EXCEPT !.excuses = @ + 1]
<1>1. /\ tick[w].todo = {} /\ tick[w].done = {}
      /\ \A v \in Workers \ {w} : tick'[v] = tick[v]
      /\ tick'[w].todo = Due /\ tick'[w].done = {} /\ tick'[w].given = {}
      /\ tick'[w].start = now
      /\ r \in Due => tick'[w].read[r] = [cron |-> row[r].cron, next |-> row[r].next]
      /\ UNCHANGED <<now, row>>
  BY DEF Select, Tidy, TypeOK
<1>2. log' = [u \in Rows |-> IF u \in {v \in Due : Holding(v) # {}}
                             THEN [log[u] EXCEPT !.excuses = @ + 1] ELSE log[u]]
  BY DEF Select, Logged
<1>3. w \notin Holding(r)
  BY <1>1 DEF Holding
<1>4. \A v \in Holding(r) : tick'[v] = tick[v]
  BY <1>1, <1>3 DEF Holding
<1>5. CASE r \notin Due
  <2>1. Holding(r)' = Holding(r)
    BY <1>1, <1>5 DEF Holding
  <2> QED
    BY <1>1, <1>2, <1>4, <1>5, <2>1
<1>6. CASE r \in Due
  <2>1. Holding(r)' = Holding(r) \cup {w}
    BY <1>1, <1>6 DEF Holding
  <2> QED
    BY <1>1, <1>2, <1>3, <1>4, <1>6, <2>1
<1> QED
  BY <1>5, <1>6

LEMMA TreatEffect ==
    ASSUME TypeOK, Tidy, NEW w \in Workers, NEW q \in Rows, NEW r \in Rows,
           Deliver(w, q) \/ Fail(w, q) \/ FailInDatabase(w, q)
    PROVE  /\ UNCHANGED <<now, row>>
           /\ Holding(r)' = Holding(r)
           /\ \A v \in Workers \ {w} : tick'[v] = tick[v]
           /\ tick'[w].read = tick[w].read /\ tick'[w].start = tick[w].start
           /\ \/ tick'[w].given = tick[w].given /\ log' = log
              \/ /\ Deliver(w, q)
                 /\ tick'[w].given = tick[w].given \cup {q}
                 /\ q \notin tick[w].given /\ w \in Holding(q)
<1>1. tick[w] \in Ticks
  BY DEF TypeOK, Ticks
<1>2. /\ q \in tick[w].todo
      /\ tick'[w].todo = tick[w].todo \ {q}
      /\ tick'[w].done = tick[w].done \cup {q}
      /\ tick'[w].read = tick[w].read /\ tick'[w].start = tick[w].start
      /\ \A v \in Workers \ {w} : tick'[v] = tick[v]
      /\ UNCHANGED <<now, row>>
  BY <1>1 DEF Deliver, Fail, FailInDatabase, TypeOK, Ticks
<1>3. Holding(r)' = Holding(r)
  BY <1>2 DEF Holding
<1>4. CASE Deliver(w, q)
  <2>1. tick'[w].given = tick[w].given \cup {q}
    BY <1>1, <1>4 DEF Deliver, TypeOK, Ticks
  <2>2. q \notin tick[w].given /\ w \in Holding(q)
    BY <1>2 DEF Tidy, Holding
  <2> QED
    BY <1>2, <1>3, <1>4, <2>1, <2>2
<1>5. CASE Fail(w, q) \/ FailInDatabase(w, q)
  <2>1. tick'[w].given = tick[w].given /\ log' = log
    BY <1>1, <1>5 DEF Fail, FailInDatabase, TypeOK, Ticks
  <2> QED
    BY <1>2, <1>3, <2>1
<1> QED
  BY <1>4, <1>5

(* The row r after the tick of w: as a commit leaves it, or as it was, and *)
(* then the log says so if r was delivered or switched off.                *)
LEMMA EndEffect ==
    ASSUME TypeOK, Defined, Tidy, NEW w \in Workers, NEW r \in Rows,
           Commit(w) \/ CommitRaises(w) \/ Crash(w)
    PROVE  /\ now' = now
           /\ Holding(r)' = Holding(r) \ {w}
           /\ \A v \in Workers \ {w} : tick'[v] = tick[v]
           /\ row'[r].state = row[r].state /\ row'[r].cron = row[r].cron
           /\ w \notin Holding(r) => row'[r] = row[r] /\ log'[r] = log[r]
           /\ w \in Holding(r) =>
                 \/ log'[r] = [log[r] EXCEPT !.excuses = @ + 1]
                 \/ /\ log'[r] = log[r]
                    /\ row'[r] = row[r] /\ r \notin tick[w].given
                 \/ /\ log'[r] = log[r]
                    /\ Live(r) => LET c == tick[w].read[r].cron
                                      n == NextRun(c, tick[w].start)
                                  IN n # Never /\ row'[r].next = n
<1>1. tick[w] \in Ticks /\ row[r] \in RowType
  BY DEF TypeOK, Ticks
<1>2. tick' = [tick EXCEPT ![w] = Idle] /\ now' = now
  BY DEF Commit, CommitRaises, Crash, Lose
<1>3. /\ Holding(r)' = Holding(r) \ {w}
      /\ \A v \in Workers \ {w} : tick'[v] = tick[v]
  BY <1>2 DEF Holding, Idle, TypeOK
<1>4. CASE Commit(w)
  <2>1. /\ row'[r] = IF r \in tick[w].done /\ Live(r) THEN Written(w, r) ELSE row[r]
        /\ tick[w].todo = {}
    BY <1>4 DEF Commit
  <2>2. log'[r] = IF r \in SwitchedOff(w) THEN [log[r] EXCEPT !.excuses = @ + 1]
                 ELSE log[r]
    BY <1>4 DEF Commit, Logged
  <2>3. row'[r].state = row[r].state /\ row'[r].cron = row[r].cron
    BY <1>1, <2>1 DEF Written, RowType
  <2>4. w \in Holding(r) <=> r \in tick[w].done
    BY <2>1 DEF Holding
  <2>5. CASE w \notin Holding(r)
    BY <1>2, <1>3, <2>1, <2>2, <2>3, <2>4, <2>5 DEF SwitchedOff
  <2>6. CASE w \in Holding(r) /\ r \in SwitchedOff(w)
    BY <1>2, <1>3, <2>2, <2>3, <2>6
  <2>7. CASE w \in Holding(r) /\ r \notin SwitchedOff(w)
    <3> DEFINE n == NextRun(tick[w].read[r].cron, tick[w].start)
    <3>1. n # Never
      BY <2>4, <2>7 DEF SwitchedOff
    <3>2. Live(r) => row'[r].next = n
      BY <1>1, <2>1, <2>4, <2>7, <3>1 DEF Written, RowType
    <3> HIDE DEF n
    <3> QED
      BY <1>2, <1>3, <2>2, <2>3, <2>7, <3>1, <3>2 DEF n
  <2> QED
    BY <2>5, <2>6, <2>7
<1>5. CASE CommitRaises(w) \/ Crash(w)
  <2>1. row' = row
    BY <1>5 DEF CommitRaises, Crash, Lose
  <2>2. log'[r] = IF r \in tick[w].given THEN [log[r] EXCEPT !.excuses = @ + 1]
                 ELSE log[r]
    BY <1>5 DEF CommitRaises, Crash, Lose, Logged
  <2>3. tick[w].given \subseteq tick[w].done
    BY DEF Tidy
  <2> QED
    BY <1>2, <1>3, <2>1, <2>2, <2>3 DEF Holding
<1> QED
  BY <1>4, <1>5

(* What a user does to the schedule r.                                     *)
LEMMA UserEffect ==
    ASSUME TypeOK, Defined, NEW r \in Rows, NEW q \in Rows,
           Create(q) \/ PatchCron(q) \/ Toggle(q) \/ PatchReport(q)
               \/ Delete(q)
    PROVE  /\ now' = now /\ tick' = tick /\ Holding(r)' = Holding(r)
           /\ log'[r].sent = log[r].sent /\ log'[r].excuses = log[r].excuses
           /\ log'[r].strays = log[r].strays
           /\ \/ /\ log'[r] = log[r] /\ row'[r].state = row[r].state
                 /\ row'[r].cron = row[r].cron /\ row'[r].next = row[r].next
              \/ log'[r] = log[r] /\ ~Live(r)'
              \/ /\ log'[r] = log[r] /\ Holding(r) = {}
                 /\ row'[r].next > now /\ ~Wild(row'[r])
              \/ /\ log'[r].races = log[r].races + Cardinality(Holding(r))
                 /\ row'[r].next > now /\ ~Wild(row'[r])
<1>1. tick' = tick /\ Holding(r)' = Holding(r) /\ now' = now
  BY DEF Create, PatchCron, Toggle, PatchReport, Delete, Edit, Holding
<1>2. row[r] \in RowType /\ log[r] \in LogType /\ now \in Times
  BY DEF TypeOK
<1>3. CASE q # r
  <2>1. row'[r] = row[r]
    BY <1>3 DEF Create, PatchCron, Toggle, PatchReport, Delete, Edit, TypeOK
  <2>2. log'[r] = log[r]
    BY <1>3 DEF Create, PatchCron, Toggle, PatchReport, Delete, Raced, TypeOK
  <2> QED
    BY <1>1, <2>1, <2>2
<1>4. CASE q = r /\ Create(r)
  <2>1. PICK c \in Crons, on \in BOOLEAN, report \in {"sound", "failing"} :
            /\ row[r].state = "unborn"
            /\ NextRun(c, now) # Never
            /\ row' = [row EXCEPT ![r] = Scheduled(c, now, on, report)]
            /\ log' = log
    BY <1>4 DEF Create, Edit
  <2>2. row'[r] = Scheduled(c, now, on, report)
    BY <2>1 DEF TypeOK
  <2>3. ~Wild(row'[r])
    BY <1>2, <2>1, <2>2, ScheduledTame
  <2>4. row'[r].next > now
    BY <1>2, <2>1, <2>2, NextRunType DEF Scheduled
  <2>5. Holding(r) = {}
    BY <2>1 DEF Holding, Defined
  <2> QED
    BY <1>1, <2>1, <2>3, <2>4, <2>5
<1>5. CASE q = r /\ PatchCron(r)
  <2>1. PICK c \in Crons :
            /\ NextRun(c, now) # Never
            /\ row' = [row EXCEPT ![r] = [row[r] EXCEPT !.cron = c, !.next = NextRun(c, now)]]
    BY <1>5 DEF PatchCron, Edit
  <2>2. row'[r].cron = c /\ row'[r].next = NextRun(c, now)
    BY <1>2, <2>1 DEF TypeOK, RowType
  <2>3. ~Wild(row'[r])
    BY <1>2, <2>1, <2>2, NextRunFound DEF Wild
  <2>4. row'[r].next > now
    BY <1>2, <2>1, <2>2, NextRunType
  <2>5. log'[r] = [log[r] EXCEPT !.races = @ + Cardinality(Holding(r))]
    BY <1>5 DEF PatchCron, Raced, TypeOK
  <2> QED
    BY <1>1, <1>2, <2>3, <2>4, <2>5 DEF LogType
<1>6. CASE q = r /\ Toggle(r)
  <2>1. /\ row' = [row EXCEPT ![r] = [row[r] EXCEPT !.enabled = ~@]]
        /\ log' = log
    BY <1>6 DEF Toggle, Edit
  <2>2. /\ row'[r].state = row[r].state /\ row'[r].next = row[r].next
        /\ row'[r].cron = row[r].cron
    BY <1>2, <2>1 DEF TypeOK, RowType
  <2> QED
    BY <1>1, <2>1, <2>2
<1>7. CASE q = r /\ PatchReport(r)
  <2>1. PICK report \in {"sound", "failing"} :
            /\ row' = [row EXCEPT ![r] = [row[r] EXCEPT !.report = report]]
            /\ log' = log
    BY <1>7 DEF PatchReport, Edit
  <2>2. /\ row'[r].state = row[r].state /\ row'[r].next = row[r].next
        /\ row'[r].cron = row[r].cron
    BY <1>2, <2>1 DEF TypeOK, RowType
  <2> QED
    BY <1>1, <2>1, <2>2
<1>8. CASE q = r /\ Delete(r)
  <2>1. PICK report \in {row[r].report, "gone"} :
            /\ row' = [row EXCEPT ![r] = [Unborn EXCEPT !.state = "deleted", !.report = report]]
            /\ log' = log
    BY <1>8 DEF Delete, Edit
  <2>2. row'[r].state = "deleted"
    BY <2>1 DEF TypeOK, Unborn
  <2> QED
    BY <1>1, <2>1, <2>2 DEF Live
<1> QED
  BY <1>3, <1>4, <1>5, <1>6, <1>7, <1>8

-----------------------------------------------------------------------------
(* Deliveries.                                                             *)

(* Ticks that have read s as the next run of r and not delivered it.       *)
Coming(r, s) ==
    {w \in Holding(r) : r \notin tick[w].given /\ tick[w].read[r].next = s}

(* Another tick that reads s while w has r is not for nothing: w writes a  *)
(* later next run, or has an excuse to record, or has not delivered s.     *)
Covers(w, r, s) ==
    s <= tick[w].start /\ (r \in tick[w].given \/ tick[w].read[r].next = s)

(* Some tick may yet read s as the next run of r when nobody has the row:  *)
(* s is still to come, or is what the row says or after it, or a tick that *)
(* began before s may set the row back to it.                              *)
Ahead(r, s) ==
    \/ s > now
    \/ (Live(r) /\ row[r].next <= s /\ \A w \in Holding(r) : ~Covers(w, r, s))
    \/ \E w \in Holding(r) : s > tick[w].start

CountedAt(r, s) ==
    log[r].sent[s] + Cardinality(Coming(r, s)) + One(Ahead(r, s))
        <= 1 + log[r].excuses

(* A tick reads a row that is due.                                         *)
ReadDue == \A r \in Rows : \A w \in Holding(r) :
    tick[w].start <= now /\ tick[w].read[r].next <= tick[w].start

Counts == ReadDue /\ \A r \in Rows, s \in Slots : CountedAt(r, s)

Basics == TypeOK /\ Defined /\ FewHold /\ Tidy

LEMMA OneType == \A b : One(b) \in {0, 1}
  BY DEF One

LEMMA LogNumbers ==
    ASSUME TypeOK, NEW r \in Rows
    PROVE  /\ log[r] \in LogType
           /\ log[r].excuses \in Nat /\ log[r].strays \in Nat
           /\ log[r].races \in Nat /\ log[r].sent \in [Slots -> Nat]
           /\ \A s \in Slots : log[r].sent[s] \in Nat
  BY DEF TypeOK, LogType

LEMMA ComingFinite ==
    ASSUME FewHold, NEW r \in Rows, NEW s
    PROVE  IsFiniteSet(Coming(r, s)) /\ Cardinality(Coming(r, s)) \in Nat
<1>1. Coming(r, s) \in SUBSET Holding(r)
  BY DEF Coming
<1>2. IsFiniteSet(Coming(r, s))
  BY <1>1, FS_Subset DEF FewHold
<1> QED
  BY <1>2, FS_CardinalityType

(* A step that delivers nothing of r, excuses nothing, and after which no  *)
(* slot has more ahead of it.                                              *)
LEMMA CountedFrame ==
    ASSUME Basics, NEW r \in Rows, NEW s \in Slots, CountedAt(r, s),
           log'[r].sent = log[r].sent, log'[r].excuses = log[r].excuses,
           Coming(r, s)' = Coming(r, s), Ahead(r, s)' => Ahead(r, s)
    PROVE  CountedAt(r, s)'
<1>1. One(Ahead(r, s))' <= One(Ahead(r, s))
      /\ One(Ahead(r, s)) \in {0, 1} /\ One(Ahead(r, s))' \in {0, 1}
  BY DEF One
<1>2. log[r].sent[s] \in Nat /\ log[r].excuses \in Nat
      /\ Cardinality(Coming(r, s)) \in Nat
  BY LogNumbers, ComingFinite DEF Basics
<1>3. Cardinality(Coming(r, s))' = Cardinality(Coming(r, s))
  OBVIOUS
<1> HIDE DEF Coming, Ahead
<1> QED
  BY <1>1, <1>2, <1>3 DEF CountedAt

LEMMA ReadDueStep ==
    ASSUME Basics, Counts, [Next]_vars
    PROVE  ReadDue'
<1> SUFFICES ASSUME NEW r \in Rows, NEW v \in Holding(r)'
             PROVE  (tick[v].start <= now /\ tick[v].read[r].next <= tick[v].start)'
  BY DEF ReadDue
<1> USE DEF Basics, Counts
<1>0. now \in Times /\ v \in Workers
  BY DEF TypeOK, Holding
<1>1. CASE UNCHANGED vars
  BY <1>1 DEF vars, ReadDue, Holding
<1>2. CASE Clock
  <2>1. v \in Holding(r) /\ tick' = tick /\ now' = now + 1
    BY <1>2 DEF Clock, Holding
  <2>2. tick[v].start \in Times
    BY <1>0 DEF TypeOK
  <2> QED
    BY <1>0, <2>1, <2>2 DEF ReadDue, Times
<1>3. ASSUME NEW q \in Rows, Create(q) \/ PatchCron(q) \/ Toggle(q) \/ PatchReport(q)
               \/ Delete(q)
      PROVE  (tick[v].start <= now /\ tick[v].read[r].next <= tick[v].start)'
  BY <1>3, UserEffect DEF ReadDue
<1>4. ASSUME NEW w \in Workers, Select(w)
      PROVE  (tick[v].start <= now /\ tick[v].read[r].next <= tick[v].start)'
  <2>1. CASE r \notin Due
    <3>1. now' = now /\ v \in Holding(r) /\ tick'[v] = tick[v]
      BY <1>4, <2>1, SelectEffect
    <3> QED
      BY <3>1 DEF ReadDue
  <2>2. CASE r \in Due
    <3>1. row[r].next <= now
      BY <2>2 DEF Due
    <3>2. /\ now' = now
          /\ v \in Holding(r) \cup {w}
          /\ \A u \in Holding(r) : tick'[u] = tick[u]
          /\ tick'[w].start = now
          /\ tick'[w].read[r] = [cron |-> row[r].cron, next |-> row[r].next]
      BY <1>4, <2>2, SelectEffect
    <3> QED
      BY <1>0, <3>1, <3>2 DEF ReadDue, Times
  <2> QED
    BY <2>1, <2>2
<1>5. ASSUME NEW w \in Workers, NEW q \in Rows,
             Deliver(w, q) \/ Fail(w, q) \/ FailInDatabase(w, q)
      PROVE  (tick[v].start <= now /\ tick[v].read[r].next <= tick[v].start)'
  <2>1. /\ now' = now /\ v \in Holding(r)
        /\ tick'[v].read = tick[v].read /\ tick'[v].start = tick[v].start
    BY <1>0, <1>5, TreatEffect
  <2> QED
    BY <2>1 DEF ReadDue
<1>6. ASSUME NEW w \in Workers, Commit(w) \/ CommitRaises(w) \/ Crash(w)
      PROVE  (tick[v].start <= now /\ tick[v].read[r].next <= tick[v].start)'
  <2>1. now' = now /\ v \in Holding(r) /\ tick'[v] = tick[v]
    BY <1>0, <1>6, EndEffect
  <2> QED
    BY <2>1 DEF ReadDue
<1> QED
  BY <1>1, <1>2, <1>3, <1>4, <1>5, <1>6 DEF Next

LEMMA UserCounts ==
    ASSUME Basics, NEW r \in Rows, NEW s \in Slots, CountedAt(r, s),
           NEW q \in Rows,
           Create(q) \/ PatchCron(q) \/ Toggle(q) \/ PatchReport(q)
               \/ Delete(q)
    PROVE  CountedAt(r, s)'
<1>1. /\ now' = now /\ tick' = tick /\ Holding(r)' = Holding(r)
      /\ log'[r].sent = log[r].sent /\ log'[r].excuses = log[r].excuses
  BY UserEffect DEF Basics
<1>2. \/ row'[r].state = row[r].state /\ row'[r].next = row[r].next
      \/ ~Live(r)'
      \/ row'[r].next > now
  BY UserEffect DEF Basics
<1>3. now \in Int /\ s \in Int /\ row'[r].next \in Int
  <2>1. row' \in [Rows -> RowType]
    BY UserType DEF Basics, TypeOK
  <2> QED
    BY <2>1 DEF Basics, TypeOK, Times, Slots, RowType
<1>4. Coming(r, s)' = Coming(r, s)
  BY <1>1 DEF Coming
<1>5. Ahead(r, s)' => Ahead(r, s)
  BY <1>1, <1>2, <1>3 DEF Ahead, Covers, Live
<1> QED
  BY <1>1, <1>4, <1>5, CountedFrame

LEMMA SelectCounts ==
    ASSUME Basics, NEW r \in Rows, NEW s \in Slots, CountedAt(r, s),
           NEW w \in Workers, Select(w)
    PROVE  CountedAt(r, s)'
<1>0. now \in Int /\ s \in Int /\ row[r].next \in Int
  BY DEF Basics, TypeOK, Times, Slots, RowType
<1>1. CASE r \notin Due
  <2>1. /\ UNCHANGED <<now, row>> /\ Holding(r)' = Holding(r) /\ log'[r] = log[r]
        /\ \A v \in Holding(r) : tick'[v] = tick[v]
    BY <1>1, SelectEffect DEF Basics
  <2>2. Coming(r, s)' = Coming(r, s)
    BY <2>1 DEF Coming
  <2>3. Ahead(r, s)' => Ahead(r, s)
    BY <2>1 DEF Ahead, Covers, Live
  <2> QED
    BY <2>1, <2>2, <2>3, CountedFrame
<1>2. CASE r \in Due
  <2>1. /\ UNCHANGED <<now, row>>
        /\ w \notin Holding(r)
        /\ Holding(r)' = Holding(r) \cup {w}
        /\ \A v \in Holding(r) : tick'[v] = tick[v]
        /\ tick'[w].start = now /\ r \notin tick'[w].given
        /\ tick'[w].read[r] = [cron |-> row[r].cron, next |-> row[r].next]
        /\ log'[r] = IF Holding(r) = {} THEN log[r]
                     ELSE [log[r] EXCEPT !.excuses = @ + 1]
    BY <1>2, SelectEffect DEF Basics
  <2>2. Live(r) /\ row[r].next <= now
    BY <1>2 DEF Due
  <2>3. Coming(r, s)' = IF row[r].next = s THEN Coming(r, s) \cup {w}
                        ELSE Coming(r, s)
    BY <2>1 DEF Coming
  <2>4. Ahead(r, s)' => Ahead(r, s)
    <3>1. \A v \in Holding(r) : Covers(v, r, s)' = Covers(v, r, s)
      BY <2>1 DEF Covers
    <3>2. Live(r)' = Live(r)
      BY <2>1 DEF Live
    <3> QED
      BY <1>0, <2>1, <3>1, <3>2 DEF Ahead
  <2>5. log[r].sent[s] \in Nat /\ log[r].excuses \in Nat /\ log[r] \in LogType
    BY LogNumbers DEF Basics
  <2>6. IsFiniteSet(Coming(r, s)) /\ Cardinality(Coming(r, s)) \in Nat
    BY ComingFinite DEF Basics
  <2>7. w \notin Coming(r, s)
    BY <2>1 DEF Coming
  <2>8. Cardinality(Coming(r, s) \cup {w}) = Cardinality(Coming(r, s)) + 1
    BY <2>6, <2>7, FS_AddElement
  <2>9. Cardinality(Coming(r, s))' = Cardinality(Coming(r, s))
                                       + One(row[r].next = s)
    BY <2>3, <2>6, <2>8 DEF One
  <2>10. /\ One(row[r].next = s) \in {0, 1}
         /\ One(Ahead(r, s)) \in {0, 1} /\ One(Ahead(r, s))' \in {0, 1}
         /\ One(Ahead(r, s))' <= One(Ahead(r, s))
    BY <2>4 DEF One
  <2>11. CASE Holding(r) = {}
    <3>1. row[r].next = s => Ahead(r, s) /\ ~Ahead(r, s)'
      <4> SUFFICES ASSUME row[r].next = s
                   PROVE  Ahead(r, s) /\ ~Ahead(r, s)'
        OBVIOUS
      <4>1. Ahead(r, s)
        BY <1>0, <2>2, <2>11 DEF Ahead
      <4>2. Covers(w, r, s)'
        BY <1>0, <2>1, <2>2 DEF Covers
      <4>3. ~(s > now) /\ w \in Holding(r)' /\ ~(\E v \in Holding(r)' : s > tick'[v].start)
        BY <1>0, <2>1, <2>2, <2>11
      <4> QED
        BY <2>1, <4>1, <4>2, <4>3 DEF Ahead
    <3>2. One(row[r].next = s) + One(Ahead(r, s))' <= One(Ahead(r, s))
      BY <2>10, <3>1 DEF One
    <3>3. log'[r] = log[r]
      BY <2>1, <2>11
    <3> QED
      BY <2>5, <2>6, <2>9, <2>10, <3>2, <3>3 DEF CountedAt
  <2>12. CASE Holding(r) # {}
    <3>1. log'[r].sent = log[r].sent /\ log'[r].excuses = log[r].excuses + 1
      BY <2>1, <2>5, <2>12 DEF LogType
    <3> QED
      BY <2>5, <2>6, <2>9, <2>10, <3>1 DEF CountedAt
  <2> QED
    BY <2>11, <2>12
<1> QED
  BY <1>1, <1>2

LEMMA TreatCounts ==
    ASSUME Basics, ReadDue, NEW r \in Rows, NEW s \in Slots, CountedAt(r, s),
           NEW w \in Workers, NEW q \in Rows,
           Deliver(w, q) \/ Fail(w, q) \/ FailInDatabase(w, q)
    PROVE  CountedAt(r, s)'
<1>1. /\ UNCHANGED <<now, row>>
      /\ Holding(r)' = Holding(r)
      /\ \A v \in Workers \ {w} : tick'[v] = tick[v]
      /\ tick'[w].read = tick[w].read /\ tick'[w].start = tick[w].start
  BY TreatEffect DEF Basics
<1>2. Holding(r) \subseteq Workers
  BY DEF Holding
<1>3. ASSUME tick'[w].given \in {tick[w].given, tick[w].given \cup {q}}
      PROVE  Ahead(r, s)' => Ahead(r, s)
  <2>1. \A v \in Holding(r) : Covers(v, r, s) => Covers(v, r, s)'
    BY <1>1, <1>2, <1>3 DEF Covers
  <2> QED
    BY <1>1, <1>2, <2>1 DEF Ahead, Live
<1>4. CASE tick'[w].given = tick[w].given /\ log' = log
  <2>1. Coming(r, s)' = Coming(r, s)
    BY <1>1, <1>2, <1>4 DEF Coming
  <2> QED
    BY <1>3, <1>4, <2>1, CountedFrame
<1>5. CASE /\ Deliver(w, q)
           /\ tick'[w].given = tick[w].given \cup {q}
           /\ q \notin tick[w].given /\ w \in Holding(q)
  <2> DEFINE slot  == tick[w].read[q].next
             stray == IF Fires(tick[w].read[q].cron, slot) THEN 0 ELSE 1
  <2>1. log[q] \in LogType /\ slot \in Slots
    <3>1. tick[w].read[q] \in ReadType
      BY DEF Basics, TypeOK
    <3> QED
      BY <3>1, LogNumbers DEF Basics, ReadType
  <2>2. log' = [log EXCEPT ![q] = [log[q] EXCEPT !.sent[slot] = @ + 1,
                                                 !.strays = @ + stray]]
    BY <1>5, <2>1 DEF Deliver, LogType, Basics, TypeOK
  <2>3. CASE q # r \/ slot # s
    <3>1. Coming(r, s)' = Coming(r, s)
      <4>1. CASE q # r
        BY <1>1, <1>2, <1>5, <4>1 DEF Coming
      <4>2. CASE q = r /\ slot # s
        BY <1>1, <1>2, <1>5, <4>2 DEF Coming
      <4> QED
        BY <2>3, <4>1, <4>2
    <3>2. log'[r].sent[s] = log[r].sent[s] /\ log'[r].excuses = log[r].excuses
      <4> HIDE DEF slot, stray
      <4> QED
        BY <2>1, <2>2, <2>3, LogNumbers DEF Basics, TypeOK, LogType
    <3>3. /\ One(Ahead(r, s))' <= One(Ahead(r, s))
          /\ One(Ahead(r, s)) \in {0, 1} /\ One(Ahead(r, s))' \in {0, 1}
      BY <1>3, <1>5 DEF One
    <3>4. log[r].sent[s] \in Nat /\ log[r].excuses \in Nat
          /\ Cardinality(Coming(r, s)) \in Nat
      BY LogNumbers, ComingFinite DEF Basics
    <3> QED
      BY <3>1, <3>2, <3>3, <3>4 DEF CountedAt
  <2>4. CASE q = r /\ slot = s
    <3>1. Coming(r, s)' = Coming(r, s) \ {w} /\ w \in Coming(r, s)
      BY <1>1, <1>2, <1>5, <2>4 DEF Coming
    <3>2. log'[r].sent[s] = log[r].sent[s] + 1 /\ log'[r].excuses = log[r].excuses
      <4> HIDE DEF stray
      <4> QED
        BY <2>1, <2>2, <2>4 DEF Basics, TypeOK, LogType
    <3>3. /\ One(Ahead(r, s))' <= One(Ahead(r, s))
          /\ One(Ahead(r, s)) \in {0, 1} /\ One(Ahead(r, s))' \in {0, 1}
      BY <1>3, <1>5 DEF One
    <3>4. IsFiniteSet(Coming(r, s)) /\ Cardinality(Coming(r, s)) \in Nat
      BY ComingFinite DEF Basics
    <3>5. Cardinality(Coming(r, s) \ {w}) = Cardinality(Coming(r, s)) - 1
      BY <3>1, <3>4, FS_RemoveElement
    <3>6. log[r].sent[s] \in Nat /\ log[r].excuses \in Nat
      BY LogNumbers DEF Basics
    <3> QED
      BY <3>1, <3>2, <3>3, <3>4, <3>5, <3>6 DEF CountedAt
  <2> QED
    BY <2>3, <2>4
<1> QED
  BY <1>4, <1>5, TreatEffect DEF Basics

LEMMA EndCounts ==
    ASSUME Basics, ReadDue, NEW r \in Rows, NEW s \in Slots, CountedAt(r, s),
           NEW w \in Workers, Commit(w) \/ CommitRaises(w) \/ Crash(w)
    PROVE  CountedAt(r, s)'
<1>1. /\ now' = now
      /\ Holding(r)' = Holding(r) \ {w}
      /\ \A v \in Workers \ {w} : tick'[v] = tick[v]
      /\ row'[r].state = row[r].state
  BY EndEffect DEF Basics
<1>2. Holding(r) \subseteq Workers
  BY DEF Holding
<1>3. \A v \in Holding(r) \ {w} : Covers(v, r, s)' = Covers(v, r, s)
  BY <1>1, <1>2 DEF Covers
<1>4. Coming(r, s)' = Coming(r, s) \ {w}
  BY <1>1, <1>2 DEF Coming
<1>5. IsFiniteSet(Coming(r, s)) /\ Cardinality(Coming(r, s)) \in Nat
  BY ComingFinite DEF Basics
<1>6. Cardinality(Coming(r, s) \ {w}) = IF w \in Coming(r, s)
                THEN Cardinality(Coming(r, s)) - 1 ELSE Cardinality(Coming(r, s))
  BY <1>5, FS_RemoveElement
<1>7. log[r].sent[s] \in Nat /\ log[r].excuses \in Nat /\ log[r] \in LogType
  BY LogNumbers DEF Basics
<1>8. One(Ahead(r, s)) \in {0, 1} /\ One(Ahead(r, s))' \in {0, 1}
  BY DEF One
<1>9. CASE w \notin Holding(r)
  <2>1. row'[r] = row[r] /\ log'[r] = log[r]
    BY <1>9, EndEffect DEF Basics
  <2>2. Coming(r, s)' = Coming(r, s) /\ Holding(r)' = Holding(r)
    BY <1>1, <1>4, <1>9 DEF Coming
  <2>3. Ahead(r, s)' => Ahead(r, s)
    BY <1>1, <1>2, <1>3, <1>9, <2>1, <2>2 DEF Ahead, Live
  <2> QED
    BY <2>1, <2>2, <2>3, CountedFrame
<1>10. CASE log'[r] = [log[r] EXCEPT !.excuses = @ + 1]
  <2>1. log'[r].sent = log[r].sent /\ log'[r].excuses = log[r].excuses + 1
    BY <1>7, <1>10 DEF LogType
  <2>2. Cardinality(Coming(r, s))' <= Cardinality(Coming(r, s))
        /\ Cardinality(Coming(r, s))' \in Int
    BY <1>4, <1>5, <1>6
  <2> QED
    BY <1>5, <1>7, <1>8, <2>1, <2>2 DEF CountedAt
<1>11. CASE /\ w \in Holding(r) /\ log'[r] = log[r]
            /\ row'[r] = row[r] /\ r \notin tick[w].given
  <2>1. Ahead(r, s)' /\ ~Ahead(r, s) => w \in Coming(r, s)
    <3> SUFFICES ASSUME Ahead(r, s)', ~Ahead(r, s)
                 PROVE  w \in Coming(r, s)
      OBVIOUS
    <3>1. Covers(w, r, s)
      BY <1>1, <1>2, <1>3, <1>11 DEF Ahead, Live
    <3> QED
      BY <1>11, <3>1 DEF Covers, Coming
  <2>2. Cardinality(Coming(r, s))' + One(Ahead(r, s))'
           <= Cardinality(Coming(r, s)) + One(Ahead(r, s))
    BY <1>4, <1>5, <1>6, <1>8, <2>1 DEF One
  <2>3. Cardinality(Coming(r, s))' \in Int
    BY <1>4, <1>5, <1>6
  <2> QED
    BY <1>5, <1>7, <1>8, <1>11, <2>2, <2>3 DEF CountedAt
<1>12. CASE /\ w \in Holding(r) /\ log'[r] = log[r]
            /\ Live(r) => LET c == tick[w].read[r].cron
                              n == NextRun(c, tick[w].start)
                          IN n # Never /\ row'[r].next = n
  <2>1. Live(r) => row'[r].next > tick[w].start
    <3> DEFINE c == tick[w].read[r].cron
               n == NextRun(c, tick[w].start)
    <3>1. c \in Crons /\ tick[w].start \in Times
      BY <1>12 DEF Basics, Defined, Holding, TypeOK
    <3>2. n # Never => n > tick[w].start
      BY <3>1, NextRunType
    <3> HIDE DEF n
    <3>3. Live(r) => n # Never /\ row'[r].next = n
      BY <1>12 DEF n
    <3> QED
      BY <3>2, <3>3
  <2>2. s \in Int /\ tick[w].start \in Int /\ now \in Int
        /\ (Live(r) => row'[r].next \in Int)
    <3>1. row' \in [Rows -> RowType]
      BY TickType DEF Basics, TypeOK
    <3> QED
      BY <3>1 DEF Basics, TypeOK, Slots, Times, RowType
  <2>3. Ahead(r, s)' => Ahead(r, s)
    <3>1. Live(r)' = Live(r)
      BY <1>1 DEF Live
    <3>2. Live(r) /\ row'[r].next <= s => s > tick[w].start
      BY <2>1, <2>2
    <3>3. \A v \in Holding(r)' : v \in Holding(r) /\ tick'[v] = tick[v]
      BY <1>1, <1>2
    <3> QED
      BY <1>1, <1>12, <3>1, <3>2, <3>3 DEF Ahead
  <2>4. /\ One(Ahead(r, s))' <= One(Ahead(r, s))
        /\ Cardinality(Coming(r, s))' <= Cardinality(Coming(r, s))
        /\ Cardinality(Coming(r, s))' \in Int
    BY <1>4, <1>5, <1>6, <2>3 DEF One
  <2> QED
    BY <1>5, <1>7, <1>8, <1>12, <2>4 DEF CountedAt
<1> QED
  BY <1>9, <1>10, <1>11, <1>12, EndEffect DEF Basics

LEMMA CountsStep == Basics /\ Counts /\ [Next]_vars => Counts'
<1> SUFFICES ASSUME Basics, Counts, [Next]_vars, NEW r \in Rows, NEW s \in Slots
             PROVE  CountedAt(r, s)'
  BY ReadDueStep DEF Counts
<1>1. CountedAt(r, s) /\ ReadDue
  BY DEF Counts
<1>2. CASE UNCHANGED vars \/ Clock
  <2>1. UNCHANGED <<row, tick, log>> /\ now' >= now /\ now \in Int /\ now' \in Int
    BY <1>2 DEF vars, Clock, Basics, TypeOK, Times
  <2>2. Coming(r, s)' = Coming(r, s)
    BY <2>1 DEF Coming, Holding
  <2>3. s \in Int
    BY DEF Slots
  <2>4. Ahead(r, s)' => Ahead(r, s)
    BY <2>1, <2>3 DEF Ahead, Covers, Live, Holding
  <2> QED
    BY <1>1, <2>1, <2>2, <2>4, CountedFrame
<1> QED
  BY <1>1, <1>2, UserCounts, SelectCounts, TreatCounts, EndCounts DEF Next

LEMMA NobodyHolds ==
    ASSUME Init, NEW r \in Rows
    PROVE  log[r] = NoLog /\ Holding(r) = {}
  BY DEF Init, Holding, Idle

LEMMA CountsInit == Init => Counts
<1> SUFFICES ASSUME Init
             PROVE  Counts
  OBVIOUS
<1>1. ReadDue
  BY NobodyHolds DEF ReadDue
<1>2. ASSUME NEW r \in Rows, NEW s \in Slots
      PROVE  CountedAt(r, s)
  <2>1. Coming(r, s) = {} /\ log[r].sent[s] = 0 /\ log[r].excuses = 0
    BY NobodyHolds DEF Coming, NoLog
  <2>2. Cardinality(Coming(r, s)) = 0 /\ One(Ahead(r, s)) \in {0, 1}
    BY <2>1, FS_EmptySet DEF One
  <2> QED
    BY <2>1, <2>2 DEF CountedAt
<1> QED
  BY <1>1, <1>2 DEF Counts

LEMMA BasicsInit == Init => Basics
<1>1. Init => Tidy
  BY DEF Init, Tidy, Idle
<1> QED
  BY <1>1, TypeInit, FewHoldInit DEF Basics

LEMMA BasicsStep == Basics /\ [Next]_vars => Basics'
  BY TypeStep, TidyStep DEF Basics

LEMMA CountsBound == Basics /\ Counts => DeliveredOnce
<1> SUFFICES ASSUME Basics, Counts, NEW r \in Rows, NEW s \in Slots
             PROVE  log[r].sent[s] <= 1 + log[r].excuses
  BY DEF DeliveredOnce
<1>1. CountedAt(r, s)
  BY DEF Counts
<1>2. /\ log[r].sent[s] \in Nat /\ log[r].excuses \in Nat
      /\ Cardinality(Coming(r, s)) \in Nat /\ One(Ahead(r, s)) \in {0, 1}
  BY LogNumbers, ComingFinite DEF Basics, One
<1> QED
  BY <1>1, <1>2 DEF CountedAt

(* A fire time is delivered at most once, and once more for each tick that *)
(* never committed, switched the schedule off or read it while another had *)
(* it, for any number of schedules and workers, however their ticks        *)
(* overlap, over any time.                                                 *)
THEOREM OneDelivery == Spec => []DeliveredOnce
<1>1. Init => Basics /\ Counts
  BY BasicsInit, CountsInit
<1>2. Basics /\ Counts /\ [Next]_vars => Basics' /\ Counts'
  BY BasicsStep, CountsStep
<1> QED
  BY <1>1, <1>2, CountsBound, PTL DEF Spec

-----------------------------------------------------------------------------
(* Strays.                                                                 *)

(* Ticks that will deliver r at a time its expression did not name when    *)
(* they read it, and ticks whose commit will write the next run of an      *)
(* expression that r does not have any more.                               *)
Astray(r) ==
    {w \in Holding(r) : r \notin tick[w].given /\ Wild(tick[w].read[r])}

Passed(r) ==
    {w \in Holding(r) : Live(r) /\ row[r].cron # tick[w].read[r].cron}

(* The next run of r is such a time, and no tick that has r has read it or *)
(* has delivered r, which will end in another next run or in an excuse.    *)
Loose(r) ==
    /\ Live(r)
    /\ Wild(row[r])
    /\ \A w \in Holding(r) : r \notin tick[w].given /\ ~Wild(tick[w].read[r])

Paid(r) ==
    log[r].strays + Cardinality(Astray(r)) + Cardinality(Passed(r))
        + One(Loose(r)) <= log[r].races + log[r].excuses

AllPaid == \A r \in Rows : Paid(r)

LEMMA CostsFinite ==
    ASSUME FewHold, NEW r \in Rows
    PROVE  /\ IsFiniteSet(Astray(r)) /\ Cardinality(Astray(r)) \in Nat
           /\ IsFiniteSet(Passed(r)) /\ Cardinality(Passed(r)) \in Nat
<1>1. Astray(r) \in SUBSET Holding(r) /\ Passed(r) \in SUBSET Holding(r)
  BY DEF Astray, Passed
<1>2. IsFiniteSet(Astray(r)) /\ IsFiniteSet(Passed(r))
  BY <1>1, FS_Subset DEF FewHold
<1> QED
  BY <1>2, FS_CardinalityType

(* A step after which nothing costs more than before.                      *)
LEMMA PaidFrame ==
    ASSUME Basics, NEW r \in Rows, Paid(r),
           log'[r].strays = log[r].strays, log'[r].races = log[r].races,
           log'[r].excuses = log[r].excuses,
           Astray(r)' = Astray(r), Passed(r)' = Passed(r), Loose(r)' => Loose(r)
    PROVE  Paid(r)'
<1>1. One(Loose(r))' <= One(Loose(r))
      /\ One(Loose(r)) \in {0, 1} /\ One(Loose(r))' \in {0, 1}
  BY DEF One
<1>2. /\ Cardinality(Astray(r)) \in Nat /\ Cardinality(Passed(r)) \in Nat
      /\ log[r].strays \in Nat /\ log[r].races \in Nat /\ log[r].excuses \in Nat
  BY LogNumbers, CostsFinite DEF Basics
<1>3. /\ Cardinality(Astray(r))' = Cardinality(Astray(r))
      /\ Cardinality(Passed(r))' = Cardinality(Passed(r))
  OBVIOUS
<1> HIDE DEF Astray, Passed, Loose
<1> QED
  BY <1>1, <1>2, <1>3 DEF Paid

(* The same row and the same ticks.                                        *)
LEMMA CostsFrame ==
    ASSUME NEW r \in Rows, Holding(r)' = Holding(r),
           row'[r].state = row[r].state, row'[r].cron = row[r].cron,
           row'[r].next = row[r].next,
           \A v \in Holding(r) :
               /\ tick'[v].read[r] = tick[v].read[r]
               /\ r \in tick'[v].given <=> r \in tick[v].given
    PROVE  Astray(r)' = Astray(r) /\ Passed(r)' = Passed(r) /\ (Loose(r)' => Loose(r))
<1>1. Live(r)' = Live(r) /\ Wild(row[r])' = Wild(row[r])
  BY DEF Live, Wild, Fires
<1>2. \A v \in Holding(r) : Wild(tick[v].read[r])' = Wild(tick[v].read[r])
  BY DEF Wild, Fires
<1> QED
  BY <1>1, <1>2 DEF Astray, Passed, Loose

LEMMA UserPays ==
    ASSUME Basics, NEW r \in Rows, Paid(r), NEW q \in Rows,
           Create(q) \/ PatchCron(q) \/ Toggle(q) \/ PatchReport(q)
               \/ Delete(q)
    PROVE  Paid(r)'
<1>1. /\ tick' = tick /\ Holding(r)' = Holding(r)
      /\ log'[r].strays = log[r].strays /\ log'[r].excuses = log[r].excuses
  BY UserEffect DEF Basics
<1>2. /\ Cardinality(Astray(r)) \in Nat /\ Cardinality(Passed(r)) \in Nat
      /\ log[r].strays \in Nat /\ log[r].races \in Nat /\ log[r].excuses \in Nat
  BY LogNumbers, CostsFinite DEF Basics
<1>3. One(Loose(r)) \in {0, 1}
  BY DEF One
<1>4. \A v \in Holding(r) : Wild(tick[v].read[r])' = Wild(tick[v].read[r])
  BY <1>1 DEF Wild, Fires
<1>5. Astray(r)' = Astray(r)
  BY <1>1, <1>4 DEF Astray
<1>6. CASE /\ log'[r] = log[r] /\ row'[r].state = row[r].state
           /\ row'[r].cron = row[r].cron /\ row'[r].next = row[r].next
  BY <1>1, <1>6, CostsFrame, PaidFrame
<1>7. CASE log'[r] = log[r] /\ (~Live(r)' \/ (Holding(r) = {} /\ ~Wild(row'[r])))
  <2>1. Passed(r)' = {} /\ ~Loose(r)'
    BY <1>1, <1>7 DEF Passed, Loose, Wild, Fires
  <2>2. Cardinality(Passed(r))' = 0 /\ One(Loose(r))' = 0
    BY <2>1, FS_EmptySet DEF One
  <2>3. Cardinality(Astray(r))' = Cardinality(Astray(r))
    BY <1>5
  <2> QED
    BY <1>2, <1>3, <1>7, <2>2, <2>3 DEF Paid
<1>8. CASE /\ log'[r].races = log[r].races + Cardinality(Holding(r))
           /\ ~Wild(row'[r])
  <2>1. Passed(r)' \in SUBSET Holding(r) /\ ~Loose(r)'
    BY <1>1, <1>8 DEF Passed, Loose, Wild, Fires
  <2>2. /\ IsFiniteSet(Passed(r)') /\ Cardinality(Passed(r)') <= Cardinality(Holding(r))
    BY <2>1, FS_Subset DEF Basics, FewHold
  <2>3. Cardinality(Passed(r)') \in Nat /\ Cardinality(Holding(r)) \in Nat
    BY <2>2, FS_CardinalityType DEF Basics, FewHold
  <2>4. One(Loose(r))' = 0 /\ Cardinality(Astray(r))' = Cardinality(Astray(r))
        /\ Cardinality(Passed(r))' = Cardinality(Passed(r)')
    BY <1>5, <2>1 DEF One
  <2> QED
    BY <1>1, <1>2, <1>3, <1>8, <2>2, <2>3, <2>4 DEF Paid
<1> QED
  BY <1>6, <1>7, <1>8, UserEffect DEF Basics

LEMMA SelectPays ==
    ASSUME Basics, NEW r \in Rows, Paid(r), NEW w \in Workers, Select(w)
    PROVE  Paid(r)'
<1>1. CASE r \notin Due
  <2>1. /\ UNCHANGED <<now, row>> /\ Holding(r)' = Holding(r) /\ log'[r] = log[r]
        /\ \A v \in Holding(r) : tick'[v] = tick[v]
    BY <1>1, SelectEffect DEF Basics
  <2> QED
    BY <2>1, CostsFrame, PaidFrame
<1>2. CASE r \in Due
  <2>1. /\ UNCHANGED <<now, row>>
        /\ w \notin Holding(r)
        /\ Holding(r)' = Holding(r) \cup {w}
        /\ \A v \in Holding(r) : tick'[v] = tick[v]
        /\ r \notin tick'[w].given
        /\ tick'[w].read[r] = [cron |-> row[r].cron, next |-> row[r].next]
        /\ log'[r] = IF Holding(r) = {} THEN log[r]
                     ELSE [log[r] EXCEPT !.excuses = @ + 1]
    BY <1>2, SelectEffect DEF Basics
  <2>2. Live(r) /\ Live(r)' /\ Wild(row[r])' = Wild(row[r])
    BY <1>2, <2>1 DEF Due, Live, Wild, Fires
  <2>3. Wild(tick[w].read[r])' = Wild(row[r])
    BY <2>1 DEF Wild, Fires
  <2>4. \A v \in Holding(r) : Wild(tick[v].read[r])' = Wild(tick[v].read[r])
    BY <2>1 DEF Wild, Fires
  <2>5. Astray(r)' = IF Wild(row[r]) THEN Astray(r) \cup {w} ELSE Astray(r)
    BY <2>1, <2>3, <2>4 DEF Astray
  <2>6. Passed(r)' = Passed(r)
    BY <2>1, <2>2 DEF Passed
  <2>7. Loose(r)' => Loose(r)
    BY <2>1, <2>2, <2>4 DEF Loose
  <2>8. w \notin Astray(r) /\ IsFiniteSet(Astray(r))
    BY <2>1, CostsFinite DEF Astray, Basics
  <2>9. Cardinality(Astray(r) \cup {w}) = Cardinality(Astray(r)) + 1
    BY <2>8, FS_AddElement
  <2>10. /\ Cardinality(Astray(r)) \in Nat /\ Cardinality(Passed(r)) \in Nat
         /\ log[r].strays \in Nat /\ log[r].races \in Nat /\ log[r].excuses \in Nat
         /\ log[r] \in LogType
    BY LogNumbers, CostsFinite DEF Basics
  <2>11. Cardinality(Astray(r))' = Cardinality(Astray(r)) + One(Wild(row[r]))
    BY <2>5, <2>9, <2>10 DEF One
  <2>12. Cardinality(Passed(r))' = Cardinality(Passed(r))
    BY <2>6
  <2>13. /\ One(Wild(row[r])) \in {0, 1}
         /\ One(Loose(r)) \in {0, 1} /\ One(Loose(r))' \in {0, 1}
         /\ One(Loose(r))' <= One(Loose(r))
    BY <2>7 DEF One
  <2>14. CASE Holding(r) = {}
    <3>1. Wild(row[r]) => Loose(r) /\ ~Loose(r)'
      BY <2>1, <2>2, <2>3, <2>14 DEF Loose
    <3>2. One(Wild(row[r])) + One(Loose(r))' <= One(Loose(r))
      BY <2>13, <3>1 DEF One
    <3>3. log'[r] = log[r]
      BY <2>1, <2>14
    <3> QED
      BY <2>10, <2>11, <2>12, <2>13, <3>2, <3>3 DEF Paid
  <2>15. CASE Holding(r) # {}
    <3>1. /\ log'[r].strays = log[r].strays /\ log'[r].races = log[r].races
          /\ log'[r].excuses = log[r].excuses + 1
      BY <2>1, <2>10, <2>15 DEF LogType
    <3> QED
      BY <2>10, <2>11, <2>12, <2>13, <3>1 DEF Paid
  <2> QED
    BY <2>14, <2>15
<1> QED
  BY <1>1, <1>2

LEMMA TreatPays ==
    ASSUME Basics, NEW r \in Rows, Paid(r), NEW w \in Workers, NEW q \in Rows,
           Deliver(w, q) \/ Fail(w, q) \/ FailInDatabase(w, q)
    PROVE  Paid(r)'
<1>1. /\ UNCHANGED <<now, row>>
      /\ Holding(r)' = Holding(r)
      /\ \A v \in Workers \ {w} : tick'[v] = tick[v]
      /\ tick'[w].read = tick[w].read
  BY TreatEffect DEF Basics
<1>2. Holding(r) \subseteq Workers
  BY DEF Holding
<1>3. CASE tick'[w].given = tick[w].given /\ log' = log
  BY <1>1, <1>2, <1>3, CostsFrame, PaidFrame
<1>4. CASE /\ Deliver(w, q)
           /\ tick'[w].given = tick[w].given \cup {q}
           /\ q \notin tick[w].given /\ w \in Holding(q)
  <2> DEFINE slot  == tick[w].read[q].next
             stray == IF Fires(tick[w].read[q].cron, slot) THEN 0 ELSE 1
  <2>1. log[q] \in LogType
    BY LogNumbers DEF Basics
  <2>2. log' = [log EXCEPT ![q] = [log[q] EXCEPT !.sent[slot] = @ + 1,
                                                 !.strays = @ + stray]]
    BY <1>4, <2>1 DEF Deliver, LogType, Basics, TypeOK
  <2>3. CASE q # r
    <3>1. log'[r] = log[r]
      BY <2>2, <2>3 DEF Basics, TypeOK
    <3>2. \A v \in Holding(r) : /\ tick'[v].read[r] = tick[v].read[r]
                                /\ r \in tick'[v].given <=> r \in tick[v].given
      BY <1>1, <1>2, <1>4, <2>3
    <3> QED
      BY <1>1, <3>1, <3>2, CostsFrame, PaidFrame
  <2>4. CASE q = r
    <3>1. /\ log[r].strays \in Nat /\ log[r].races \in Nat /\ log[r].excuses \in Nat
          /\ Cardinality(Astray(r)) \in Nat /\ Cardinality(Passed(r)) \in Nat
          /\ IsFiniteSet(Astray(r))
      BY LogNumbers, CostsFinite DEF Basics
    <3>2. /\ log'[r].strays = log[r].strays + stray
          /\ log'[r].races = log[r].races /\ log'[r].excuses = log[r].excuses
      <4> HIDE DEF slot, stray
      <4> QED
        BY <2>1, <2>2, <2>4 DEF LogType, Basics, TypeOK
    <3>3. stray = One(Wild(tick[w].read[r])) /\ stray \in {0, 1}
      BY <2>4 DEF One, Wild
    <3>4. \A v \in Holding(r) : Wild(tick[v].read[r])' = Wild(tick[v].read[r])
      BY <1>1, <1>2 DEF Wild, Fires
    <3>5. Live(r)' = Live(r) /\ Wild(row[r])' = Wild(row[r])
      BY <1>1 DEF Live, Wild, Fires
    <3>6. Astray(r)' = Astray(r) \ {w}
      BY <1>1, <1>2, <1>4, <2>4, <3>4 DEF Astray
    <3>7. w \in Astray(r) <=> Wild(tick[w].read[r])
      BY <1>4, <2>4 DEF Astray
    <3>8. Passed(r)' = Passed(r)
      BY <1>1, <1>2, <3>5 DEF Passed
    <3>9. Loose(r)' => Loose(r)
      BY <1>1, <1>2, <1>4, <2>4, <3>4, <3>5 DEF Loose
    <3>10. Cardinality(Astray(r) \ {w}) = IF w \in Astray(r)
                THEN Cardinality(Astray(r)) - 1 ELSE Cardinality(Astray(r))
      BY <3>1, FS_RemoveElement
    <3> HIDE DEF stray
    <3>11. Cardinality(Astray(r))' + stray = Cardinality(Astray(r))
           /\ Cardinality(Astray(r))' \in Int
      BY <3>1, <3>3, <3>6, <3>7, <3>10 DEF One
    <3>12. Cardinality(Passed(r))' = Cardinality(Passed(r))
      BY <3>8
    <3>13. /\ One(Loose(r)) \in {0, 1} /\ One(Loose(r))' \in {0, 1}
           /\ One(Loose(r))' <= One(Loose(r))
      BY <3>9 DEF One
    <3> QED
      BY <3>1, <3>2, <3>3, <3>11, <3>12, <3>13 DEF Paid
  <2> QED
    BY <2>3, <2>4
<1> QED
  BY <1>3, <1>4, TreatEffect DEF Basics

LEMMA EndPays ==
    ASSUME Basics, NEW r \in Rows, Paid(r),
           NEW w \in Workers, Commit(w) \/ CommitRaises(w) \/ Crash(w)
    PROVE  Paid(r)'
<1>1. /\ Holding(r)' = Holding(r) \ {w}
      /\ \A v \in Workers \ {w} : tick'[v] = tick[v]
      /\ row'[r].state = row[r].state /\ row'[r].cron = row[r].cron
  BY EndEffect DEF Basics
<1>2. Holding(r) \subseteq Workers
  BY DEF Holding
<1>3. /\ log[r].strays \in Nat /\ log[r].races \in Nat /\ log[r].excuses \in Nat
      /\ log[r] \in LogType
      /\ Cardinality(Astray(r)) \in Nat /\ Cardinality(Passed(r)) \in Nat
      /\ IsFiniteSet(Astray(r)) /\ IsFiniteSet(Passed(r))
  BY LogNumbers, CostsFinite DEF Basics
<1>4. \A v \in Holding(r) \ {w} : Wild(tick[v].read[r])' = Wild(tick[v].read[r])
  BY <1>1, <1>2 DEF Wild, Fires
<1>5. Live(r)' = Live(r)
  BY <1>1 DEF Live
<1>6. Astray(r)' = Astray(r) \ {w}
  BY <1>1, <1>2, <1>4 DEF Astray
<1>7. Passed(r)' = Passed(r) \ {w}
  BY <1>1, <1>2, <1>5 DEF Passed
<1>8. /\ Cardinality(Astray(r) \ {w}) = IF w \in Astray(r)
             THEN Cardinality(Astray(r)) - 1 ELSE Cardinality(Astray(r))
      /\ Cardinality(Passed(r) \ {w}) = IF w \in Passed(r)
             THEN Cardinality(Passed(r)) - 1 ELSE Cardinality(Passed(r))
  BY <1>3, FS_RemoveElement
<1>9. /\ Cardinality(Astray(r))' = Cardinality(Astray(r)) - One(w \in Astray(r))
      /\ Cardinality(Passed(r))' = Cardinality(Passed(r)) - One(w \in Passed(r))
  BY <1>3, <1>6, <1>7, <1>8 DEF One
<1>10. /\ One(w \in Astray(r)) \in {0, 1} /\ One(w \in Passed(r)) \in {0, 1}
       /\ One(Loose(r)) \in {0, 1} /\ One(Loose(r))' \in {0, 1}
  BY DEF One
<1>11. ASSUME log'[r] = log[r],
              Loose(r)' => Loose(r) \/ w \in Astray(r) \/ w \in Passed(r)
       PROVE  Paid(r)'
  <2>1. One(Loose(r))' <= One(Loose(r)) + One(w \in Astray(r)) + One(w \in Passed(r))
    BY <1>11 DEF One
  <2> QED
    BY <1>3, <1>9, <1>10, <1>11, <2>1 DEF Paid
<1>12. CASE w \notin Holding(r)
  <2>1. row'[r] = row[r] /\ log'[r] = log[r] /\ Holding(r)' = Holding(r)
    BY <1>1, <1>12, EndEffect DEF Basics
  <2>2. \A v \in Holding(r) : tick'[v] = tick[v]
    BY <1>1, <1>2, <1>12
  <2> QED
    BY <2>1, <2>2, CostsFrame, PaidFrame
<1>13. CASE log'[r] = [log[r] EXCEPT !.excuses = @ + 1]
  <2>1. /\ log'[r].strays = log[r].strays /\ log'[r].races = log[r].races
        /\ log'[r].excuses = log[r].excuses + 1
    BY <1>3, <1>13 DEF LogType
  <2> QED
    BY <1>3, <1>9, <1>10, <2>1 DEF Paid
<1>14. CASE /\ w \in Holding(r) /\ log'[r] = log[r]
            /\ row'[r] = row[r] /\ r \notin tick[w].given
  <2>1. Wild(row[r])' = Wild(row[r])
    BY <1>14 DEF Wild, Fires
  <2>2. Loose(r)' => Loose(r) \/ w \in Astray(r)
    BY <1>1, <1>2, <1>4, <1>5, <1>14, <2>1 DEF Loose, Astray
  <2> QED
    BY <1>11, <1>14, <2>2
<1>15. CASE /\ w \in Holding(r) /\ log'[r] = log[r]
            /\ Live(r) => LET c == tick[w].read[r].cron
                              n == NextRun(c, tick[w].start)
                          IN n # Never /\ row'[r].next = n
  <2> DEFINE c == tick[w].read[r].cron
             n == NextRun(c, tick[w].start)
  <2>1. c \in Crons /\ tick[w].start \in Times
    BY <1>15 DEF Basics, Defined, Holding, TypeOK
  <2>2. n # Never => Fires(c, n)
    BY NextRunFound
  <2> HIDE DEF n
  <2>3. Live(r) => n # Never /\ row'[r].next = n
    BY <1>15 DEF n
  <2>4. Live(r) /\ Wild(row[r])' => row[r].cron # c
    BY <1>1, <2>2, <2>3 DEF Wild, Fires
  <2>5. Loose(r)' => w \in Passed(r)
    BY <1>5, <1>15, <2>4 DEF Loose, Passed
  <2> QED
    BY <1>11, <1>15, <2>5
<1> QED
  BY <1>12, <1>13, <1>14, <1>15, EndEffect DEF Basics

LEMMA PaidStep == Basics /\ AllPaid /\ [Next]_vars => AllPaid'
<1> SUFFICES ASSUME Basics, AllPaid, [Next]_vars, NEW r \in Rows
             PROVE  Paid(r)'
  BY DEF AllPaid
<1>1. Paid(r)
  BY DEF AllPaid
<1>2. CASE UNCHANGED vars \/ Clock
  <2>1. UNCHANGED <<row, tick, log>> /\ Holding(r)' = Holding(r)
    BY <1>2 DEF vars, Clock, Holding
  <2> QED
    BY <1>1, <2>1, CostsFrame, PaidFrame
<1> QED
  BY <1>1, <1>2, UserPays, SelectPays, TreatPays, EndPays DEF Next

LEMMA PaidInit == Init => AllPaid
<1> SUFFICES ASSUME Init, NEW r \in Rows
             PROVE  Paid(r)
  BY DEF AllPaid
<1>1. log[r] = NoLog /\ Holding(r) = {}
  BY NobodyHolds
<1>2. PICK c \in Crons :
          /\ NextRun(c, -1) # Never
          /\ row[r] \in {Scheduled(c, -1, TRUE, "sound"), Unborn}
  BY DEF Init
<1>3. ~Wild(Scheduled(c, -1, TRUE, "sound"))
  BY <1>2, ScheduledTame
<1>4. ~Loose(r)
  <2>1. CASE row[r] = Unborn
    BY <2>1 DEF Loose, Live, Unborn
  <2>2. CASE row[r] = Scheduled(c, -1, TRUE, "sound")
    <3>1. ~Wild(row[r])
      BY <1>3, <2>2 DEF Wild
    <3> QED
      BY <3>1 DEF Loose
  <2> QED
    BY <1>2, <2>1, <2>2
<1>5. Astray(r) = {} /\ Passed(r) = {}
  BY <1>1 DEF Astray, Passed
<1>6. Cardinality(Astray(r)) = 0 /\ Cardinality(Passed(r)) = 0 /\ One(Loose(r)) = 0
  BY <1>4, <1>5, FS_EmptySet DEF One
<1> QED
  BY <1>1, <1>6 DEF Paid, NoLog

LEMMA PaidBound == Basics /\ AllPaid => StraysAreRaces
<1> SUFFICES ASSUME Basics, AllPaid, NEW r \in Rows
             PROVE  log[r].strays <= log[r].races + log[r].excuses
  BY DEF StraysAreRaces
<1>1. Paid(r)
  BY DEF AllPaid
<1>2. /\ log[r].strays \in Nat /\ log[r].races \in Nat /\ log[r].excuses \in Nat
      /\ Cardinality(Astray(r)) \in Nat /\ Cardinality(Passed(r)) \in Nat
      /\ One(Loose(r)) \in {0, 1}
  BY LogNumbers, CostsFinite DEF Basics, One
<1> QED
  BY <1>1, <1>2 DEF Paid

(* Deliveries at times the expression does not name are paid for: each by  *)
(* a tick that had the row when its expression was changed, that never     *)
(* committed, that switched the schedule off or that read it while another *)
(* had it, for any number of schedules, workers, edits and faults.         *)
THEOREM StraysPaid == Spec => []StraysAreRaces
<1>1. Init => Basics /\ AllPaid
  BY BasicsInit, PaidInit
<1>2. Basics /\ AllPaid /\ [Next]_vars => Basics' /\ AllPaid'
  BY BasicsStep, PaidStep
<1> QED
  BY <1>1, <1>2, PaidBound, PTL DEF Spec
=============================================================================
