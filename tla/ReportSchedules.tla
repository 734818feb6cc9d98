--------------------------- MODULE ReportSchedules ---------------------------
(***************************************************************************)
(* Scheduled reports: the dispatch tick of workers/report_dispatch.py and  *)
(* the schedule operations of api/routers/reports.py.                      *)
(*                                                                         *)
(* The tick reads every due schedule at once, runs and delivers the        *)
(* reports one after another, each of which may take long, and writes all  *)
(* of its rows in one commit at the end.  Beat starts a tick every minute  *)
(* whether or not the last one has ended, and users edit the schedules     *)
(* meanwhile.                                                              *)
(*                                                                         *)
(* Time is counted in minutes, and a cron expression is the set of minutes *)
(* it matches.  A delivery may take for ever: the mail relay is spoken to  *)
(* without a timeout, and tasks have none.  The columns last_run_at,       *)
(* last_status and last_error are for the reader only and are left out.    *)
(***************************************************************************)
EXTENDS Integers, FiniteSets

CONSTANTS
    Rows,       \* ids of schedules
    First,      \* those that are there at the start
    Workers,    \* worker processes that run the task
    Crons,      \* cron expressions
    Horizon,    \* how far compute_next_run looks ahead
    MaxTime,    \* bound on the clock
    MaxEdits,   \* bound on what users do
    MaxFaults   \* bound on passing database errors, crashes, and, with a
                \* failing report due, on overlaps and vain deliveries

Times == 0 .. MaxTime
Never == -1     \* compute_next_run raised

(* Times that can be in next_run_at.                                       *)
Slots == 0 .. (MaxTime + Horizon)

ASSUME ScheduleAssumption ==
    /\ First \subseteq Rows
    /\ Crons \subseteq SUBSET Nat
    /\ Horizon \in Nat
    /\ MaxTime \in Nat
    /\ MaxEdits \in Nat
    /\ MaxFaults \in Nat

VARIABLES
    now,        \* the clock
    row,        \* Rows -> the schedule
    tick,       \* Workers -> the tick it runs
    log,        \* Rows -> what was delivered and why it may be again
    edits, faults

vars == <<now, row, tick, log, edits, faults>>

(* The saved report of a schedule: one that can be run, one the database   *)
(* always refuses (the value of a filter is not checked against the type   *)
(* of its column), or none.                                                *)
Reports == {"sound", "failing", "gone"}

(* A schedule that was not created yet, what a tick has read of a row it   *)
(* did not select, and a tick that does not run.                           *)
Unborn == [state |-> "unborn", report |-> "gone", enabled |-> FALSE,
           cron |-> {}, next |-> 0]
Unread == [cron |-> {}, next |-> 0]
Idle   == [at |-> "idle", start |-> 0, todo |-> {}, done |-> {},
           given |-> {}, read |-> [r \in Rows |-> Unread], broken |-> FALSE]

(* Deliveries for each slot; those at a time the expression does not name; *)
(* ticks that excuse another delivery, because they delivered and never    *)
(* committed, switched the schedule off, or read the row while another had *)
(* it; ticks that had the row when its expression was changed.             *)
NoLog == [sent |-> [s \in Slots |-> 0], strays |-> 0, excuses |-> 0, races |-> 0]

LogType == [sent: [Slots -> Nat], strays: Nat, excuses: Nat, races: Nat]

RowType == [state: {"unborn", "live", "deleted"}, report: Reports,
            enabled: BOOLEAN, cron: Crons \cup {{}}, next: Slots]

ReadType == [cron: Crons \cup {{}}, next: Slots]

TypeOK ==
    /\ now \in Times
    /\ row \in [Rows -> RowType]
    /\ tick \in [Workers -> [at: {"idle", "running"}, start: Times,
                             todo: SUBSET Rows, done: SUBSET Rows,
                             given: SUBSET Rows, read: [Rows -> ReadType],
                             broken: BOOLEAN]]
    /\ log \in [Rows -> LogType]
    /\ edits \in 0 .. MaxEdits
    /\ faults \in 0 .. MaxFaults

Fires(c, s) == s \in c

(* The first of the minutes from a to b at which c fires.                  *)
Found(c, a, b) ==
    LET first == {n \in a .. b : Fires(c, n) /\ \A m \in a .. (n - 1) : ~Fires(c, m)}
    IN  IF first = {} THEN Never ELSE CHOOSE n \in first : TRUE

(* Mutant of NextRun: the search starts with the minute it is given.       *)
NextRunFromNow(c, t) == Found(c, t, t + Horizon)

(* compute_next_run: the first time after t at which c fires.              *)
NextRun(c, t) == Found(c, t + 1, t + Horizon)

(* A schedule that is written at time t.                                   *)
Scheduled(c, t, on, report) ==
    [state |-> "live", report |-> report, enabled |-> on,
     cron |-> c, next |-> NextRun(c, t)]

(* At time 0 some schedules are there already, written a minute before.    *)
Init ==
    /\ now = 0
    /\ \E c \in {k \in Crons : NextRun(k, -1) # Never} :
           row = [r \in Rows |-> IF r \in First THEN Scheduled(c, -1, TRUE, "sound")
                                 ELSE Unborn]
    /\ tick = [w \in Workers |-> Idle]
    /\ log = [r \in Rows |-> NoLog]
    /\ edits = 0
    /\ faults = 0

(* Ticks that have read row r and not committed.                           *)
Holding(r) == {w \in Workers : r \in tick[w].todo \cup tick[w].done}

(* The log after an entry for each of the rows rs.                         *)
Logged(rs, Entry(_)) ==
    [r \in Rows |-> IF r \in rs THEN Entry(log[r]) ELSE log[r]]

(* The expression of r changes while these ticks have it.                  *)
Raced(r) ==
    log' = [log EXCEPT ![r].races = @ + Cardinality(Holding(r))]

-----------------------------------------------------------------------------
(* The user's side: one request, one commit each.                          *)

Edit(r, new) ==
    /\ edits < MaxEdits
    /\ edits' = edits + 1
    /\ row' = [row EXCEPT ![r] = new]
    /\ UNCHANGED <<now, tick, faults>>

Live(r) == row[r].state = "live"

(* create_schedule: refused when the expression does not fire in time.     *)
Create(r) == \E c \in Crons, on \in BOOLEAN, report \in {"sound", "failing"} :
    /\ row[r].state = "unborn"
    /\ NextRun(c, now) # Never
    /\ Edit(r, Scheduled(c, now, on, report))
    /\ UNCHANGED log

(* Mutant of PatchCron: the old next run stays.                            *)
PatchCronOnly(r) == \E c \in Crons \ {row[r].cron} :
    /\ Live(r)
    /\ NextRun(c, now) # Never
    /\ Edit(r, [row[r] EXCEPT !.cron = c])
    /\ Raced(r)

(* update_schedule with a new expression.                                  *)
PatchCron(r) == \E c \in Crons \ {row[r].cron} :
    /\ Live(r)
    /\ NextRun(c, now) # Never
    /\ Edit(r, [row[r] EXCEPT !.cron = c, !.next = NextRun(c, now)])
    /\ Raced(r)

(* update_schedule that switches the schedule on or off; switching it on   *)
(* leaves a next run that has passed.                                      *)
Toggle(r) ==
    /\ Live(r)
    /\ Edit(r, [row[r] EXCEPT !.enabled = ~@])
    /\ UNCHANGED log

(* update_saved_report with another query.                                 *)
PatchReport(r) == \E report \in {"sound", "failing"} \ {row[r].report} :
    /\ Live(r)
    /\ Edit(r, [row[r] EXCEPT !.report = report])
    /\ UNCHANGED log

(* delete_schedule, or delete of its saved report, which cascades.         *)
Delete(r) == \E report \in {row[r].report, "gone"} :
    /\ Live(r)
    /\ Edit(r, [Unborn EXCEPT !.state = "deleted", !.report = report])
    /\ UNCHANGED log

-----------------------------------------------------------------------------
(* The tick.                                                               *)

Failing == {r \in Rows : row[r].report = "failing"}

Due == {r \in Rows : Live(r) /\ row[r].enabled /\ row[r].next <= now}

(* What is bounded costs one of MaxFaults.                                 *)
Costs(bounded) ==
    /\ bounded => faults < MaxFaults
    /\ faults' = IF bounded THEN faults + 1 ELSE faults

(* One query reads the due rows; without any the tick is over.             *)
Select(w) ==
    /\ tick[w].at = "idle"
    /\ Due # {}
    /\ Costs(Failing \cap Due # {} /\ \E r \in Due : Holding(r) # {})
    /\ tick' = [tick EXCEPT ![w] =
           [at |-> "running", start |-> now, todo |-> Due, done |-> {},
            given |-> {}, broken |-> FALSE,
            read |-> [r \in Rows |-> IF r \in Due
                         THEN [cron |-> row[r].cron, next |-> row[r].next]
                         ELSE Unread]]]
    /\ log' = Logged({r \in Due : Holding(r) # {}},
                     LAMBDA l : [l EXCEPT !.excuses = @ + 1])
    /\ UNCHANGED <<now, row, edits>>

Running(w) == tick[w].at = "running"

(* _dispatch_one runs the report and delivers it.                          *)
Deliver(w, r) ==
    /\ r \in tick[w].todo
    /\ ~tick[w].broken
    /\ row[r].report = "sound"
    /\ Costs(Failing \cap tick[w].todo # {})
    /\ tick' = [tick EXCEPT ![w].todo = @ \ {r}, ![w].done = @ \cup {r},
                            ![w].given = @ \cup {r}]
    /\ LET slot == tick[w].read[r].next
           stray == IF Fires(tick[w].read[r].cron, slot) THEN 0 ELSE 1
       IN  log' = [log EXCEPT ![r].sent[slot] = @ + 1, ![r].strays = @ + stray]
    /\ UNCHANGED <<now, row, edits>>

(* It is refused, or an exception is caught; either is noted on the row.   *)
Fail(w, r) ==
    /\ r \in tick[w].todo
    /\ r \in Failing => tick[w].broken
    /\ tick' = [tick EXCEPT ![w].todo = @ \ {r}, ![w].done = @ \cup {r}]
    /\ UNCHANGED <<now, row, log, edits, faults>>

(* It fails in the database, once or every time.  The exception is caught  *)
(* as well, but the transaction is not rolled back: nothing of this tick   *)
(* will work again.                                                        *)
FailInDatabase(w, r) ==
    /\ r \in tick[w].todo
    /\ ~tick[w].broken
    /\ row[r].report # "gone"
    /\ Costs(r \notin Failing)
    /\ tick' = [tick EXCEPT ![w].todo = @ \ {r}, ![w].done = @ \cup {r},
                            ![w].broken = TRUE]
    /\ UNCHANGED <<now, row, log, edits>>

(* Mutant of Written: what compute_next_run raises is taken for a time.    *)
WrittenAnyway(w, r) ==
    [row[r] EXCEPT !.next = NextRun(tick[w].read[r].cron, tick[w].start)]

(* What the commit writes of a row: the columns the tick has changed.      *)
Written(w, r) ==
    LET next == NextRun(tick[w].read[r].cron, tick[w].start) IN
    IF next = Never THEN [row[r] EXCEPT !.enabled = FALSE]
    ELSE [row[r] EXCEPT !.next = next]

SwitchedOff(w) == {r \in tick[w].done :
    NextRun(tick[w].read[r].cron, tick[w].start) = Never}

(* Mutant of Commit: the rows that were delivered are advanced only.       *)
CommitDelivered(w) ==
    /\ Running(w)
    /\ tick[w].todo = {}
    /\ ~tick[w].broken
    /\ row' = [r \in Rows |-> IF r \in tick[w].given /\ Live(r)
                              THEN Written(w, r) ELSE row[r]]
    /\ log' = Logged(SwitchedOff(w), LAMBDA l : [l EXCEPT !.excuses = @ + 1])
    /\ tick' = [tick EXCEPT ![w] = Idle]
    /\ UNCHANGED <<now, edits, faults>>

(* The commit.  A row that was deleted meanwhile matches no row; when it   *)
(* is written together with others that goes unnoticed.                    *)
Commit(w) ==
    /\ Running(w)
    /\ tick[w].todo = {}
    /\ ~tick[w].broken
    /\ row' = [r \in Rows |-> IF r \in tick[w].done /\ Live(r)
                              THEN Written(w, r) ELSE row[r]]
    /\ log' = Logged(SwitchedOff(w), LAMBDA l : [l EXCEPT !.excuses = @ + 1])
    /\ tick' = [tick EXCEPT ![w] = Idle]
    /\ UNCHANGED <<now, edits, faults>>

(* Nothing of the tick is written.                                         *)
Lose(w) ==
    /\ log' = Logged(tick[w].given, LAMBDA l : [l EXCEPT !.excuses = @ + 1])
    /\ tick' = [tick EXCEPT ![w] = Idle]
    /\ UNCHANGED <<now, row, edits>>

(* The commit raises: the transaction had failed, or a row it updates by   *)
(* itself is gone (StaleDataError).                                        *)
CommitRaises(w) ==
    /\ Running(w)
    /\ tick[w].todo = {}
    /\ tick[w].broken \/ \E r \in tick[w].done : ~Live(r)
    /\ Lose(w)
    /\ UNCHANGED faults

(* The worker dies, or the commit does not reach the database.             *)
Crash(w) ==
    /\ Running(w)
    /\ faults < MaxFaults
    /\ faults' = faults + 1
    /\ Lose(w)

-----------------------------------------------------------------------------
Clock ==
    /\ now < MaxTime
    /\ now' = now + 1
    /\ UNCHANGED <<row, tick, log, edits, faults>>

Next ==
    \/ Clock
    \/ \E r \in Rows : Create(r) \/ PatchCron(r) \/ Toggle(r) \/ PatchReport(r)
                     \/ Delete(r)
    \/ \E w \in Workers : Select(w) \/ Commit(w) \/ CommitRaises(w) \/ Crash(w)
    \/ \E w \in Workers, r \in Rows :
           Deliver(w, r) \/ Fail(w, r) \/ FailInDatabase(w, r)

(* Beat starts tick after tick, and the database answers.  Of deliveries   *)
(* nothing is assumed.                                                     *)
Fairness == \A w \in Workers :
    /\ WF_vars(Select(w))
    /\ WF_vars(Commit(w) \/ CommitRaises(w))

Spec == Init /\ [][Next]_vars /\ Fairness

-----------------------------------------------------------------------------
(* A fire time is delivered once, and again only for a tick that never     *)
(* committed, for a schedule a tick switched off because its expression    *)
(* does not fire within the horizon (which keeps its old next run, and     *)
(* fires at once when a user switches it on again), or for a tick that     *)
(* read the schedule while another had it: once for each of these, however *)
(* the ticks overlap and set the next run back.                            *)
DeliveredOnce ==
    \A r \in Rows, s \in Slots :
        log[r].sent[s] <= 1 + log[r].excuses

(* A report goes out at a time its expression does not name only after an  *)
(* edit of the expression while ticks had the row, whose commits write the *)
(* next run of the old expression over the new one; once for each of these *)
(* ticks, and again for a lost commit, a switch-off or an overlap.         *)
StraysAreRaces ==
    \A r \in Rows :
        log[r].strays <= log[r].races + log[r].excuses

(* A schedule whose time has come is dealt with, whatever other schedules  *)
(* do, however deliveries end, and after errors of the database and        *)
(* crashes: it is advanced, or a user or the tick switches it off.  This   *)
(* takes a worker whose deliveries end, and that no report which always    *)
(* fails in the database is due from some time on: one such report keeps   *)
(* every schedule of every tenant from being advanced.                     *)
DueIsFired ==
    (\E w \in Workers : []<>(tick[w].todo = {}))
        => \/ \A r \in Rows : r \in Due ~> r \notin Due
           \/ <>[](Failing \cap Due # {})
=============================================================================
