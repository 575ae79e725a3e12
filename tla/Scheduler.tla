------------------------------ MODULE Scheduler ------------------------------
(***************************************************************************)
(* SchedulerService (agent_core/scheduler.py): schedules in an append-only *)
(* file that several processes read and write, one of which, the holder of *)
(* the leader lock, polls for due schedules and runs them on threads.      *)
(*                                                                         *)
(* Time is counted in ticks.  The file is modelled by what _reload makes   *)
(* of it; each _append is one action, so other processes can come between  *)
(* a reload and the append based on it.  The lock of a service only        *)
(* excludes threads of its own process.  Prompts and sessions are left out.*)
(***************************************************************************)
EXTENDS Integers, FiniteSets, FiniteSetsExt

CONSTANTS
    Schedules,    \* ids uuid4 can return
    Pollers,      \* processes that run the scheduler thread
    Editors,      \* tool calls and GUI requests that change schedules
    Home,         \* Home[e]: the poller process e runs in, or None
    Triggers,     \* triggers and ends a user may choose
    Ends,
    Minute,       \* ticks in the minute after which a cron time is missed
    HasRunner,    \* whether the service has a runner
    None,
    MaxTime, MaxEdits, MaxCrashes, MaxTorn, MaxRunFaults   \* bounds

ASSUME HomeAssumption == Home \in [Editors -> Pollers \cup {None}]
ASSUME RunnerAssumption == HasRunner \in BOOLEAN
ASSUME BoundsAssumption == {Minute, MaxTime, MaxEdits, MaxCrashes, MaxTorn, MaxRunFaults} \subseteq Nat
\* Times start at 1; Never stands for Python's None.
Never == 0
ASSUME TriggersAssumption ==
    /\ Ends \subseteq Nat
    /\ Triggers \subseteq
         [type : {"once"}, at : Nat \ {0}]
           \cup [type : {"interval"}, every : Nat \ {0}, start : Nat]
           \cup [type : {"cron"}, at : SUBSET (Nat \ {0})]

VARIABLES
    now,
    disk,      \* the schedules of the file: a record or None
    runs,      \* the runs of the file
    file,      \* "clean", "torn" (unfinished last line) or "broken"
    alive,     \* processes whose scheduler thread runs
    boot,      \* how often a process was started again
    leader,    \* holder of the leader lock
    plan,      \* per poller: schedules still to be appended by poll_once
    due,       \* per poller: due schedules whose run is still to be recorded
    busy,      \* SchedulerService._running
    edit,      \* per editor: the record it will append, or None
    edits, torn, runFaults

schedulerVars == <<now, disk, runs, file, alive, boot, leader, plan, due, busy, edit, edits, torn, runFaults>>

-----------------------------------------------------------------------------
(* Triggers.                                                               *)

\* _next_occurrence.
NextOccurrence(trigger, end, after) ==
    LET delta == trigger.every
        first == IF trigger.start # Never THEN trigger.start ELSE after + delta
        later == {t \in trigger.at : t > after}
        candidate ==
          CASE trigger.type = "once" -> IF trigger.at > after THEN trigger.at ELSE Never
            [] trigger.type = "interval" ->
                 IF first <= after THEN first + ((after - first) \div delta + 1) * delta
                                   ELSE first
            [] trigger.type = "cron" -> IF later = {} THEN Never ELSE Min(later)
    IN  IF end # Never /\ candidate > end THEN Never ELSE candidate

\* create_schedule and update_schedule: an interval starts after now, the other
\* triggers may still fire in the current second.
FirstOccurrence(trigger, end) ==
    NextOccurrence(trigger, end, IF trigger.type = "interval" THEN now ELSE now - 1)

\* _missed.
Missed(trigger, for) ==
    \/ trigger.type = "cron" /\ for < now - Minute
    \/ trigger.type = "interval" /\ now - for > trigger.every

\* Mutant: a missed interval restarts from the time of the poll.
AdvancedFromNow(s) ==
    [s EXCEPT !.next = IF s.trigger.type = "interval" /\ Missed(s.trigger, s.next)
                         THEN now + s.trigger.every
                         ELSE NextOccurrence(s.trigger, s.end, s.next),
              !.enabled = @ /\ s.trigger.type # "once"]

\* poll_once: what becomes of a due schedule.
Advanced(s) ==
    LET t == s.trigger
        skip == s.next + ((now - s.next) \div t.every + 1) * t.every
    IN  [s EXCEPT
          !.next = CASE ~Missed(t, s.next) -> NextOccurrence(t, s.end, s.next)
                     [] Missed(t, s.next) /\ t.type = "interval" ->
                          IF s.end = Never \/ skip <= s.end THEN skip ELSE Never
                     [] OTHER -> NextOccurrence(t, s.end, now),
          !.enabled = @ /\ t.type # "once"]

-----------------------------------------------------------------------------
SchedulerInit ==
    /\ now = 1
    /\ disk = [s \in Schedules |-> None]
    /\ runs = {}
    /\ file = "clean"
    /\ alive = Pollers
    /\ leader = None
    /\ plan = [p \in Pollers |-> {}]
    /\ due = [p \in Pollers |-> {}]
    /\ busy = [p \in Pollers |-> {}]
    /\ edit = [e \in Editors |-> None]
    /\ boot = [p \in Pollers |-> 0]
    /\ edits = 0 /\ torn = 0 /\ runFaults = 0

Tick ==
    /\ now < MaxTime
    /\ now' = now + 1
    /\ UNCHANGED <<disk, runs, file, alive, boot, leader, plan, due, busy, edit, edits, torn, runFaults>>

\* _append: after an unfinished line it produces an unreadable one.
Appended == file' = IF file = "clean" THEN "clean" ELSE "broken"
Readable == file # "broken"

\* The service's RLock, held from poll_once's reload to its last append and by an
\* editor of the same process between its own.
LockFree(p) == plan[p] = {} /\ \A e \in Editors : Home[e] = p => edit[e] = None

-----------------------------------------------------------------------------
(* create_schedule, update_schedule, delete_schedule.                      *)

CanEdit(e) ==
    /\ edit[e] = None
    /\ edits < MaxEdits
    /\ Readable
    /\ Home[e] # None => LockFree(Home[e])

Prepare(e, op, s, value) ==
    /\ edit' = [edit EXCEPT ![e] = [op |-> op, id |-> s, value |-> value]]
    /\ edits' = edits + 1
    /\ UNCHANGED <<now, disk, runs, file, alive, boot, leader, plan, due, busy, torn, runFaults>>

Create(e, s) ==
    /\ CanEdit(e)
    /\ disk[s] = None /\ \A r \in runs : r.id # s
    /\ \A f \in Editors : edit[f] # None => edit[f].id # s
    /\ \E t \in Triggers, end \in Ends :
          Prepare(e, "create", s,
                  [trigger |-> t, end |-> end, enabled |-> TRUE, version |-> edits + 1,
                   next |-> FirstOccurrence(t, end)])

\* A change of the trigger, the end or enabled; each recomputes next_run_at.
UpdateSchedule(e, s) ==
    /\ CanEdit(e)
    /\ disk[s] # None
    /\ \E t \in {disk[s].trigger} \cup Triggers, end \in {disk[s].end} \cup Ends,
          on \in BOOLEAN :
          Prepare(e, "update", s,
                  [trigger |-> t, end |-> end, enabled |-> on, version |-> edits + 1,
                   next |-> FirstOccurrence(t, end)])

Delete(e, s) ==
    /\ CanEdit(e)
    /\ Home[e] # None
    /\ disk[s] # None
    /\ Prepare(e, "delete", s, None)

EditAppend(e) ==
    /\ edit[e] # None
    /\ disk' = [disk EXCEPT ![edit[e].id] = edit[e].value]
    /\ Appended
    /\ edit' = [edit EXCEPT ![e] = None]
    /\ UNCHANGED <<now, runs, alive, boot, leader, plan, due, busy, edits, torn, runFaults>>

-----------------------------------------------------------------------------
(* The scheduler thread.                                                   *)

AcquireLeaderLock(p) ==
    /\ p \in alive
    /\ leader = None
    /\ leader' = p
    /\ UNCHANGED <<now, disk, runs, file, alive, boot, plan, due, busy, edit, edits, torn, runFaults>>

\* The first half of poll_once: reload and collect what is due.
DueNow == {s \in Schedules : /\ disk[s] # None
                             /\ disk[s].enabled
                             /\ disk[s].next # Never
                             /\ disk[s].next <= now}

Poll(p) ==
    /\ leader = p
    /\ plan[p] = {} /\ due[p] = {} /\ LockFree(p)
    /\ Readable /\ DueNow # {}
    /\ plan' = [plan EXCEPT ![p] = {[id |-> s, value |-> Advanced(disk[s])] : s \in DueNow}]
    /\ due' = [due EXCEPT ![p] =
                 {[id |-> s, for |-> disk[s].next, version |-> disk[s].version,
                   missed |-> Missed(disk[s].trigger, disk[s].next)] : s \in DueNow}]
    /\ UNCHANGED <<now, disk, runs, file, alive, boot, leader, busy, edit, edits, torn, runFaults>>

\* _reload raises ValueError: the thread dies and releases the leader lock.
PollFails(p) ==
    /\ leader = p
    /\ plan[p] = {} /\ due[p] = {}
    /\ ~Readable
    /\ leader' = None
    /\ alive' = alive \ {p}
    /\ UNCHANGED <<now, disk, runs, file, boot, plan, due, busy, edit, edits, torn, runFaults>>

PollAppend(p) ==
    \E u \in plan[p] :
        /\ disk' = [disk EXCEPT ![u.id] = u.value]
        /\ Appended
        /\ plan' = [plan EXCEPT ![p] = @ \ {u}]
        /\ UNCHANGED <<now, runs, alive, boot, leader, due, busy, edit, edits, torn, runFaults>>

\* Mutant: the previous run is not looked up in _running.
RunStatusUnchecked(p, d) ==
    CASE d.missed -> "skipped"
      [] ~d.missed /\ ~HasRunner -> "failed"
      [] OTHER -> "running"

\* The second half: one run per due schedule, started if none of it is running.
RunStatus(p, d) ==
    CASE d.missed -> "skipped"
      [] ~d.missed /\ d.id \in busy[p] -> "skipped"
      [] ~d.missed /\ d.id \notin busy[p] /\ ~HasRunner -> "failed"
      [] OTHER -> "running"

Run(p, d, status) ==
    [id |-> d.id, for |-> d.for, version |-> d.version, by |-> <<p, boot[p]>>, status |-> status]

\* Mutant: the run is started before next_run_at has moved on.
RecordRunFirst(p) ==
    /\ \E d \in due[p] :
          /\ runs' = runs \cup {Run(p, d, RunStatus(p, d))}
          /\ busy' = [busy EXCEPT ![p] = IF RunStatus(p, d) = "running" THEN @ \cup {d.id} ELSE @]
          /\ due' = [due EXCEPT ![p] = @ \ {d}]
    /\ Appended
    /\ UNCHANGED <<now, disk, alive, boot, leader, plan, edit, edits, torn, runFaults>>

\* Mutant: missed occurrences leave no run behind.
RecordRunUnlessMissed(p) ==
    /\ plan[p] = {} /\ LockFree(p)
    /\ \E d \in due[p] :
          /\ runs' = IF d.missed THEN runs ELSE runs \cup {Run(p, d, RunStatus(p, d))}
          /\ busy' = [busy EXCEPT ![p] = IF RunStatus(p, d) = "running" THEN @ \cup {d.id} ELSE @]
          /\ due' = [due EXCEPT ![p] = @ \ {d}]
    /\ Appended
    /\ UNCHANGED <<now, disk, alive, boot, leader, plan, edit, edits, torn, runFaults>>

RecordRun(p) ==
    /\ plan[p] = {} /\ LockFree(p)
    /\ \E d \in due[p] :
          /\ runs' = runs \cup {Run(p, d, RunStatus(p, d))}
          /\ busy' = [busy EXCEPT ![p] = IF RunStatus(p, d) = "running" THEN @ \cup {d.id} ELSE @]
          /\ due' = [due EXCEPT ![p] = @ \ {d}]
    /\ Appended
    /\ UNCHANGED <<now, disk, alive, boot, leader, plan, edit, edits, torn, runFaults>>

\* The threads of p.
Executing(p) == {r \in runs : r.status = "running" /\ r.by = <<p, boot[p]>>}

\* _execute: the runner returns or raises.
RunEnds(p) ==
    /\ LockFree(p)
    /\ \E r \in Executing(p), status \in {"completed", "failed"} :
          /\ runs' = (runs \ {r}) \cup {[r EXCEPT !.status = status]}
          /\ busy' = [busy EXCEPT ![p] = @ \ {r.id}]
    /\ Appended
    /\ UNCHANGED <<now, disk, alive, boot, leader, plan, due, edit, edits, torn, runFaults>>

\* An append of poll_once raises OSError: the thread ends and releases the leader
\* lock; the runs it started go on.
PollAppendFails(p) ==
    /\ runFaults < MaxRunFaults
    /\ plan[p] \cup due[p] # {}
    /\ runFaults' = runFaults + 1
    /\ leader' = None
    /\ alive' = alive \ {p}
    /\ plan' = [plan EXCEPT ![p] = {}]
    /\ due' = [due EXCEPT ![p] = {}]
    /\ UNCHANGED <<now, disk, runs, file, boot, busy, edit, edits, torn>>

\* The process ends, perhaps inside an append, and is started again.
Crash(p) ==
    /\ MapThenSumSet(LAMBDA q : boot[q], Pollers) < MaxCrashes
    /\ boot' = [boot EXCEPT ![p] = @ + 1]
    /\ alive' = alive \cup {p}
    /\ leader' = IF leader = p THEN None ELSE leader
    /\ plan' = [plan EXCEPT ![p] = {}]
    /\ due' = [due EXCEPT ![p] = {}]
    /\ busy' = [busy EXCEPT ![p] = {}]
    /\ edit' = [e \in Editors |-> IF Home[e] = p THEN None ELSE edit[e]]
    /\ \/ UNCHANGED <<file, torn>>
       \/ /\ torn < MaxTorn /\ ~LockFree(p)
          /\ torn' = torn + 1
          /\ file' = IF file = "clean" THEN "torn" ELSE "broken"
    /\ UNCHANGED <<now, disk, runs, edits, runFaults>>

SchedulerNext ==
    \/ Tick
    \/ \E e \in Editors :
         EditAppend(e) \/ \E s \in Schedules : Create(e, s) \/ UpdateSchedule(e, s) \/ Delete(e, s)
    \/ \E p \in Pollers :
         \/ AcquireLeaderLock(p) \/ Poll(p) \/ PollFails(p) \/ PollAppend(p)
         \/ RecordRun(p) \/ RunEnds(p) \/ PollAppendFails(p) \/ Crash(p)

SchedulerSpec == SchedulerInit /\ [][SchedulerNext]_schedulerVars

\* The scheduler thread wakes up every second; an edit that read the file goes on
\* to its append.
SchedulerFairness ==
    /\ \A p \in Pollers : /\ WF_schedulerVars(AcquireLeaderLock(p))
                          /\ WF_schedulerVars(Poll(p))
                          /\ WF_schedulerVars(PollAppend(p))
                          /\ WF_schedulerVars(RecordRun(p))
    /\ \A e \in Editors : WF_schedulerVars(EditAppend(e))

SchedulerFairSpec == SchedulerSpec /\ SchedulerFairness

-----------------------------------------------------------------------------
(* Properties.                                                             *)

\* An occurrence is handled once: whichever process polls, dies or takes over,
\* no two runs are recorded for one time of one definition of a schedule, and a
\* recorded time is never scheduled again (poll_once moves next_run_at on before
\* it records the run).
OccurrenceOnce ==
    /\ \A q, r \in runs : q.id = r.id /\ q.version = r.version /\ q.for = r.for => q = r
    /\ \A r \in runs : disk[r.id] # None /\ disk[r.id].version = r.version =>
                          disk[r.id].next = Never \/ disk[r.id].next > r.for

\* Two runs of one schedule never execute at the same time in processes whose
\* scheduler works, also across a change of leader, and _running says which
\* schedules have a thread: none is blocked by a run that is over.
NoOverlap ==
    /\ \A p, q \in alive : \A r \in Executing(p), o \in Executing(q) : r.id = o.id => r = o
    /\ \A p \in alive : busy[p] = {r.id : r \in Executing(p)}

\* Runs follow the definition in force: however late the polls and however many
\* occurrences are missed, the runs of an interval and its next one are whole
\* periods apart (and from its start), none lies after the end, a cron run is at a
\* matching minute, and a recurring schedule the user disabled gets none.
FollowsDefinition ==
    \A s \in Schedules : disk[s] # None =>
        LET schedule == disk[s]
            times == {r.for : r \in {x \in runs : x.id = s /\ x.version = schedule.version}}
            next == {schedule.next} \ {Never}
            trigger == schedule.trigger
        IN  /\ trigger.type = "interval" =>
                 \A t, u \in times \cup next \cup ({trigger.start} \ {Never}) :
                     (t - u) % trigger.every = 0
            /\ trigger.type = "cron" => times \cup next \subseteq trigger.at
            /\ schedule.end # Never => \A t \in times \cup next : t <= schedule.end
            /\ trigger.type # "once" /\ ~schedule.enabled => times = {}

\* The times at which some schedule can be due.
Times ==
    {NextOccurrence(trigger, end, after) :
        trigger \in Triggers, end \in Ends, after \in 0..MaxTime} \cap 1..MaxTime

\* Unless a process dies or an append fails, a due schedule is dealt with: the
\* time is recorded as a run, or the file gets another definition of the schedule.
DueIsRecorded ==
    \A s \in Schedules, t \in Times, v \in 1..MaxEdits :
        LET isDue == /\ disk[s] # None /\ disk[s].enabled /\ disk[s].version = v
                     /\ disk[s].next = t /\ t <= now
            recorded == \E r \in runs : r.id = s /\ r.version = v /\ r.for = t
            replaced == disk[s] = None \/ disk[s].version # v
        IN  isDue ~> (recorded \/ replaced \/ runFaults > 0 \/ \E p \in Pollers : boot[p] > 0)

\* The scheduler is sound: an occurrence is handled once, runs do not overlap,
\* and they follow the definition they were recorded for (scheduler.py, the three
\* above).
ScheduleSound == OccurrenceOnce /\ NoOverlap /\ FollowsDefinition
=============================================================================
