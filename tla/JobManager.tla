----------------------------- MODULE JobManager -----------------------------
(***************************************************************************)
(* Background work of a turn: agent_core/jobs.py.                          *)
(*                                                                         *)
(* Three kinds of threads meet under the manager's condition lock: the     *)
(* agent thread of a turn (submit, drain_terminal_state, and, when the     *)
(* turn is cancelled or fails, cancel_and_discard), the executor's worker  *)
(* threads (_run), and the thread that closes the execution plane (close). *)
(* One action is one critical section of that lock; a call made of several *)
(* critical sections (cancel_and_discard, close) is several actions of a   *)
(* thread whose position is in `caller' or `closer'.                       *)
(*                                                                         *)
(* A Job's fields are functions over Jobs.  Job ids are fresh uuids, so    *)
(* which turn owns which id is a constant.  The order of _updates is       *)
(* abstracted: at most one update exists per job and status.  What a job   *)
(* computes is abstracted to its outcome.                                  *)
(***************************************************************************)
EXTENDS Naturals, FiniteSets

CONSTANTS
    Jobs,          \* job ids
    Turns,         \* turn ids
    TurnOf,        \* _Job.turn_id
    MaxWorkers,    \* ThreadPoolExecutor(max_workers)
    MaxProgress,   \* bound: progress reports of one job
    MaxFaults      \* bound: journal writes or executor calls that raise

ASSUME TurnOfAssumption == TurnOf \in [Jobs -> Turns]
ASSUME MaxWorkersAssumption == MaxWorkers \in Nat \ {0}
ASSUME MaxProgressAssumption == MaxProgress \in Nat
ASSUME MaxFaultsAssumption == MaxFaults \in Nat

VARIABLES
    status,    \* _Job.status, "none" before submit creates the job
    table,     \* the keys of JobManager._jobs
    token,     \* _Job.token.cancelled
    future,    \* the executor's Future of the job, "none" while unassigned
    progress,  \* _Job.progress, as the number of the last accepted report
    updates,   \* JobManager._updates
    record,    \* Session.jobs[job].status, "none" when absent
    saved,     \* Session.jobs[job].progress
    closed,    \* JobManager._closed
    caller,    \* where the agent thread of each turn is
    closer,    \* where the thread inside close() is
    closing,   \* close()'s local turn_ids: "cancel", then "wait"; else "out"
    faults,    \* how many journal writes or executor calls have raised
    finishes,  \* history: how often _finish_locked set a terminal status
    delivered  \* history: how often the job's result reached the agent

jobVars == <<status, table, token, future, progress, updates, record, saved>>
threadVars == <<closed, caller, closer, closing>>
historyVars == <<finishes, delivered>>
vars == <<jobVars, threadVars, faults, historyVars>>

Live == {"submitted", "running"}
Terminal == {"completed", "failed", "cancelled"}

\* A Future that a worker runs: before and after _run's first critical section.
Busy == {"picked", "running"}

Update(j, s) == [job |-> j, status |-> s]
JobsOf(t) == {j \in Jobs : TurnOf[j] = t}

\* The jobs of a turn that keep wait_for_turn, and `pending', true.
PendingJobs(t) == {j \in table \cap JobsOf(t) : status[j] \in Live}

\* The terminal updates of a turn, by job.
TerminalJobs(t) ==
    {j \in JobsOf(t) : \E s \in Terminal : Update(j, s) \in updates}

Init ==
    /\ status = [j \in Jobs |-> "none"]
    /\ table = {}
    /\ token = [j \in Jobs |-> FALSE]
    /\ future = [j \in Jobs |-> "none"]
    /\ progress = [j \in Jobs |-> 0]
    /\ updates = {}
    /\ record = [j \in Jobs |-> "none"]
    /\ saved = [j \in Jobs |-> 0]
    /\ closed = FALSE
    /\ caller = [t \in Turns |-> "active"]
    /\ closer = "idle"
    /\ closing = [t \in Turns |-> "out"]
    /\ faults = 0
    /\ finishes = [j \in Jobs |-> 0]
    /\ delivered = [j \in Jobs |-> 0]

-----------------------------------------------------------------------------
(* submit                                                                  *)

CanSubmit(j) ==
    /\ caller[TurnOf[j]] = "active"
    /\ status[j] = "none"
    /\ ~closed

SubmitFrame == UNCHANGED <<token, progress, saved, threadVars, historyVars>>

Submit(j) ==
    /\ CanSubmit(j)
    /\ table' = table \cup {j}
    /\ status' = [status EXCEPT ![j] = "submitted"]
    /\ updates' = updates \cup {Update(j, "submitted")}
    /\ record' = [record EXCEPT ![j] = "submitted"]
    /\ future' = [future EXCEPT ![j] = "pending"]
    /\ UNCHANGED faults
    /\ SubmitFrame

\* session.job_submitted raises: the job is in the table and published, the
\* journal and the executor never saw it, and nothing takes it out again.
SubmitSinkFails(j) ==
    /\ CanSubmit(j)
    /\ faults < MaxFaults
    /\ faults' = faults + 1
    /\ table' = table \cup {j}
    /\ status' = [status EXCEPT ![j] = "submitted"]
    /\ updates' = updates \cup {Update(j, "submitted")}
    /\ UNCHANGED <<record, future>>
    /\ SubmitFrame

\* executor.submit raises: table and updates are rolled back, the journal's
\* "submitted" fact stays.
SubmitExecutorFails(j) ==
    /\ CanSubmit(j)
    /\ faults < MaxFaults
    /\ faults' = faults + 1
    /\ status' = [status EXCEPT ![j] = "submitted"]
    /\ record' = [record EXCEPT ![j] = "submitted"]
    /\ UNCHANGED <<table, updates, future>>
    /\ SubmitFrame

-----------------------------------------------------------------------------
(* _finish_locked for the jobs of a set S that all end with status s, of   *)
(* which those in F find the journal sink raising: their status is set but *)
(* neither the record nor the update follows.                              *)

\* Mutant: a job whose token is set is not published.
FinishLockedUnpublished(S, F, s) ==
    /\ status' = [j \in Jobs |-> IF j \in S THEN s ELSE status[j]]
    /\ finishes' = [j \in Jobs |-> IF j \in S THEN finishes[j] + 1
                                              ELSE finishes[j]]
    /\ record' = [j \in Jobs |-> IF j \in S \ F THEN s ELSE record[j]]
    /\ saved' = [j \in Jobs |-> IF j \in S \ F THEN progress[j] ELSE saved[j]]
    /\ updates' = updates \cup {Update(j, s) : j \in {k \in S \ F : ~token[k]}}

FinishLocked(S, F, s) ==
    /\ status' = [j \in Jobs |-> IF j \in S THEN s ELSE status[j]]
    /\ finishes' = [j \in Jobs |-> IF j \in S THEN finishes[j] + 1
                                              ELSE finishes[j]]
    /\ record' = [j \in Jobs |-> IF j \in S \ F THEN s ELSE record[j]]
    /\ saved' = [j \in Jobs |-> IF j \in S \ F THEN progress[j] ELSE saved[j]]
    /\ updates' = updates \cup {Update(j, s) : j \in S \ F}

-----------------------------------------------------------------------------
(* The worker threads: ThreadPoolExecutor and JobManager._run.             *)

\* A worker takes a queued future; this does not hold the manager's lock.
WorkerPick(j) ==
    /\ future[j] = "pending"
    /\ Cardinality({k \in Jobs : future[k] \in Busy}) < MaxWorkers
    /\ future' = [future EXCEPT ![j] = "picked"]
    /\ UNCHANGED <<status, table, token, progress, updates, record, saved,
                   threadVars, faults, historyVars>>

WorkerStart(j) ==
    /\ future[j] = "picked"
    /\ ~token[j]
    /\ status' = [status EXCEPT ![j] = "running"]
    /\ record' = [record EXCEPT ![j] = "running"]
    /\ updates' = updates \cup {Update(j, "running")}
    /\ future' = [future EXCEPT ![j] = "running"]
    /\ UNCHANGED <<table, token, progress, saved, threadVars, faults,
                   historyVars>>

\* session.job_started raises: the exception leaves _run, the status stays
\* "running" with no thread behind it.
WorkerStartSinkFails(j) ==
    /\ future[j] = "picked"
    /\ ~token[j]
    /\ faults < MaxFaults
    /\ faults' = faults + 1
    /\ status' = [status EXCEPT ![j] = "running"]
    /\ future' = [future EXCEPT ![j] = "done"]
    /\ UNCHANGED <<table, token, progress, updates, record, saved, threadVars,
                   historyVars>>

\* How _run may end.  Not yet started: only as cancelled, by a set token.
\* Started: the body raises JobCancelled, or anything else with the token set
\* ("cancelled"), raises ("failed"), returns ("completed"), or returns what
\* cannot be normalised ("failed"); it may return although the token is set.
Outcomes(j) ==
    CASE future[j] = "picked"  -> {s \in {"cancelled"} : token[j]}
      [] future[j] = "running" -> {"completed", "failed"}
                                    \cup {s \in {"cancelled"} : token[j]}
      [] OTHER                 -> {}

WorkerFinish(j, s) ==
    /\ s \in Outcomes(j)
    /\ future' = [future EXCEPT ![j] = "done"]
    /\ \/ FinishLocked({j}, {}, s) /\ UNCHANGED faults
       \/ /\ faults < MaxFaults
          /\ FinishLocked({j}, {j}, s)
          /\ faults' = faults + 1
    /\ UNCHANGED <<table, token, progress, threadVars, delivered>>

\* A report is accepted only while the job runs; it does not take the
\* manager's lock.
ReportProgress(j) ==
    /\ status[j] = "running"
    /\ progress[j] < MaxProgress
    /\ progress' = [progress EXCEPT ![j] = @ + 1]
    /\ UNCHANGED <<status, table, token, future, updates, record, saved,
                   threadVars, faults, historyVars>>

-----------------------------------------------------------------------------
(* Cancellation: _cancel_locked for every job of C whose status is live.   *)
(* Future.cancel succeeds exactly for a queued future.                     *)

Cancellable(C) == {j \in C : status[j] \in Live}
Queued(C) == {j \in Cancellable(C) : future[j] = "pending"}

\* Mutants: a token that is not set; a running job finished by cancel as well.
CancelLockedNoToken(C, F) ==
    /\ future' = [j \in Jobs |-> IF j \in Queued(C) THEN "cancelled"
                                                    ELSE future[j]]
    /\ FinishLocked(Queued(C), F, "cancelled")
    /\ UNCHANGED <<table, token, progress, delivered>>

CancelLockedRunning(C, F) ==
    /\ token' = [j \in Jobs |-> token[j] \/ j \in Cancellable(C)]
    /\ future' = [j \in Jobs |-> IF j \in Queued(C) THEN "cancelled"
                                                    ELSE future[j]]
    /\ FinishLocked(Cancellable(C), F, "cancelled")
    /\ UNCHANGED <<table, progress, delivered>>

CancelLocked(C, F) ==
    /\ token' = [j \in Jobs |-> token[j] \/ j \in Cancellable(C)]
    /\ future' = [j \in Jobs |-> IF j \in Queued(C) THEN "cancelled"
                                                    ELSE future[j]]
    /\ FinishLocked(Queued(C), F, "cancelled")
    /\ UNCHANGED <<table, progress, delivered>>

\* A sink error at one queued job ends the loop over the jobs of C there:
\* the error reaches the caller, and the jobs after it stay uncancelled.
CancelLockedFails(C) ==
    /\ faults < MaxFaults
    /\ faults' = faults + 1
    /\ \E j \in Queued(C) : \E D \in SUBSET (C \ {j}) :
          CancelLocked(D \cup {j}, {j})

\* job_control's cancel, called by a tool of an active turn for any job the
\* session knows.  With a record but no table entry it raises KeyError.
CancelJob(j) ==
    /\ \E t \in Turns : caller[t] = "active"
    /\ record[j] \in Live
    /\ j \in table
    /\ \/ CancelLocked({j}, {}) /\ UNCHANGED faults
       \/ CancelLockedFails({j})
    /\ UNCHANGED threadVars

-----------------------------------------------------------------------------
(* The agent thread of a turn.                                             *)

\* Mutant: one result at a time.
DrainTerminalStateFirst(t) ==
    /\ caller[t] = "active"
    /\ \E first \in TerminalJobs(t) :
         /\ updates' = {u \in updates : u.job # first}
         /\ table' = table \ {first}
         /\ delivered' = [delivered EXCEPT ![first] = @ + 1]
    /\ UNCHANGED <<status, token, future, progress, record, saved, threadVars,
                   faults, finishes>>

\* drain_terminal_state: hand the terminal updates of the turn to the agent,
\* drop every update of those jobs and forget the jobs.
DrainTerminalState(t) ==
    LET ids == TerminalJobs(t) IN
    /\ caller[t] = "active"
    /\ ids # {}
    /\ updates' = {u \in updates : u.job \notin ids}
    /\ table' = table \ ids
    /\ delivered' = [j \in Jobs |-> IF j \in ids THEN delivered[j] + 1
                                                 ELSE delivered[j]]
    /\ UNCHANGED <<status, token, future, progress, record, saved, threadVars,
                   faults, finishes>>

\* Mutant: the turn ends on an empty drain alone.
EndTurnPending(t) ==
    /\ caller[t] = "active"
    /\ TerminalJobs(t) = {}
    /\ caller' = [caller EXCEPT ![t] = "ended"]
    /\ UNCHANGED <<jobVars, closed, closer, closing, faults, historyVars>>

\* The agent lets the turn end: drain_terminal_state returned no result and
\* pending = False (TurnContinuationPolicy.after_response).
EndTurn(t) ==
    /\ caller[t] = "active"
    /\ TerminalJobs(t) = {}
    /\ PendingJobs(t) = {}
    /\ caller' = [caller EXCEPT ![t] = "ended"]
    /\ UNCHANGED <<jobVars, closed, closer, closing, faults, historyVars>>

\* cancel_and_discard, its first critical section: cancel_turn.
CancelTurn(t) ==
    /\ caller[t] = "active"
    /\ \/ /\ CancelLocked(table \cap JobsOf(t), {})
          /\ caller' = [caller EXCEPT ![t] = "waiting"]
          /\ UNCHANGED faults
       \/ /\ CancelLockedFails(table \cap JobsOf(t))
          /\ caller' = [caller EXCEPT ![t] = "raised"]
    /\ UNCHANGED <<closed, closer, closing>>

\* wait_for_turn returns.
WaitForTurn(t) ==
    /\ caller[t] = "waiting"
    /\ PendingJobs(t) = {}
    /\ caller' = [caller EXCEPT ![t] = "draining"]
    /\ UNCHANGED <<jobVars, closed, closer, closing, faults, historyVars>>

\* drain_updates: every update of the turn goes, and with the terminal ones
\* their jobs; cancel_and_discard drops what it returns.
DrainUpdates(t) ==
    /\ caller[t] = "draining"
    /\ updates' = {u \in updates : u.job \notin JobsOf(t)}
    /\ table' = table \ TerminalJobs(t)
    /\ caller' = [caller EXCEPT ![t] = "discarded"]
    /\ UNCHANGED <<status, token, future, progress, record, saved, closed,
                   closer, closing, faults, historyVars>>

-----------------------------------------------------------------------------
(* close.                                                                  *)

CloseBegin ==
    /\ ~closed
    /\ closed' = TRUE
    /\ closing' = [t \in Turns |-> IF PendingJobs(t) # {} THEN "cancel"
                                                          ELSE "out"]
    /\ closer' = "cancelling"
    /\ UNCHANGED <<jobVars, caller, faults, historyVars>>

CloseCancelTurn(t) ==
    /\ closer = "cancelling"
    /\ closing[t] = "cancel"
    /\ \/ /\ CancelLocked(table \cap JobsOf(t), {})
          /\ closing' = [closing EXCEPT ![t] = "wait"]
          /\ UNCHANGED <<closer, faults>>
       \/ /\ CancelLockedFails(table \cap JobsOf(t))
          /\ closer' = "raised"
          /\ UNCHANGED closing
    /\ UNCHANGED <<closed, caller>>

\* The turns of turn_ids are cancelled, then waited for.  The executor drops
\* what is still queued (cancel_futures) without telling the manager.
CloseShutdown ==
    /\ closer = "cancelling"
    /\ \A t \in Turns : /\ closing[t] # "cancel"
                        /\ closing[t] = "wait" => PendingJobs(t) = {}
    /\ closer' = "joining"
    /\ future' = [j \in Jobs |-> IF future[j] = "pending" THEN "cancelled"
                                                          ELSE future[j]]
    /\ UNCHANGED <<status, table, token, progress, updates, record, saved,
                   closed, caller, closing, faults, historyVars>>

CloseJoined ==
    /\ closer = "joining"
    /\ \A j \in Jobs : future[j] \notin Busy
    /\ closer' = "closed"
    /\ UNCHANGED <<jobVars, closed, caller, closing, faults, historyVars>>
-----------------------------------------------------------------------------
Next ==
    \/ \E j \in Jobs :
          \/ Submit(j) \/ SubmitSinkFails(j) \/ SubmitExecutorFails(j)
          \/ WorkerPick(j) \/ WorkerStart(j) \/ WorkerStartSinkFails(j)
          \/ \E s \in Terminal : WorkerFinish(j, s)
          \/ ReportProgress(j)
          \/ CancelJob(j)
    \/ \E t \in Turns :
          \/ DrainTerminalState(t) \/ EndTurn(t)
          \/ CancelTurn(t) \/ WaitForTurn(t) \/ DrainUpdates(t)
          \/ CloseCancelTurn(t)
    \/ CloseBegin \/ CloseShutdown \/ CloseJoined

Spec == Init /\ [][Next]_vars

\* Threads that are not blocked run.  A job's body ends once its token is set:
\* the contract of cooperative work (CancellationToken), kept by shell jobs,
\* which kill their process, and by subagents, which poll the token.  Nothing
\* makes an uncancelled job end, or a turn submit, drain or cancel.
JobFairness ==
    /\ \A j \in Jobs : /\ WF_vars(WorkerPick(j))
                       /\ WF_vars(WorkerStart(j))
                       /\ WF_vars(/\ token[j]
                                  /\ \E s \in Terminal : WorkerFinish(j, s))
    /\ \A t \in Turns : /\ WF_vars(WaitForTurn(t))
                        /\ WF_vars(DrainUpdates(t))
                        /\ WF_vars(CloseCancelTurn(t))
    /\ WF_vars(CloseShutdown)
    /\ WF_vars(CloseJoined)

FairSpec == Spec /\ JobFairness

-----------------------------------------------------------------------------
(* Properties.                                                             *)

JobStatus == {"none"} \cup Live \cup Terminal

TypeOK ==
    /\ status \in [Jobs -> JobStatus]
    /\ table \in SUBSET Jobs
    /\ token \in [Jobs -> BOOLEAN]
    /\ future \in [Jobs -> {"none", "pending", "picked", "running", "done",
                            "cancelled"}]
    /\ progress \in [Jobs -> Nat]
    /\ updates \in SUBSET [job : Jobs, status : Live \cup Terminal]
    /\ record \in [Jobs -> JobStatus]
    /\ saved \in [Jobs -> Nat]
    /\ closed \in BOOLEAN
    /\ caller \in [Turns -> {"active", "waiting", "draining", "ended",
                              "discarded", "raised"}]
    /\ closer \in {"idle", "cancelling", "joining", "closed", "raised"}
    /\ closing \in [Turns -> {"out", "cancel", "wait"}]
    /\ faults \in Nat
    /\ finishes \in [Jobs -> Nat]
    /\ delivered \in [Jobs -> Nat]

\* A job ends once: whatever cancel_turn, job_control's cancel, close and the
\* worker do at the same time, _finish_locked runs at most once per job and
\* its result reaches the agent at most once, after it ended.  Holds with
\* journal errors too.
EndsOnce ==
    \A j \in Jobs : /\ finishes[j] <= 1
                    /\ finishes[j] = 1 <=> status[j] \in Terminal
                    /\ delivered[j] <= finishes[j]

\* While no journal write fails, Session.jobs and the manager's own status
\* agree at every lock release, for jobs of every turn.
RecordAgrees == faults = 0 => record = status

\* While nothing fails, the result of a job that ended is either waiting in
\* _updates under the status it ended with, or was delivered, or its turn was
\* discarded: no interleaving of cancel, finish and drain loses one.
ResultNotLost ==
    faults = 0 =>
      \A j \in Jobs :
        status[j] \in Terminal =>
          \/ delivered[j] = 0 /\ j \in table /\ Update(j, status[j]) \in updates
          \/ delivered[j] = 1 /\ j \notin table
          \/ delivered[j] = 0 /\ caller[TurnOf[j]] = "discarded"

\* A turn that ended normally delivered the result of every job it submitted,
\* and neither a completed nor a discarded turn leaves a job, an update or a
\* thread behind that a later turn would see.
EndedTurnIsQuiet ==
    faults = 0 =>
      \A j \in Jobs :
        caller[TurnOf[j]] \in {"ended", "discarded"} =>
          /\ j \notin table
          /\ \A u \in updates : u.job # j
          /\ future[j] \notin {"pending"} \cup Busy
          /\ caller[TurnOf[j]] = "ended" /\ status[j] # "none" => delivered[j] = 1

\* While nothing fails, a job that someone may wait for has a future that can
\* still run: neither cancel nor the executor's shutdown strands it.
LiveJobHasFuture ==
    faults = 0 =>
      \A j \in table : status[j] \in Live => future[j] \in {"pending"} \cup Busy

\* When close() has returned no worker thread works for the session any more
\* and every job has its final status.
ClosedIsQuiet ==
    closer = "closed" =>
      \A j \in Jobs : /\ future[j] \notin {"pending"} \cup Busy
                      /\ faults = 0 => status[j] \notin Live

\* "The terminal event saves it once": a late report never changes progress
\* after the terminal record copied it.
SavedProgressIsFinal ==
    \A j \in Jobs : record[j] \in Terminal => saved[j] = progress[j]

\* A job cancelled while it is queued never runs, and the journalled status
\* only moves forward.
NeverStartsCancelled ==
    [][\A j \in Jobs :
         /\ token[j] /\ status[j] = "submitted" => status'[j] # "running"
         /\ record[j] \in Terminal => record'[j] = record[j]
         /\ record[j] = "running" => record'[j] # "submitted"]_vars

\* Until a journal write fails, cancel_and_discard returns, so a cancelled or
\* failed turn is not held up by its background jobs, and close returns.
WaitsReturn ==
    /\ \A t \in Turns : caller[t] = "waiting" ~> caller[t] = "discarded" \/ faults > 0
    /\ closed ~> closer = "closed" \/ faults > 0

\* The job manager is sound: a job ends once, no result is lost or delivered
\* twice, and a turn that ended leaves no job behind (jobs.py: _finish_locked, _cancel_locked,
\* drain_updates).
JobsSound == EndsOnce /\ ResultNotLost /\ EndedTurnIsQuiet
-----------------------------------------------------------------------------
(* The abstract view of the manager: a job is open from submit to its      *)
(* terminal status, settled while its result is in _updates.               *)

Phase(j) ==
    IF status[j] = "none" THEN "new"
    ELSE IF status[j] \in Live THEN "open"
    ELSE IF delivered[j] > 0 THEN "delivered"
    ELSE IF j \in table THEN "settled"
    ELSE "dropped"

BoardTurn(t) ==
    IF caller[t] = "ended" THEN "complete"
    ELSE IF caller[t] = "discarded" THEN "discarded"
    ELSE "open"

Board == INSTANCE JobBoard WITH
    phase <- [j \in Jobs |-> Phase(j)],
    turn <- [t \in Turns |-> BoardTurn(t)],
    broken <- faults > 0

\* Until a journal write fails the manager keeps the promise of JobBoard.
ImplementsBoard == Board!Spec
=============================================================================
