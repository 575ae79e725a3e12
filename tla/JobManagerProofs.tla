-------------------------- MODULE JobManagerProofs --------------------------
(***************************************************************************)
(* Proofs about JobManager for every set of jobs and turns, every pool     *)
(* size and every number of journal errors, and the proof that it          *)
(* implements JobBoard: its critical sections are steps of the board or    *)
(* change nothing the board shows.                                         *)
(***************************************************************************)
EXTENDS JobManager, TLAPS

\* A worker's position and the job's status agree, and the history counters
\* follow the status; also with journal errors.
PositionInv ==
    \A j \in Jobs :
      /\ future[j] \in {"pending", "picked"} => status[j] = "submitted"
      /\ future[j] = "running" => status[j] = "running"
      /\ status[j] = "none" => future[j] = "none"
      /\ finishes[j] = IF status[j] \in Terminal THEN 1 ELSE 0
      /\ delivered[j] <= finishes[j]

\* A terminal update is unique: it carries the job's final status and has not
\* been delivered.
UpdateInv ==
    \A u \in updates :
      u.status \in Terminal => /\ status[u.job] = u.status
                               /\ delivered[u.job] = 0

\* The table holds exactly the jobs somebody still has to hear about.
TableInv ==
    \A j \in Jobs : j \in table <=> /\ status[j] # "none"
                                    /\ delivered[j] = 0
                                    /\ caller[TurnOf[j]] # "discarded"

\* What has ended and is in the table has its result in _updates, and nothing
\* else is there.
ResultInv ==
    /\ \A j \in table : status[j] \in Terminal => Update(j, status[j]) \in updates
    /\ \A u \in updates : u.job \in table

\* The waits of cancel_and_discard and of close mean what they say.
WaitInv ==
    /\ \A j \in Jobs :
         /\ status[j] \in Live => future[j] \in {"pending"} \cup Busy
         /\ caller[TurnOf[j]] \in {"draining", "ended", "discarded"} =>
              status[j] \notin Live
         /\ caller[TurnOf[j]] = "ended" => j \notin table
         /\ closed /\ status[j] \in Live => closing[TurnOf[j]] # "out"
         /\ closer \in {"joining", "closed"} => status[j] \notin Live
    /\ closer # "idle" => closed

QuietInv ==
    faults = 0 => /\ record = status
                  /\ TableInv
                  /\ ResultInv
                  /\ WaitInv

IInv == TypeOK /\ PositionInv /\ UpdateInv /\ QuietInv

-----------------------------------------------------------------------------
(* Types.                                                                  *)

\* What _finish_locked leaves behind is well typed.
LEMMA FinishTypes ==
    ASSUME TypeOK, NEW S \in SUBSET Jobs, NEW F, NEW s \in Terminal,
           FinishLocked(S, F, s)
    PROVE  /\ status' \in [Jobs -> JobStatus]
           /\ finishes' \in [Jobs -> Nat]
           /\ record' \in [Jobs -> JobStatus]
           /\ saved' \in [Jobs -> Nat]
           /\ updates' \in SUBSET [job : Jobs, status : Live \cup Terminal]
  BY DEF TypeOK, FinishLocked, JobStatus, Live, Terminal, Update

\* And so is what a cancellation leaves behind.
LEMMA CancelTypes ==
    ASSUME TypeOK, NEW C \in SUBSET Jobs, NEW F, CancelLocked(C, F)
    PROVE  /\ status' \in [Jobs -> JobStatus]
           /\ finishes' \in [Jobs -> Nat]
           /\ record' \in [Jobs -> JobStatus]
           /\ saved' \in [Jobs -> Nat]
           /\ updates' \in SUBSET [job : Jobs, status : Live \cup Terminal]
           /\ token' \in [Jobs -> BOOLEAN]
           /\ future' \in [Jobs -> {"none", "pending", "picked", "running",
                                    "done", "cancelled"}]
           /\ UNCHANGED <<table, progress, delivered>>
<1>1. Queued(C) \in SUBSET Jobs
  BY Zenon DEF Queued, Cancellable
<1>2. "cancelled" \in Terminal
  BY Zenon DEF Terminal
<1>3. FinishLocked(Queued(C), F, "cancelled")
  BY Zenon DEF CancelLocked
<1>4. token' \in [Jobs -> BOOLEAN]
  BY Zenon DEF CancelLocked, TypeOK
<1>5. future' \in [Jobs -> {"none", "pending", "picked", "running", "done",
                            "cancelled"}]
  BY Zenon DEF CancelLocked, TypeOK
<1>6. UNCHANGED <<table, progress, delivered>>
  BY Zenon DEF CancelLocked
<1>. QED
  BY <1>1, <1>2, <1>3, <1>4, <1>5, <1>6, FinishTypes, Zenon

\* A cancellation that fails in the journal is _cancel_locked on some prefix.
LEMMA CancelFailsWitness ==
    ASSUME NEW C \in SUBSET Jobs, CancelLockedFails(C)
    PROVE  /\ \E j \in Jobs : \E D \in SUBSET Jobs : CancelLocked(D, {j})
           /\ faults' = faults + 1
  BY SMTT(30) DEF CancelLockedFails, Queued, Cancellable

\* Every step keeps every variable in its type.
LEMMA TypeStep == TypeOK /\ [Next]_vars => TypeOK'
<1> SUFFICES ASSUME TypeOK, [Next]_vars PROVE TypeOK'
  BY Zenon
<1> USE MaxFaultsAssumption, MaxProgressAssumption, TurnOfAssumption
<1>1. ASSUME NEW j \in Jobs, Submit(j) \/ SubmitSinkFails(j) \/ SubmitExecutorFails(j)
      PROVE  TypeOK'
  BY <1>1 DEF TypeOK, Submit, SubmitSinkFails, SubmitExecutorFails, SubmitFrame,
              threadVars, historyVars, JobStatus, Live, Update
<1>2. ASSUME NEW j \in Jobs, WorkerPick(j) \/ WorkerStart(j) \/ WorkerStartSinkFails(j)
      PROVE  TypeOK'
  BY <1>2 DEF TypeOK, WorkerPick, WorkerStart, WorkerStartSinkFails,
              threadVars, historyVars, JobStatus, Live, Update
<1>3. ASSUME NEW j \in Jobs, NEW s \in Terminal, WorkerFinish(j, s)
      PROVE  TypeOK'
  <2>1. PICK F : FinishLocked({j}, F, s)
    BY <1>3, Zenon DEF WorkerFinish
  <2>2. /\ status' \in [Jobs -> JobStatus]
        /\ finishes' \in [Jobs -> Nat]
        /\ record' \in [Jobs -> JobStatus]
        /\ saved' \in [Jobs -> Nat]
        /\ updates' \in SUBSET [job : Jobs, status : Live \cup Terminal]
    BY <2>1, FinishTypes, Zenon
  <2>3. faults' \in Nat
    BY <1>3 DEF WorkerFinish, TypeOK
  <2>4. /\ future' = [future EXCEPT ![j] = "done"]
        /\ UNCHANGED <<table, token, progress, closed, caller, closer, closing,
                       delivered>>
    BY <1>3, Zenon DEF WorkerFinish, threadVars
  <2>. QED
    BY <2>2, <2>3, <2>4, Zenon DEF TypeOK
<1>4. ASSUME NEW j \in Jobs, ReportProgress(j)
      PROVE  TypeOK'
  BY <1>4 DEF TypeOK, ReportProgress, threadVars, historyVars
<1>5. ASSUME NEW j \in Jobs, CancelJob(j)
      PROVE  TypeOK'
  <2>1. PICK C, F : C \in SUBSET Jobs /\ CancelLocked(C, F)
    BY <1>5, CancelFailsWitness, Zenon DEF CancelJob
  <2>2. faults' \in Nat /\ UNCHANGED threadVars
    BY <1>5, CancelFailsWitness DEF CancelJob, TypeOK
  <2>. QED
    BY <2>1, <2>2, CancelTypes, Zenon DEF TypeOK, threadVars
<1>6. ASSUME NEW t \in Turns, DrainTerminalState(t) \/ EndTurn(t)
      PROVE  TypeOK'
  BY <1>6 DEF TypeOK, DrainTerminalState, EndTurn, jobVars, threadVars, historyVars
<1>7. ASSUME NEW t \in Turns, CancelTurn(t)
      PROVE  TypeOK'
  <2>1. PICK C, F : C \in SUBSET Jobs /\ CancelLocked(C, F)
    BY <1>7, CancelFailsWitness, Zenon DEF CancelTurn, JobsOf
  <2>2. faults' \in Nat
    BY <1>7, CancelFailsWitness DEF CancelTurn, TypeOK, JobsOf
  <2>. QED
    BY <1>7, <2>1, <2>2, CancelTypes, Zenon DEF CancelTurn, TypeOK
<1>8. ASSUME NEW t \in Turns, WaitForTurn(t) \/ DrainUpdates(t)
      PROVE  TypeOK'
  BY <1>8, Zenon DEF TypeOK, WaitForTurn, DrainUpdates, jobVars, historyVars
<1>9. ASSUME NEW t \in Turns, CloseCancelTurn(t)
      PROVE  TypeOK'
  <2>1. PICK C, F : C \in SUBSET Jobs /\ CancelLocked(C, F)
    BY <1>9, CancelFailsWitness, Zenon DEF CloseCancelTurn, JobsOf
  <2>2. faults' \in Nat
    BY <1>9, CancelFailsWitness DEF CloseCancelTurn, TypeOK, JobsOf
  <2>. QED
    BY <1>9, <2>1, <2>2, CancelTypes, Zenon DEF CloseCancelTurn, TypeOK
<1>10. ASSUME CloseBegin \/ CloseShutdown \/ CloseJoined
       PROVE  TypeOK'
  BY <1>10, Zenon DEF TypeOK, CloseBegin, CloseShutdown, CloseJoined, jobVars, historyVars
<1>11. CASE UNCHANGED vars
  BY <1>11, Zenon DEF TypeOK, vars, jobVars, threadVars, historyVars
<1>12. CASE Next
  BY <1>12, <1>1, <1>2, <1>3, <1>4, <1>5, <1>6, <1>7, <1>8, <1>9, <1>10, Zenon
     DEF Next
<1>. QED
  BY <1>11, <1>12, Zenon

\* __init__ and a fresh Session are well typed.
LEMMA TypeInit == Init => TypeOK
<1> SUFFICES ASSUME Init PROVE TypeOK
  BY Zenon
<1>1. /\ status \in [Jobs -> JobStatus] /\ record \in [Jobs -> JobStatus]
      /\ future \in [Jobs -> {"none", "pending", "picked", "running", "done",
                              "cancelled"}]
  BY Zenon DEF Init, JobStatus
<1>2. /\ token \in [Jobs -> BOOLEAN] /\ closed \in BOOLEAN
      /\ table \in SUBSET Jobs
      /\ updates \in SUBSET [job : Jobs, status : Live \cup Terminal]
  BY Zenon DEF Init
<1>3. /\ progress \in [Jobs -> Nat] /\ saved \in [Jobs -> Nat]
      /\ finishes \in [Jobs -> Nat] /\ delivered \in [Jobs -> Nat]
      /\ faults \in Nat
  BY Zenon DEF Init
<1>4. /\ caller \in [Turns -> {"active", "waiting", "draining", "ended",
                               "discarded", "raised"}]
      /\ closer \in {"idle", "cancelling", "joining", "closed", "raised"}
      /\ closing \in [Turns -> {"out", "cancel", "wait"}]
  BY Zenon DEF Init
<1>. QED
  BY <1>1, <1>2, <1>3, <1>4, Zenon DEF TypeOK

\* Every variable of the manager keeps its type in every reachable state.
THEOREM TypeCorrect == Spec => []TypeOK
  BY TypeInit, TypeStep, PTL DEF Spec
-----------------------------------------------------------------------------
(* The inductive invariant.                                                *)

\* Ending jobs that are live and have no worker left keeps their counters and
\* updates right, whatever the journal does.
LEMMA FinishKeeps ==
    ASSUME IInv, TypeOK', NEW S \in SUBSET Jobs, NEW F, NEW s \in Terminal,
           FinishLocked(S, F, s),
           \A j \in S : status[j] \in Live /\ future'[j] \in {"done", "cancelled"},
           \A j \in Jobs \ S : future'[j] = future[j],
           UNCHANGED delivered
    PROVE  PositionInv' /\ UpdateInv'
<1> USE DEF IInv, TypeOK, PositionInv, UpdateInv, FinishLocked, Live, Terminal,
            Update, JobStatus
<1>1. PositionInv'
  OBVIOUS
<1>2. UpdateInv'
  BY SMTT(30)
<1>. QED
  BY <1>1, <1>2, Zenon

\* A cancellation is such an ending, of queued jobs.
LEMMA CancelKeeps ==
    ASSUME IInv, TypeOK', NEW C \in SUBSET Jobs, NEW F, CancelLocked(C, F)
    PROVE  PositionInv' /\ UpdateInv'
<1>1. Queued(C) \in SUBSET Jobs /\ "cancelled" \in Terminal
  BY Zenon DEF Queued, Cancellable, Terminal
<1>2. FinishLocked(Queued(C), F, "cancelled") /\ UNCHANGED delivered
  BY Zenon DEF CancelLocked
<1>3. \A j \in Queued(C) :
         status[j] \in Live /\ future'[j] \in {"done", "cancelled"}
  BY <1>1, Zenon DEF CancelLocked, Queued, Cancellable
<1>4. \A j \in Jobs \ Queued(C) : future'[j] = future[j]
  BY Zenon DEF CancelLocked
<1>. QED
  BY <1>1, <1>2, <1>3, <1>4, FinishKeeps, Zenon

\* No critical section breaks the agreement of worker, status and updates.
LEMMA PositionStep == IInv /\ TypeOK' /\ [Next]_vars => PositionInv' /\ UpdateInv'
<1> SUFFICES ASSUME IInv, TypeOK', [Next]_vars
             PROVE  PositionInv' /\ UpdateInv'
  BY Zenon
<1>1. ASSUME NEW j \in Jobs, Submit(j) \/ SubmitSinkFails(j) \/ SubmitExecutorFails(j)
      PROVE  PositionInv' /\ UpdateInv'
  BY <1>1 DEF IInv, TypeOK, PositionInv, UpdateInv, Submit, SubmitSinkFails,
              SubmitExecutorFails, SubmitFrame, CanSubmit, threadVars,
              historyVars, Live, Terminal, Update
<1>2. ASSUME NEW j \in Jobs, WorkerPick(j) \/ WorkerStart(j) \/ WorkerStartSinkFails(j)
      PROVE  PositionInv' /\ UpdateInv'
  BY <1>2 DEF IInv, TypeOK, PositionInv, UpdateInv, WorkerPick, WorkerStart,
              WorkerStartSinkFails, historyVars, Live, Terminal, Update
<1>3. ASSUME NEW j \in Jobs, NEW s \in Terminal, WorkerFinish(j, s)
      PROVE  PositionInv' /\ UpdateInv'
  <2>1. PICK F : FinishLocked({j}, F, s)
    BY <1>3, Zenon DEF WorkerFinish
  <2>2. status[j] \in Live
    BY <1>3, Zenon DEF WorkerFinish, Outcomes, IInv, PositionInv, Live
  <2>3. /\ future'[j] = "done" /\ UNCHANGED delivered
        /\ \A k \in Jobs \ {j} : future'[k] = future[k]
    BY <1>3, Zenon DEF WorkerFinish, IInv, TypeOK
  <2>. QED
    BY <2>1, <2>2, <2>3, FinishKeeps, Zenon
<1>4. ASSUME NEW j \in Jobs, ReportProgress(j)
      PROVE  PositionInv' /\ UpdateInv'
  BY <1>4, Zenon DEF IInv, PositionInv, UpdateInv, ReportProgress, historyVars
<1>5. ASSUME NEW j \in Jobs, CancelJob(j)
      PROVE  PositionInv' /\ UpdateInv'
  BY <1>5, CancelKeeps, CancelFailsWitness, Zenon DEF CancelJob
<1>6. ASSUME NEW t \in Turns, DrainTerminalState(t)
      PROVE  PositionInv' /\ UpdateInv'
  <2>1. \A j \in TerminalJobs(t) : status[j] \in Terminal /\ delivered[j] = 0
    BY Zenon DEF IInv, UpdateInv, TerminalJobs, Update
  <2>2. \A j \in Jobs : delivered'[j] = IF j \in TerminalJobs(t) THEN delivered[j] + 1
                                                               ELSE delivered[j]
    BY <1>6, Zenon DEF DrainTerminalState
  <2>3. UNCHANGED <<status, future, finishes>>
    BY <1>6, Zenon DEF DrainTerminalState
  <2>4. PositionInv'
    BY <2>1, <2>2, <2>3 DEF IInv, TypeOK, PositionInv
  <2>5. \A u \in updates' : u \in updates /\ u.job \notin TerminalJobs(t)
    BY <1>6, Zenon DEF DrainTerminalState
  <2>6. UpdateInv'
    BY <2>2, <2>3, <2>5, Zenon DEF IInv, TypeOK, UpdateInv
  <2>. QED
    BY <2>4, <2>6, Zenon
<1>7. ASSUME NEW t \in Turns, EndTurn(t) \/ WaitForTurn(t) \/ DrainUpdates(t)
      PROVE  PositionInv' /\ UpdateInv'
  BY <1>7, Zenon DEF IInv, PositionInv, UpdateInv, EndTurn, WaitForTurn, DrainUpdates,
              jobVars, historyVars
<1>8. ASSUME NEW t \in Turns, CancelTurn(t)
      PROVE  PositionInv' /\ UpdateInv'
  BY <1>8, CancelKeeps, CancelFailsWitness, Zenon DEF CancelTurn, JobsOf
<1>9. ASSUME NEW t \in Turns, CloseCancelTurn(t)
      PROVE  PositionInv' /\ UpdateInv'
  BY <1>9, CancelKeeps, CancelFailsWitness, Zenon DEF CloseCancelTurn, JobsOf
<1>10. ASSUME CloseBegin \/ CloseJoined
       PROVE  PositionInv' /\ UpdateInv'
  BY <1>10, Zenon DEF IInv, PositionInv, UpdateInv, CloseBegin, CloseJoined, jobVars,
               historyVars
<1>11. ASSUME CloseShutdown
       PROVE  PositionInv' /\ UpdateInv'
  BY <1>11, Zenon DEF IInv, TypeOK, PositionInv, UpdateInv, CloseShutdown, historyVars
<1>12. CASE UNCHANGED vars
  BY <1>12, Zenon DEF IInv, PositionInv, UpdateInv, vars, jobVars, historyVars
<1>13. CASE Next
  BY <1>13, <1>1, <1>2, <1>3, <1>4, <1>5, <1>6, <1>7, <1>8, <1>9, <1>10, <1>11,
     Zenon DEF Next
<1>. QED
  BY <1>12, <1>13, Zenon

\* A cancellation without journal errors keeps the fault-free invariant, as
\* long as the threads' positions do not change.
LEMMA CancelQuiet ==
    ASSUME IInv, TypeOK', NEW C \in SUBSET Jobs, CancelLocked(C, {}),
           faults = 0, faults' = 0
    PROVE  /\ record' = status'
           /\ \A j \in Jobs :
                /\ status[j] \notin Live => status'[j] = status[j]
                /\ status[j] \in Live => \/ status'[j] = status[j] /\ future'[j] = future[j]
                                         \/ status'[j] = "cancelled"
                /\ j \in table /\ status'[j] \in Terminal =>
                     Update(j, status'[j]) \in updates'
           /\ \A u \in updates' : u.job \in table
           /\ UNCHANGED <<table, delivered>>
<1> USE DEF CancelLocked, Queued, Cancellable, FinishLocked, Live, Terminal
<1>1. record' = status'
  BY DEF IInv, QuietInv, TableInv, ResultInv, WaitInv, TypeOK, JobStatus
<1>2. \A j \in Jobs :
        /\ status[j] \notin Live => status'[j] = status[j]
        /\ status[j] \in Live => \/ status'[j] = status[j] /\ future'[j] = future[j]
                                 \/ status'[j] = "cancelled"
  BY Zenon DEF IInv, TypeOK
<1>3. \A j \in Jobs : j \in table /\ status'[j] \in Terminal =>
                        Update(j, status'[j]) \in updates'
  BY DEF IInv, TypeOK, QuietInv, TableInv, ResultInv, WaitInv
<1>4. \A j \in Queued(C) : j \in table
  BY DEF IInv, TypeOK, QuietInv, TableInv, ResultInv, WaitInv, PositionInv
<1>5. \A u \in updates' : u.job \in table
  <2>1. updates' = updates \cup {Update(j, "cancelled") : j \in Queued(C)}
    BY Zenon DEF CancelLocked, FinishLocked
  <2>2. \A u \in updates : u.job \in table
    BY Zenon DEF IInv, QuietInv, ResultInv
  <2>3. \A j : Update(j, "cancelled").job = j
    BY Zenon DEF Update
  <2>. QED
    BY <1>4, <2>1, <2>2, <2>3, Zenon
<1>. QED
  BY <1>1, <1>2, <1>3, <1>5, Zenon

\* No critical section breaks the part of the invariant that relates the
\* table, the updates, the journal and the waiting threads.
LEMMA QuietStep == IInv /\ TypeOK' /\ PositionInv' /\ [Next]_vars => QuietInv'
<1> SUFFICES ASSUME IInv, TypeOK', PositionInv', [Next]_vars, faults' = 0
             PROVE  QuietInv'
  BY Zenon DEF QuietInv
<1> USE TurnOfAssumption DEF Live, Terminal, Busy, JobStatus
<1>1. ASSUME NEW j \in Jobs, Submit(j)
      PROVE  QuietInv'
  BY <1>1
     DEF IInv, TypeOK, PositionInv, QuietInv, TableInv, ResultInv, WaitInv, Submit, SubmitFrame,
         CanSubmit, threadVars, historyVars, Update
<1>2. ASSUME NEW j \in Jobs,
             SubmitSinkFails(j) \/ SubmitExecutorFails(j) \/ WorkerStartSinkFails(j)
      PROVE  QuietInv'
  BY <1>2 DEF SubmitSinkFails, SubmitExecutorFails, WorkerStartSinkFails, IInv, TypeOK
<1>3. ASSUME NEW j \in Jobs, WorkerPick(j)
      PROVE  QuietInv'
  BY <1>3
     DEF IInv, TypeOK, QuietInv, TableInv, ResultInv, WaitInv, WorkerPick, threadVars,
         historyVars
<1>4. ASSUME NEW j \in Jobs, WorkerStart(j)
      PROVE  QuietInv'
  BY <1>4
     DEF IInv, TypeOK, PositionInv, QuietInv, TableInv, ResultInv, WaitInv, WorkerStart,
         threadVars, historyVars, Update
<1>5. ASSUME NEW j \in Jobs, NEW s \in Terminal, WorkerFinish(j, s)
      PROVE  QuietInv'
  <2>1. FinishLocked({j}, {}, s) /\ faults = 0
    BY <1>5 DEF WorkerFinish, IInv, TypeOK
  <2>2. status[j] \in Live
    BY <1>5, Zenon DEF WorkerFinish, Outcomes, IInv, PositionInv
  <2>3. /\ record = status /\ TableInv /\ ResultInv /\ WaitInv
        /\ delivered[j] = 0 /\ status[j] # "none"
    BY <2>1, <2>2 DEF IInv, QuietInv, PositionInv, TypeOK
  <2>4. /\ status' = [status EXCEPT ![j] = s] /\ record' = status'
        /\ future' = [future EXCEPT ![j] = "done"]
        /\ updates' = updates \cup {Update(j, s)}
        /\ UNCHANGED <<table, delivered, caller, closed, closer, closing>>
    <3>1. DOMAIN status = Jobs /\ DOMAIN record = Jobs /\ DOMAIN future = Jobs
      BY Zenon DEF IInv, TypeOK
    <3>2. status' = [status EXCEPT ![j] = s]
      BY <2>1, <3>1, Zenon DEF FinishLocked
    <3>3. record' = status'
      BY <2>1, <2>3, Zenon DEF FinishLocked
    <3>4. updates' = updates \cup {Update(j, s)}
      BY <2>1, Zenon DEF FinishLocked
    <3>. QED
      BY <1>5, <3>2, <3>3, <3>4, Zenon DEF WorkerFinish, threadVars
  <2>5. TableInv'
    BY <2>3, <2>4 DEF TableInv, IInv, TypeOK
  <2>6. j \in table
    BY <2>2, <2>3, Zenon DEF TableInv, WaitInv
  <2>7. ResultInv'
    BY <2>3, <2>4, <2>6 DEF ResultInv, Update, IInv, TypeOK
  <2>8. WaitInv'
    BY <2>3, <2>4 DEF WaitInv, IInv, TypeOK
  <2>. QED
    BY <2>4, <2>5, <2>7, <2>8, Zenon DEF QuietInv
<1>6. ASSUME NEW j \in Jobs, ReportProgress(j)
      PROVE  QuietInv'
  BY <1>6, Zenon
     DEF IInv, TypeOK, QuietInv, TableInv, ResultInv, WaitInv, ReportProgress, threadVars,
         historyVars
<1>7. ASSUME NEW j \in Jobs, CancelJob(j)
      PROVE  QuietInv'
  <2>1. CancelLocked({j}, {}) /\ faults = 0
    BY <1>7 DEF CancelJob, CancelLockedFails, IInv, TypeOK
  <2>2. UNCHANGED <<closed, caller, closer, closing>>
    BY <1>7, Zenon DEF CancelJob, threadVars
  <2>3. TableInv' /\ WaitInv'
    <3>1. TableInv /\ WaitInv /\ DOMAIN status = Jobs
      BY <2>1, Zenon DEF IInv, TypeOK, QuietInv
    <3>2. /\ \A k \in Jobs :
               /\ status[k] \notin Live => status'[k] = status[k]
               /\ status[k] \in Live => \/ status'[k] = status[k] /\ future'[k] = future[k]
                                        \/ status'[k] = "cancelled"
          /\ UNCHANGED <<table, delivered>>
      BY <2>1, CancelQuiet, Zenon
    <3>. QED
      BY <2>2, <3>1, <3>2 DEF TableInv, WaitInv
  <2>4. record' = status' /\ ResultInv'
    BY <2>1, CancelQuiet DEF ResultInv, IInv, TypeOK
  <2>. QED
    BY <2>3, <2>4, Zenon DEF QuietInv
<1>8. ASSUME NEW t \in Turns, DrainTerminalState(t)
      PROVE  QuietInv'
  <2>1. \A k \in TerminalJobs(t) : status[k] \in Terminal /\ delivered[k] = 0
    BY Zenon DEF IInv, UpdateInv, TerminalJobs, Update
  <2>2. /\ faults = 0
        /\ table' = table \ TerminalJobs(t)
        /\ updates' = {u \in updates : u.job \notin TerminalJobs(t)}
        /\ \A k \in Jobs : delivered'[k] = IF k \in TerminalJobs(t)
                                             THEN delivered[k] + 1 ELSE delivered[k]
        /\ UNCHANGED <<status, record, future, closed, caller, closer, closing>>
    BY <1>8, Zenon DEF DrainTerminalState, IInv, TypeOK, threadVars
  <2>3. TableInv'
    BY <2>1, <2>2 DEF IInv, TypeOK, QuietInv, TableInv
  <2>4. ResultInv'
    BY <2>2, Zenon DEF IInv, TypeOK, QuietInv, ResultInv, Update
  <2>5. WaitInv'
    BY <2>2, Zenon DEF IInv, QuietInv, WaitInv
  <2>. QED
    BY <2>2, <2>3, <2>4, <2>5, Zenon DEF IInv, QuietInv
<1>9. ASSUME NEW t \in Turns, EndTurn(t)
      PROVE  QuietInv'
  <2>1. /\ faults = 0
        /\ caller[t] = "active"
        /\ caller' = [caller EXCEPT ![t] = "ended"]
        /\ UNCHANGED <<status, table, future, updates, record, delivered, closed,
                       closer, closing>>
    BY <1>9, Zenon DEF EndTurn, jobVars, historyVars
  <2>2. \A k \in table : TurnOf[k] = t => status[k] \notin Live /\ status[k] \notin Terminal
    BY <1>9, <2>1, Zenon DEF EndTurn, PendingJobs, TerminalJobs, JobsOf, IInv, TypeOK,
       QuietInv, ResultInv
  <2>3. \A k \in Jobs : TurnOf[k] = t => k \notin table /\ status[k] \notin Live
    BY <1>9, <2>1, <2>2 DEF IInv, TypeOK, QuietInv, TableInv, UpdateInv, PositionInv
  <2>4. TableInv' /\ ResultInv'
    BY <2>1, Zenon DEF IInv, TypeOK, QuietInv, TableInv, ResultInv
  <2>5. WaitInv'
    BY <2>1, <2>3, Zenon DEF IInv, TypeOK, QuietInv, WaitInv
  <2>. QED
    BY <2>1, <2>4, <2>5, Zenon DEF IInv, QuietInv
<1>10. ASSUME NEW t \in Turns, CancelTurn(t)
       PROVE  QuietInv'
  <2>1. /\ CancelLocked(table \cap JobsOf(t), {}) /\ faults = 0
        /\ caller[t] = "active"
        /\ caller' = [caller EXCEPT ![t] = "waiting"]
        /\ UNCHANGED <<closed, closer, closing>>
    BY <1>10 DEF CancelTurn, CancelLockedFails, IInv, TypeOK
  <2>2. table \cap JobsOf(t) \in SUBSET Jobs
    BY Zenon DEF JobsOf
  <2>3. record = status /\ TableInv /\ ResultInv /\ WaitInv
    BY <2>1, Zenon DEF IInv, QuietInv
  <2>4. /\ record' = status'
        /\ \A j \in Jobs :
             /\ status[j] \notin Live => status'[j] = status[j]
             /\ status[j] \in Live => \/ status'[j] = status[j] /\ future'[j] = future[j]
                                      \/ status'[j] = "cancelled"
             /\ j \in table /\ status'[j] \in Terminal => Update(j, status'[j]) \in updates'
        /\ \A u \in updates' : u.job \in table
        /\ UNCHANGED <<table, delivered>>
    BY <2>1, <2>2, CancelQuiet, Zenon
  <2>5. TableInv'
    BY <2>1, <2>3, <2>4, Zenon DEF TableInv, IInv, TypeOK
  <2>6. ResultInv'
    BY <2>3, <2>4, Zenon DEF ResultInv, IInv, TypeOK
  <2>7. WaitInv'
    BY <2>1, <2>3, <2>4, Zenon DEF WaitInv, IInv, TypeOK
  <2>. QED
    BY <2>4, <2>5, <2>6, <2>7, Zenon DEF QuietInv
<1>11. ASSUME NEW t \in Turns, WaitForTurn(t)
       PROVE  QuietInv'
  <2>1. /\ UNCHANGED <<status, future, record, table, updates, delivered>>
        /\ UNCHANGED <<closed, closer, closing, faults>>
        /\ PendingJobs(t) = {} /\ caller[t] = "waiting"
        /\ caller' = [caller EXCEPT ![t] = "draining"]
    BY <1>11, Zenon DEF WaitForTurn, jobVars, historyVars
  <2>2. record = status /\ TableInv /\ ResultInv /\ WaitInv
    BY <2>1, Zenon DEF IInv, QuietInv
  <2>3. TableInv' /\ ResultInv'
    BY <2>1, <2>2, Zenon DEF TableInv, ResultInv, IInv, TypeOK
  <2>4. \A j \in Jobs : TurnOf[j] = t => status[j] \notin Live
    BY <2>1, <2>2 DEF TableInv, WaitInv, PendingJobs, JobsOf, IInv, PositionInv, TypeOK
  <2>5. WaitInv'
    BY <2>1, <2>2, <2>4, Zenon DEF WaitInv, IInv, TypeOK
  <2>. QED
    BY <2>1, <2>2, <2>3, <2>5, Zenon DEF QuietInv
<1>12. ASSUME NEW t \in Turns, DrainUpdates(t)
       PROVE  QuietInv'
  <2>1. /\ caller[t] = "draining"
        /\ updates' = {u \in updates : u.job \notin JobsOf(t)}
        /\ table' = table \ TerminalJobs(t)
        /\ caller' = [caller EXCEPT ![t] = "discarded"]
        /\ UNCHANGED <<status, future, record, closed, closer, closing, faults, delivered>>
    BY <1>12, Zenon DEF DrainUpdates, historyVars
  <2>2. SUFFICES ASSUME faults = 0 PROVE QuietInv'
    BY <2>1, Zenon DEF QuietInv
  <2>3. record = status /\ TableInv /\ ResultInv /\ WaitInv
    BY <2>2, Zenon DEF IInv, QuietInv
  <2>4. \A j \in Jobs : j \in table' <=> j \in table /\ TurnOf[j] # t
    <3>1. status \in [Jobs -> JobStatus] /\ table \in SUBSET Jobs
      BY Zenon DEF IInv, TypeOK
    <3>2. \A j \in table : TurnOf[j] = t => status[j] \in Terminal
      BY <2>1, <2>3, <3>1, Zenon DEF WaitInv, TableInv
    <3>3. \A j \in table : TurnOf[j] = t => j \in TerminalJobs(t)
      BY <2>3, <3>1, <3>2, Zenon DEF ResultInv, TerminalJobs, JobsOf
    <3>. QED
      BY <2>1, <3>3, Zenon DEF TerminalJobs, JobsOf
  <2>5. TableInv'
    BY <2>1, <2>3, <2>4, Zenon DEF TableInv, IInv, TypeOK
  <2>6. ResultInv'
    BY <2>1, <2>3, <2>4, Zenon DEF ResultInv, JobsOf, Update, IInv, TypeOK
  <2>7. WaitInv'
    BY <2>1, <2>3, <2>4, Zenon DEF WaitInv, IInv, TypeOK
  <2>. QED
    BY <2>1, <2>3, <2>5, <2>6, <2>7, Zenon DEF QuietInv
<1>13. ASSUME NEW t \in Turns, CloseCancelTurn(t)
       PROVE  QuietInv'
  <2>1. /\ CancelLocked(table \cap JobsOf(t), {}) /\ faults = 0
        /\ closing' = [closing EXCEPT ![t] = "wait"]
        /\ UNCHANGED <<closed, closer, caller>>
    BY <1>13 DEF CloseCancelTurn, CancelLockedFails, IInv, TypeOK
  <2>2. table \cap JobsOf(t) \in SUBSET Jobs
    BY Zenon DEF JobsOf
  <2>3. record = status /\ TableInv /\ ResultInv /\ WaitInv
    BY <2>1, Zenon DEF IInv, QuietInv
  <2>4. /\ record' = status'
        /\ \A j \in Jobs :
             /\ status[j] \notin Live => status'[j] = status[j]
             /\ status[j] \in Live => \/ status'[j] = status[j] /\ future'[j] = future[j]
                                      \/ status'[j] = "cancelled"
             /\ j \in table /\ status'[j] \in Terminal => Update(j, status'[j]) \in updates'
        /\ \A u \in updates' : u.job \in table
        /\ UNCHANGED <<table, delivered>>
    BY <2>1, <2>2, CancelQuiet, Zenon
  <2>5. TableInv'
    BY <2>1, <2>3, <2>4, Zenon DEF TableInv, IInv, TypeOK
  <2>6. ResultInv'
    BY <2>3, <2>4, Zenon DEF ResultInv, IInv, TypeOK
  <2>7. WaitInv'
    BY <2>1, <2>3, <2>4, Zenon DEF WaitInv, IInv, TypeOK
  <2>. QED
    BY <2>4, <2>5, <2>6, <2>7, Zenon DEF QuietInv
<1>14. ASSUME CloseBegin
       PROVE  QuietInv'
  <2>1. /\ UNCHANGED <<status, future, record, table, updates, delivered, caller>>
        /\ closer' = "cancelling" /\ closed'
        /\ \A t \in Turns : closing'[t] = "out" => PendingJobs(t) = {}
    BY <1>14, Zenon DEF CloseBegin, jobVars, historyVars
  <2>2. faults = 0
    BY <1>14, Zenon DEF CloseBegin
  <2>3. record = status /\ TableInv /\ ResultInv /\ WaitInv
    BY <2>2, Zenon DEF IInv, QuietInv
  <2>4. \A j \in Jobs : status[j] \in Live => j \in table
    BY <2>3 DEF TableInv, WaitInv, IInv, PositionInv, TypeOK
  <2>5. WaitInv'
    BY <2>1, <2>3, <2>4, Zenon DEF WaitInv, PendingJobs, JobsOf
  <2>6. TableInv' /\ ResultInv'
    BY <2>1, <2>3, Zenon DEF TableInv, ResultInv
  <2>. QED
    BY <2>1, <2>3, <2>5, <2>6, Zenon DEF QuietInv
<1>15. ASSUME CloseShutdown
       PROVE  QuietInv'
  <2>1. /\ UNCHANGED <<status, record, table, updates, delivered, caller, closed, closing>>
        /\ closer = "cancelling" /\ closer' = "joining"
        /\ \A t \in Turns : closing[t] # "out" => PendingJobs(t) = {}
        /\ \A j \in Jobs : future'[j] \in {future[j], "cancelled"}
    BY <1>15, Zenon DEF CloseShutdown, historyVars, IInv, TypeOK
  <2>2. faults = 0
    BY <1>15, Zenon DEF CloseShutdown
  <2>3. record = status /\ TableInv /\ ResultInv /\ WaitInv
    BY <2>2, Zenon DEF IInv, QuietInv
  <2>4. \A j \in Jobs : status[j] \in Live => j \in table
    BY <2>3 DEF TableInv, WaitInv, IInv, PositionInv, TypeOK
  <2>5. \A j \in Jobs : status[j] \notin Live
    BY <2>1, <2>3, <2>4, Zenon DEF WaitInv, PendingJobs, JobsOf
  <2>6. WaitInv'
    BY <2>1, <2>3, <2>5, Zenon DEF WaitInv
  <2>7. TableInv' /\ ResultInv'
    BY <2>1, <2>3, Zenon DEF TableInv, ResultInv
  <2>. QED
    BY <2>1, <2>3, <2>6, <2>7, Zenon DEF QuietInv
<1>16. ASSUME CloseJoined
       PROVE  QuietInv'
  <2>1. /\ UNCHANGED <<status, future, record, table, updates, delivered>>
        /\ UNCHANGED <<caller, closed, closing, faults>>
        /\ closer = "joining" /\ closer' = "closed"
    BY <1>16, Zenon DEF CloseJoined, jobVars, historyVars
  <2>2. record = status /\ TableInv /\ ResultInv /\ WaitInv
    BY <2>1, Zenon DEF IInv, QuietInv
  <2>. QED
    BY <2>1, <2>2, Zenon DEF QuietInv, TableInv, ResultInv, WaitInv
<1>17. CASE UNCHANGED vars
  BY <1>17, Zenon
     DEF IInv, QuietInv, TableInv, ResultInv, WaitInv, vars, jobVars, threadVars, historyVars
<1>18. CASE Next
  BY <1>18, <1>1, <1>2, <1>3, <1>4, <1>5, <1>6, <1>7, <1>8, <1>9, <1>10, <1>11,
     <1>12, <1>13, <1>14, <1>15, <1>16, Zenon DEF Next
<1>. QED
  BY <1>17, <1>18, Zenon
-----------------------------------------------------------------------------
(* What follows from the inductive invariant.                              *)

\* A manager without jobs satisfies the inductive invariant.
LEMMA InitIInv == Init => IInv
<1> SUFFICES ASSUME Init PROVE IInv
  BY Zenon
<1>1. TypeOK
  BY TypeInit, Zenon
<1>2. PositionInv /\ UpdateInv
  BY DEF Init, PositionInv, UpdateInv, Terminal
<1>3. TableInv /\ ResultInv /\ record = status
  BY Zenon DEF Init, TableInv, ResultInv
<1>4. WaitInv
  BY TurnOfAssumption, Zenon DEF Init, WaitInv, Live
<1>. QED
  BY <1>1, <1>2, <1>3, <1>4, Zenon DEF IInv, QuietInv

\* IInv is inductive: every reachable state of the manager satisfies it.
THEOREM Inductive == Spec => []IInv
<1>1. IInv /\ [Next]_vars => IInv'
  BY TypeStep, PositionStep, QuietStep, Zenon DEF IInv
<1>. QED
  BY <1>1, InitIInv, PTL DEF Spec

\* A job ends once and its result is handed out at most once, with journal
\* errors too: _finish_locked is never reached twice for a job.
THEOREM JobEndsOnce == Spec => []EndsOnce
<1>1. IInv => EndsOnce
  BY DEF IInv, TypeOK, PositionInv, EndsOnce
<1>. QED
  BY <1>1, Inductive, PTL

\* Session.jobs and the manager agree while journal writes succeed.
THEOREM JobRecordAgrees == Spec => []RecordAgrees
<1>1. IInv => RecordAgrees
  BY Zenon DEF IInv, QuietInv, RecordAgrees
<1>. QED
  BY <1>1, Inductive, PTL

\* No interleaving of cancel, finish and drain loses the result of a job.
THEOREM JobResultNotLost == Spec => []ResultNotLost
<1>1. ASSUME IInv, faults = 0, NEW j \in Jobs, status[j] \in Terminal
      PROVE  \/ delivered[j] = 0 /\ j \in table /\ Update(j, status[j]) \in updates
             \/ delivered[j] = 1 /\ j \notin table
             \/ delivered[j] = 0 /\ caller[TurnOf[j]] = "discarded"
  <2>1. delivered[j] = 0 \/ delivered[j] = 1
    BY <1>1 DEF IInv, TypeOK, PositionInv
  <2>. QED
    BY <1>1, <2>1, Zenon DEF IInv, QuietInv, TableInv, ResultInv, Terminal
<1>2. IInv => ResultNotLost
  BY <1>1, Zenon DEF ResultNotLost
<1>. QED
  BY <1>2, Inductive, PTL

\* A turn that ended or was discarded leaves no job, update or thread behind.
THEOREM TurnEndsQuiet == Spec => []EndedTurnIsQuiet
<1>1. ASSUME IInv, faults = 0, NEW j \in Jobs,
             caller[TurnOf[j]] \in {"ended", "discarded"}
      PROVE  /\ j \notin table
             /\ \A u \in updates : u.job # j
             /\ future[j] \notin {"pending"} \cup Busy
             /\ caller[TurnOf[j]] = "ended" /\ status[j] # "none" => delivered[j] = 1
  <2>1. j \notin table
    BY <1>1, Zenon DEF IInv, QuietInv, TableInv, WaitInv
  <2>2. status[j] \notin Live
    BY <1>1, Zenon DEF IInv, QuietInv, WaitInv
  <2>3. future[j] \notin {"pending"} \cup Busy
    BY <1>1, <2>2, Zenon DEF IInv, PositionInv, Live, Busy
  <2>4. \A u \in updates : u.job # j
    BY <1>1, <2>1, Zenon DEF IInv, QuietInv, ResultInv
  <2>5. caller[TurnOf[j]] = "ended" /\ status[j] # "none" => delivered[j] = 1
    <3>1. delivered[j] = 0 \/ delivered[j] = 1
      BY <1>1 DEF IInv, TypeOK, PositionInv
    <3>. QED
      BY <1>1, <2>1, <3>1, Zenon DEF IInv, QuietInv, TableInv
  <2>. QED
    BY <2>1, <2>3, <2>4, <2>5, Zenon
<1>2. IInv => EndedTurnIsQuiet
  BY <1>1, Zenon DEF EndedTurnIsQuiet
<1>. QED
  BY <1>2, Inductive, PTL

\* The job manager is sound: the three theorems above as one.
THEOREM JobsAreSound == Spec => []JobsSound
<1>1. EndsOnce /\ ResultNotLost /\ EndedTurnIsQuiet => JobsSound
  BY Zenon DEF JobsSound
<1>. QED
  BY <1>1, JobEndsOnce, JobResultNotLost, TurnEndsQuiet, PTL

\* Nobody waits for a job that has no future left to end it.
THEOREM LiveJobsCanEnd == Spec => []LiveJobHasFuture
<1>1. IInv => LiveJobHasFuture
  BY Zenon DEF IInv, TypeOK, QuietInv, WaitInv, LiveJobHasFuture
<1>. QED
  BY <1>1, Inductive, PTL
-----------------------------------------------------------------------------
(* close and the journalled facts, with journal errors.                    *)

\* The executor that close shuts down gets no further work.
JoinInv ==
    /\ closer # "idle" => closed
    /\ closer \in {"joining", "closed"} => \A j \in Jobs : future[j] # "pending"
    /\ closer = "closed" => \A j \in Jobs : future[j] \notin Busy

\* A journalled end is the manager's own, and it is the last word.
FactInv ==
    \A j \in Jobs :
      /\ status[j] = "none" => record[j] = "none"
      /\ record[j] \in Terminal => status[j] = record[j] /\ saved[j] = progress[j]

\* No critical section gives work to an executor that close has shut down.
LEMMA JoinStep == IInv /\ JoinInv /\ [Next]_vars => JoinInv'
<1> SUFFICES ASSUME IInv, JoinInv, [Next]_vars
             PROVE  JoinInv'
  BY Zenon
<1> USE DEF Busy
<1>1. ASSUME NEW C \in SUBSET Jobs, NEW F, CancelLocked(C, F)
      PROVE  \A j \in Jobs : future'[j] = future[j] \/ future'[j] = "cancelled"
  <2>1. future' = [j \in Jobs |-> IF j \in Queued(C) THEN "cancelled" ELSE future[j]]
    BY <1>1, Zenon DEF CancelLocked
  <2>. QED
    BY <2>1, Zenon
<1>2. ASSUME NEW j \in Jobs,
             \/ Submit(j) \/ SubmitSinkFails(j) \/ SubmitExecutorFails(j)
             \/ WorkerPick(j) \/ WorkerStart(j) \/ WorkerStartSinkFails(j)
             \/ \E s \in Terminal : WorkerFinish(j, s)
             \/ ReportProgress(j)
      PROVE  JoinInv'
  <2>1. UNCHANGED <<closed, closer>>
    BY <1>2, Zenon DEF Submit, SubmitSinkFails, SubmitExecutorFails, SubmitFrame, WorkerPick,
       WorkerStart, WorkerStartSinkFails, WorkerFinish, ReportProgress, threadVars
  <2>2. CASE Submit(j) \/ SubmitSinkFails(j) \/ SubmitExecutorFails(j)
    <3>1. ~closed
      BY <2>2, Zenon DEF Submit, SubmitSinkFails, SubmitExecutorFails, CanSubmit
    <3>. QED
      BY <2>1, <3>1, Zenon DEF JoinInv
  <2>3. CASE \/ WorkerPick(j) \/ WorkerStart(j) \/ WorkerStartSinkFails(j)
             \/ \E s \in Terminal : WorkerFinish(j, s)
             \/ ReportProgress(j)
    <3>1. \/ future' = future
          \/ /\ future[j] \in {"pending"} \cup Busy
             /\ \E f : future' = [future EXCEPT ![j] = f] /\ f # "pending"
      BY <2>3, Zenon DEF WorkerPick, WorkerStart, WorkerStartSinkFails, WorkerFinish, Outcomes,
         ReportProgress
    <3>2. DOMAIN future = Jobs
      BY Zenon DEF IInv, TypeOK
    <3>. QED
      BY <2>1, <3>1, <3>2, Zenon DEF JoinInv
  <2>. QED
    BY <1>2, <2>2, <2>3, Zenon
<1>3. ASSUME NEW C \in SUBSET Jobs,
             CancelLocked(C, {}) \/ CancelLockedFails(C)
      PROVE  \A j \in Jobs : future'[j] = future[j] \/ future'[j] = "cancelled"
  <2>1. \E D \in SUBSET Jobs : \E F : CancelLocked(D, F)
    BY <1>3, CancelFailsWitness, Zenon
  <2>. QED
    BY <1>1, <2>1, Zenon
<1>4. ASSUME NEW j \in Jobs, CancelJob(j)
      PROVE  JoinInv'
  <2>1. CancelLocked({j}, {}) \/ CancelLockedFails({j})
    BY <1>4, Zenon DEF CancelJob
  <2>2. UNCHANGED <<closed, closer>>
    BY <1>4, Zenon DEF CancelJob, threadVars
  <2>. QED
    BY <1>3, <2>1, <2>2, SMTT(60) DEF JoinInv
<1>5. ASSUME NEW t \in Turns, CancelTurn(t) \/ CloseCancelTurn(t)
      PROVE  JoinInv'
  <2>1. \/ CancelLocked(table \cap JobsOf(t), {})
        \/ CancelLockedFails(table \cap JobsOf(t))
    BY <1>5, Zenon DEF CancelTurn, CloseCancelTurn
  <2>2. /\ UNCHANGED closed
        /\ closer' = closer \/ (closer = "cancelling" /\ closer' = "raised")
    BY <1>5, Zenon DEF CancelTurn, CloseCancelTurn
  <2>3. table \cap JobsOf(t) \in SUBSET Jobs
    BY SMTT(30) DEF JobsOf
  <2>. QED
    BY <1>3, <2>1, <2>2, <2>3, Zenon DEF JoinInv
<1>6. ASSUME NEW t \in Turns,
             \/ DrainTerminalState(t) \/ EndTurn(t) \/ WaitForTurn(t)
             \/ DrainUpdates(t)
      PROVE  JoinInv'
  BY <1>6, Zenon DEF DrainTerminalState, EndTurn, WaitForTurn, DrainUpdates, JoinInv,
     jobVars, threadVars
<1>7. CASE CloseBegin \/ CloseShutdown \/ CloseJoined
  BY <1>7, Zenon DEF CloseBegin, CloseShutdown, CloseJoined, JoinInv, IInv, TypeOK, jobVars
<1>8. CASE UNCHANGED vars
  BY <1>8, Zenon DEF vars, jobVars, threadVars, JoinInv
<1>9. CASE Next
  BY <1>9, <1>2, <1>4, <1>5, <1>6, <1>7, Zenon DEF Next
<1>. QED
  BY <1>8, <1>9, Zenon

\* When close has returned no worker thread works for the session any more,
\* and without journal errors every job has ended.
THEOREM CloseIsQuiet == Spec => []ClosedIsQuiet
<1>1. Init => JoinInv
  BY Zenon DEF Init, JoinInv
<1>2. IInv /\ JoinInv => ClosedIsQuiet
  BY Zenon DEF IInv, QuietInv, WaitInv, JoinInv, ClosedIsQuiet
<1>. QED
  BY <1>1, <1>2, Inductive, JoinStep, PTL DEF Spec

\* Ending live jobs journals their end and their last progress.
LEMMA FinishFacts ==
    ASSUME IInv, TypeOK', FactInv, NEW S \in SUBSET Jobs, NEW F, NEW s \in Terminal,
           FinishLocked(S, F, s), UNCHANGED progress,
           \A j \in S : status[j] \in Live
    PROVE  /\ FactInv'
           /\ \A j \in Jobs : /\ record[j] \in Terminal => record'[j] = record[j]
                              /\ record'[j] = record[j] \/ record'[j] = s
                              /\ status'[j] = status[j] \/ status'[j] = s
  BY Zenon DEF IInv, TypeOK, FactInv, FinishLocked, Live, Terminal, JobStatus

\* What one step may do to the journalled status of a job.
Forward(j) ==
    /\ token[j] /\ status[j] = "submitted" => status'[j] # "running"
    /\ record[j] \in Terminal => record'[j] = record[j]
    /\ record[j] = "running" => record'[j] # "submitted"

\* The step leaves what is known of job k alone.
SameFacts(k) ==
    /\ status'[k] = status[k] /\ record'[k] = record[k]
    /\ saved'[k] = saved[k] /\ progress'[k] = progress[k]

\* A job that a step leaves alone keeps its facts and does not move.
LEMMA SameForward ==
    ASSUME NEW k \in Jobs, FactInv, SameFacts(k)
    PROVE  /\ Forward(k)
           /\ status'[k] = "none" => record'[k] = "none"
           /\ record'[k] \in Terminal => status'[k] = record'[k] /\ saved'[k] = progress'[k]
  BY Zenon DEF FactInv, SameFacts, Forward

\* No critical section moves a journalled status backwards, starts a cancelled
\* job, or changes progress after the terminal fact.
LEMMA FactStep ==
    IInv /\ TypeOK' /\ FactInv /\ [Next]_vars =>
      FactInv' /\ \A j \in Jobs : Forward(j)
<1> SUFFICES ASSUME IInv, TypeOK', FactInv, [Next]_vars
             PROVE  FactInv' /\ \A j \in Jobs : Forward(j)
  BY Zenon
<1> USE DEF Live, Terminal
<1>0. DOMAIN status = Jobs /\ DOMAIN record = Jobs /\ DOMAIN saved = Jobs /\ DOMAIN progress = Jobs
  BY Zenon DEF IInv, TypeOK
<1>1. ASSUME NEW C \in SUBSET Jobs, NEW F, CancelLocked(C, F)
      PROVE  FactInv' /\ \A j \in Jobs : Forward(j)
  <2>1. /\ Queued(C) \in SUBSET Jobs /\ \A j \in Queued(C) : status[j] \in Live
        /\ FinishLocked(Queued(C), F, "cancelled") /\ UNCHANGED progress
    BY <1>1, Zenon DEF CancelLocked, Queued, Cancellable
  <2>. QED
    BY <2>1, FinishFacts, Zenon DEF Forward
<1>2. ASSUME NEW C \in SUBSET Jobs,
             CancelLocked(C, {}) \/ CancelLockedFails(C)
      PROVE  FactInv' /\ \A j \in Jobs : Forward(j)
  <2>1. \E D \in SUBSET Jobs : \E F : CancelLocked(D, F)
    BY <1>2, CancelFailsWitness, Zenon
  <2>. QED
    BY <1>1, <2>1, Zenon
<1>3. ASSUME NEW j \in Jobs,
             Submit(j) \/ SubmitSinkFails(j) \/ SubmitExecutorFails(j)
      PROVE  FactInv' /\ \A k \in Jobs : Forward(k)
  <2>1. /\ status[j] = "none" /\ record[j] = "none"
        /\ status'[j] \in {"none", "submitted"} /\ record'[j] \in {"none", "submitted"}
        /\ status'[j] = "none" => record'[j] = "none"
    BY <1>0, <1>3, Zenon
       DEF Submit, SubmitSinkFails, SubmitExecutorFails, CanSubmit, SubmitFrame, FactInv
  <2>2. \A k \in Jobs \ {j} : SameFacts(k)
    BY <1>0, <1>3, Zenon
       DEF Submit, SubmitSinkFails, SubmitExecutorFails, SubmitFrame, SameFacts
  <2>. QED
    BY <2>1, <2>2, SameForward, Zenon DEF FactInv, Forward
<1>4. ASSUME NEW j \in Jobs,
             WorkerPick(j) \/ WorkerStart(j) \/ WorkerStartSinkFails(j)
      PROVE  FactInv' /\ \A k \in Jobs : Forward(k)
  <2>1. status[j] = "submitted" /\ record[j] \notin Terminal
    BY <1>4, Zenon DEF WorkerPick, WorkerStart, WorkerStartSinkFails, IInv, PositionInv, FactInv
  <2>2. /\ status'[j] \in {"submitted", "running"}
        /\ record'[j] \in {record[j], "running"}
        /\ token[j] => status'[j] = "submitted"
    BY <1>0, <1>4, <2>1, Zenon DEF WorkerPick, WorkerStart, WorkerStartSinkFails
  <2>3. \A k \in Jobs \ {j} : SameFacts(k)
    BY <1>0, <1>4, Zenon DEF WorkerPick, WorkerStart, WorkerStartSinkFails, SameFacts
  <2>4. record[j] = "running" => record'[j] # "submitted"
    BY <2>2, Zenon
  <2>. QED
    BY <2>1, <2>2, <2>3, <2>4, SameForward, Zenon DEF FactInv, Forward
<1>5. ASSUME NEW j \in Jobs, NEW s \in Terminal, WorkerFinish(j, s)
      PROVE  FactInv' /\ \A k \in Jobs : Forward(k)
  <2>1. PICK F : FinishLocked({j}, F, s) /\ UNCHANGED progress
    BY <1>5, Zenon DEF WorkerFinish
  <2>2. status[j] \in Live
    BY <1>5, Zenon DEF WorkerFinish, Outcomes, IInv, PositionInv
  <2>. QED
    BY <2>1, <2>2, FinishFacts, Zenon DEF Forward
<1>6. ASSUME NEW j \in Jobs, ReportProgress(j)
      PROVE  FactInv' /\ \A k \in Jobs : Forward(k)
  <2>1. /\ status[j] = "running"
        /\ UNCHANGED <<status, record, saved>>
        /\ \A k \in Jobs \ {j} : progress'[k] = progress[k]
    BY <1>6, Zenon DEF ReportProgress, IInv, TypeOK
  <2>2. record[j] \notin Terminal
    BY <2>1, Zenon DEF FactInv
  <2>. QED
    BY <2>1, <2>2, Zenon DEF FactInv, Forward
<1>7. ASSUME NEW j \in Jobs, CancelJob(j)
      PROVE  FactInv' /\ \A k \in Jobs : Forward(k)
  <2>1. CancelLocked({j}, {}) \/ CancelLockedFails({j})
    BY <1>7, Zenon DEF CancelJob
  <2>. QED
    BY <1>2, <2>1, Zenon
<1>8. ASSUME NEW t \in Turns, CancelTurn(t) \/ CloseCancelTurn(t)
      PROVE  FactInv' /\ \A k \in Jobs : Forward(k)
  <2>1. \/ CancelLocked(table \cap JobsOf(t), {})
        \/ CancelLockedFails(table \cap JobsOf(t))
    BY <1>8, Zenon DEF CancelTurn, CloseCancelTurn
  <2>2. table \cap JobsOf(t) \in SUBSET Jobs
    BY Zenon DEF JobsOf
  <2>. QED
    BY <1>2, <2>1, <2>2, Zenon
<1>9. ASSUME UNCHANGED <<status, record, progress, saved>>
      PROVE  FactInv' /\ \A k \in Jobs : Forward(k)
  BY <1>9, Zenon DEF FactInv, Forward
<1>10. ASSUME NEW t \in Turns,
              \/ DrainTerminalState(t) \/ EndTurn(t) \/ WaitForTurn(t)
              \/ DrainUpdates(t)
       PROVE  UNCHANGED <<status, record, progress, saved>>
  BY <1>10, Zenon DEF DrainTerminalState, EndTurn, WaitForTurn, DrainUpdates, jobVars
<1>11. ASSUME CloseBegin \/ CloseShutdown \/ CloseJoined \/ UNCHANGED vars
       PROVE  UNCHANGED <<status, record, progress, saved>>
  BY <1>11, Zenon DEF CloseBegin, CloseShutdown, CloseJoined, vars, jobVars
<1>12. CASE UNCHANGED vars
  BY <1>9, <1>11, <1>12, Zenon
<1>13. CASE Next
  BY <1>13, <1>3, <1>4, <1>5, <1>6, <1>7, <1>8, <1>9, <1>10, <1>11, Zenon DEF Next
<1>. QED
  BY <1>12, <1>13, Zenon

\* FactInv holds in every reachable state.
LEMMA FactsHold == Spec => []FactInv
<1>1. Init => FactInv
  BY Zenon DEF Init, FactInv, Terminal
<1>2. IInv /\ IInv' /\ FactInv /\ [Next]_vars => FactInv'
  BY FactStep, Zenon DEF IInv
<1>. QED
  BY <1>1, <1>2, Inductive, PTL DEF Spec

\* The progress the terminal event saved is final, with journal errors too.
THEOREM ProgressIsFinal == Spec => []SavedProgressIsFinal
<1>1. FactInv => SavedProgressIsFinal
  BY Zenon DEF FactInv, SavedProgressIsFinal
<1>. QED
  BY <1>1, FactsHold, PTL

\* A job cancelled while queued never runs and journalled statuses only move
\* forward, with journal errors too.
THEOREM CancelledNeverStarts == Spec => NeverStartsCancelled
<1>1. IInv /\ IInv' /\ FactInv /\ [Next]_vars =>
        [\A j \in Jobs :
           /\ token[j] /\ status[j] = "submitted" => status'[j] # "running"
           /\ record[j] \in Terminal => record'[j] = record[j]
           /\ record[j] = "running" => record'[j] # "submitted"]_vars
  BY FactStep, Zenon DEF IInv, Forward
<1>. QED
  BY <1>1, Inductive, FactsHold, PTL DEF Spec, NeverStartsCancelled

-----------------------------------------------------------------------------
(* The refinement of JobBoard.                                             *)

\* What the board shows of a job, by the state of the manager.
LEMMA PhaseCases ==
    ASSUME TypeOK, NEW j \in Jobs
    PROVE  /\ status[j] = "none" => Phase(j) = "new"
           /\ status[j] \in Live => Phase(j) = "open"
           /\ status[j] \in Terminal /\ delivered[j] > 0 => Phase(j) = "delivered"
           /\ status[j] \in Terminal /\ delivered[j] = 0 /\ j \in table => Phase(j) = "settled"
           /\ status[j] \in Terminal /\ delivered[j] = 0 /\ j \notin table => Phase(j) = "dropped"
  BY DEF TypeOK, Phase, Live, Terminal, JobStatus

\* Exactly the settled jobs of a turn that is open have a terminal update.
LEMMA SettledJobs ==
    ASSUME IInv, faults = 0, NEW t \in Turns
    PROVE  TerminalJobs(t) = {j \in JobsOf(t) : Phase(j) = "settled"}
<1>1. ASSUME NEW j \in JobsOf(t), j \in TerminalJobs(t)
      PROVE  Phase(j) = "settled"
  <2>1. PICK s \in Terminal : Update(j, s) \in updates
    BY <1>1, Zenon DEF TerminalJobs
  <2>2. status[j] = s /\ delivered[j] = 0
    BY <2>1, Zenon DEF IInv, UpdateInv, Update
  <2>3. j \in table
    BY <2>1, Zenon DEF IInv, QuietInv, ResultInv, Update
  <2>. QED
    BY <2>1, <2>2, <2>3, PhaseCases, Zenon DEF IInv, JobsOf
<1>2. ASSUME NEW j \in JobsOf(t), Phase(j) = "settled"
      PROVE  j \in TerminalJobs(t)
  <2>1. j \in Jobs
    BY Zenon DEF JobsOf
  <2>2. status[j] \in Terminal /\ j \in table
    <3>1. status[j] \in {"none"} \cup Live \cup Terminal /\ delivered[j] \in Nat
      BY <2>1, Zenon DEF IInv, TypeOK, JobStatus
    <3>. QED
      BY <1>2, <2>1, <3>1, PhaseCases DEF IInv
  <2>3. Update(j, status[j]) \in updates
    BY <2>2, Zenon DEF IInv, QuietInv, ResultInv
  <2>. QED
    BY <2>2, <2>3, Zenon DEF TerminalJobs
<1>. QED
  BY <1>1, <1>2, Zenon DEF TerminalJobs

\* A live job is in the table and undelivered, and its turn is not discarded.
LEMMA LiveJobs ==
    ASSUME IInv, faults = 0, NEW j \in Jobs, status[j] \in Live
    PROVE  /\ delivered[j] = 0
           /\ j \in table
           /\ caller[TurnOf[j]] \notin {"draining", "ended", "discarded"}
<1>1. status[j] \notin Terminal /\ status[j] # "none"
  BY Zenon DEF Live, Terminal
<1>2. delivered[j] = 0
  BY <1>1 DEF IInv, TypeOK, PositionInv
<1>3. caller[TurnOf[j]] \notin {"draining", "ended", "discarded"}
  BY Zenon DEF IInv, QuietInv, WaitInv
<1>. QED
  BY <1>1, <1>2, <1>3, Zenon DEF IInv, QuietInv, TableInv

\* What the board shows as functions, unfolded, and a step on which it stands still.
LEMMA BoardStands ==
    ASSUME UNCHANGED <<status, table, delivered>>,
           \A t \in Turns : BoardTurn(t)' = BoardTurn(t)
    PROVE  UNCHANGED Board!boardVars
  BY Zenon DEF Board!boardVars, Phase, BoardTurn

\* Live jobs that end together without a journal error settle on the board.
LEMMA SettleStep ==
    ASSUME IInv, faults = 0, NEW S \in SUBSET Jobs, NEW s \in Terminal,
           FinishLocked(S, {}, s), \A j \in S : status[j] \in Live,
           UNCHANGED <<table, delivered>>,
           \A t \in Turns : BoardTurn(t)' = BoardTurn(t)
    PROVE  Board!Next \/ UNCHANGED Board!boardVars
<1>1. \A j \in S : delivered[j] = 0 /\ j \in table
  BY LiveJobs, Zenon
<1>2. \A j \in Jobs : status'[j] = IF j \in S THEN s ELSE status[j]
  BY Zenon DEF FinishLocked
<1>3. \A j \in S : Phase(j) = "open"
  BY Zenon DEF Phase, Live
<1>4. \A j \in Jobs : Phase(j)' = IF j \in S THEN "settled" ELSE Phase(j)
  BY <1>1, <1>2 DEF Phase, Live, Terminal
<1>5. [t \in Turns |-> BoardTurn(t)]' = [t \in Turns |-> BoardTurn(t)]
  BY Zenon DEF BoardTurn
<1>6. CASE S = {}
  BY <1>4, <1>5, <1>6, Zenon DEF Board!boardVars
<1>7. CASE S # {}
  <2>1. Board!Settle(S)
    BY <1>3, <1>4, <1>5, <1>7, Zenon DEF Board!Settle, Board!Move
  <2>. QED
    BY <2>1, Zenon DEF Board!Next
<1>. QED
  BY <1>6, <1>7, Zenon

\* A cancellation without a journal error settles the queued jobs it reaches.
LEMMA CancelStep ==
    ASSUME IInv, faults = 0, NEW C \in SUBSET Jobs, CancelLocked(C, {}),
           \A t \in Turns : BoardTurn(t)' = BoardTurn(t)
    PROVE  Board!Next \/ UNCHANGED Board!boardVars
<1>1. Queued(C) \in SUBSET Jobs /\ "cancelled" \in Terminal
  BY Zenon DEF Queued, Cancellable, Terminal
<1>2. /\ FinishLocked(Queued(C), {}, "cancelled")
      /\ UNCHANGED <<table, delivered>>
  BY Zenon DEF CancelLocked
<1>3. \A j \in Queued(C) : status[j] \in Live
  BY Zenon DEF Queued, Cancellable
<1>. QED
  BY <1>1, <1>2, <1>3, SettleStep, Zenon

\* submit is Accept.
LEMMA AcceptStep ==
    ASSUME IInv, NEW j \in Jobs, Submit(j)
    PROVE  Board!Next
<1> USE TurnOfAssumption
<1>1. status[j] = "none" /\ caller[TurnOf[j]] = "active" /\ TurnOf[j] \in Turns
  BY Zenon DEF Submit, CanSubmit
<1>2. Phase(j) = "new" /\ BoardTurn(TurnOf[j]) = "open"
  BY <1>1, Zenon DEF Phase, BoardTurn
<1>3. delivered[j] = 0
  BY <1>1 DEF IInv, TypeOK, PositionInv, Terminal
<1>4. \A k \in Jobs : Phase(k)' = IF k \in {j} THEN "open" ELSE Phase(k)
  BY <1>1, <1>3, Zenon DEF Submit, SubmitFrame, historyVars, Phase, Live, IInv, TypeOK
<1>5. [t \in Turns |-> BoardTurn(t)]' = [t \in Turns |-> BoardTurn(t)]
  BY Zenon DEF Submit, SubmitFrame, threadVars, BoardTurn
<1>6. Board!Accept(j)
  BY <1>1, <1>2, <1>4, <1>5, Zenon DEF Board!Accept, Board!Move
<1>. QED
  BY <1>6, Zenon DEF Board!Next

\* drain_terminal_state is Deliver: it hands over every settled job of the turn.
LEMMA DeliverStep ==
    ASSUME IInv, faults = 0, NEW t \in Turns, DrainTerminalState(t)
    PROVE  Board!Next
<1>1. caller[t] = "active" /\ TerminalJobs(t) # {} /\ TerminalJobs(t) \subseteq Jobs
  BY Zenon DEF DrainTerminalState, TerminalJobs, JobsOf
<1>2. TerminalJobs(t) = {j \in JobsOf(t) : Phase(j) = "settled"}
  BY SettledJobs, Zenon
<1>3. \A j \in TerminalJobs(t) : status[j] \in Terminal
  BY Zenon DEF IInv, UpdateInv, TerminalJobs, Update
<1>4. \A j \in Jobs : Phase(j)' = IF j \in TerminalJobs(t) THEN "delivered" ELSE Phase(j)
  BY <1>1, <1>3 DEF DrainTerminalState, IInv, TypeOK, Phase, Live, Terminal
<1>5. [u \in Turns |-> BoardTurn(u)]' = [u \in Turns |-> BoardTurn(u)]
  BY Zenon DEF DrainTerminalState, threadVars, BoardTurn
<1>6. BoardTurn(t) = "open"
  BY <1>1, Zenon DEF BoardTurn
<1>7. Board!In(Board!Owned(t), "settled") = TerminalJobs(t)
  BY <1>2, Zenon DEF Board!In, Board!Owned, JobsOf
<1>8. Board!Deliver(t)
  BY <1>1, <1>4, <1>5, <1>6, <1>7, Zenon DEF Board!Deliver, Board!Move
<1>. QED
  BY <1>8, Zenon DEF Board!Next

\* A turn that ends has every result: Complete.
LEMMA CompleteStep ==
    ASSUME IInv, faults = 0, NEW t \in Turns, EndTurn(t)
    PROVE  Board!Next
<1>1. /\ caller[t] = "active" /\ TerminalJobs(t) = {} /\ PendingJobs(t) = {}
      /\ caller' = [caller EXCEPT ![t] = "ended"]
      /\ UNCHANGED <<status, table, delivered>>
  BY Zenon DEF EndTurn, jobVars, historyVars
<1>2. ASSUME NEW j \in JobsOf(t)
      PROVE  Phase(j) \in {"new", "delivered"}
  <2>1. j \in Jobs /\ TurnOf[j] = t
    BY Zenon DEF JobsOf
  <2>2. status[j] \notin Live
    BY <1>1, <2>1, LiveJobs, Zenon DEF PendingJobs
  <2>3. Phase(j) # "settled"
    BY <1>1, SettledJobs, Zenon
  <2>4. status[j] = "none" \/ delivered[j] > 0 \/ j \in table
    BY <1>1, <2>1 DEF IInv, TypeOK, QuietInv, TableInv
  <2>. QED
    BY <2>2, <2>3, <2>4, Zenon DEF Phase
<1>3. [j \in Jobs |-> Phase(j)]' = [j \in Jobs |-> Phase(j)]
  BY <1>1, Zenon DEF Phase
<1>4. \A u \in Turns : BoardTurn(u)' = IF u = t THEN "complete" ELSE BoardTurn(u)
  BY <1>1, Zenon DEF BoardTurn, IInv, TypeOK
<1>5. BoardTurn(t) = "open"
  BY <1>1, Zenon DEF BoardTurn
<1>6. Board!Complete(t)
  BY <1>2, <1>3, <1>4, <1>5, Zenon DEF Board!Complete, Board!Owned, JobsOf
<1>. QED
  BY <1>6, Zenon DEF Board!Next

\* cancel_and_discard's last step is Discard: nothing of the turn is open.
LEMMA DiscardStep ==
    ASSUME IInv, faults = 0, NEW t \in Turns, DrainUpdates(t)
    PROVE  Board!Next
<1>1. /\ caller[t] = "draining" /\ TerminalJobs(t) \subseteq Jobs
      /\ table' = table \ TerminalJobs(t)
      /\ caller' = [caller EXCEPT ![t] = "discarded"]
      /\ UNCHANGED <<status, delivered>>
  BY Zenon DEF DrainUpdates, historyVars, TerminalJobs, JobsOf
<1>2. TerminalJobs(t) = {j \in JobsOf(t) : Phase(j) = "settled"}
  BY SettledJobs, Zenon
<1>3. \A j \in TerminalJobs(t) : status[j] \in Terminal /\ delivered[j] = 0
  BY Zenon DEF IInv, UpdateInv, TerminalJobs, Update
<1>4. \A j \in Jobs : Phase(j)' = IF j \in TerminalJobs(t) THEN "dropped" ELSE Phase(j)
  BY <1>1, <1>3 DEF Phase, Live, Terminal
<1>5. \A j \in JobsOf(t) : Phase(j) # "open"
  <2>1. \A j \in JobsOf(t) : j \in Jobs /\ status[j] \notin Live
    BY <1>1, LiveJobs, Zenon DEF JobsOf
  <2>. QED
    BY <2>1, Zenon DEF Phase
<1>6. \A u \in Turns : BoardTurn(u)' = IF u = t THEN "discarded" ELSE BoardTurn(u)
  BY <1>1, Zenon DEF BoardTurn, IInv, TypeOK
<1>7. BoardTurn(t) = "open"
  BY <1>1, Zenon DEF BoardTurn
<1>8. /\ Board!In(Board!Owned(t), "settled") = TerminalJobs(t)
      /\ Board!In(Board!Owned(t), "open") = {}
  BY <1>2, <1>5, Zenon DEF Board!In, Board!Owned, JobsOf
<1>9. Board!Discard(t)
  BY <1>4, <1>6, <1>7, <1>8, Zenon DEF Board!Discard, Board!Move
<1>. QED
  BY <1>9, Zenon DEF Board!Next
-----------------------------------------------------------------------------
(* The refinement.                                                         *)

\* Every critical section without a journal error is a step of the board, or
\* leaves it as it is.
LEMMA BoardStep ==
    ASSUME IInv, faults = 0, faults' = 0, [Next]_vars
    PROVE  Board!Next \/ UNCHANGED Board!boardVars
<1>1. ASSUME NEW j \in Jobs, Submit(j)
      PROVE  Board!Next
  BY <1>1, AcceptStep, Zenon
<1>2. ASSUME NEW j \in Jobs,
             \/ SubmitSinkFails(j) \/ SubmitExecutorFails(j) \/ WorkerStartSinkFails(j)
      PROVE  FALSE
  BY <1>2 DEF SubmitSinkFails, SubmitExecutorFails, WorkerStartSinkFails
<1>3. ASSUME NEW j \in Jobs, WorkerPick(j) \/ ReportProgress(j)
      PROVE  UNCHANGED Board!boardVars
  <2>1. UNCHANGED <<status, table, delivered, caller>>
    BY <1>3, Zenon DEF WorkerPick, ReportProgress, threadVars, historyVars
  <2>. QED
    BY <2>1, BoardStands, Zenon DEF BoardTurn
<1>4. ASSUME NEW j \in Jobs, WorkerStart(j)
      PROVE  UNCHANGED Board!boardVars
  <2>1. status[j] \in Live /\ status' = [status EXCEPT ![j] = "running"]
    BY <1>4, Zenon DEF WorkerStart, IInv, PositionInv, Live
  <2>2. UNCHANGED <<table, delivered, caller>>
    BY <1>4, Zenon DEF WorkerStart, threadVars, historyVars
  <2>3. \A k \in Jobs : Phase(k)' = Phase(k)
    BY <2>1, <2>2, Zenon DEF Phase, Live, IInv, TypeOK
  <2>4. \A t \in Turns : BoardTurn(t)' = BoardTurn(t)
    BY <2>2, Zenon DEF BoardTurn
  <2>. QED
    BY <2>3, <2>4, Zenon DEF Board!boardVars
<1>5. ASSUME NEW j \in Jobs, NEW s \in Terminal, WorkerFinish(j, s)
      PROVE  Board!Next \/ UNCHANGED Board!boardVars
  <2>1. status[j] \in Live
    BY <1>5, Zenon DEF WorkerFinish, Outcomes, IInv, PositionInv, Live
  <2>2. FinishLocked({j}, {}, s) /\ UNCHANGED <<table, delivered, caller>>
    BY <1>5 DEF WorkerFinish, threadVars
  <2>. QED
    BY <2>1, <2>2, SettleStep DEF BoardTurn
<1>6. ASSUME NEW j \in Jobs, CancelJob(j)
      PROVE  Board!Next \/ UNCHANGED Board!boardVars
  <2>1. CancelLocked({j}, {}) /\ UNCHANGED caller
    BY <1>6 DEF CancelJob, CancelLockedFails, threadVars
  <2>. QED
    BY <2>1, CancelStep, Zenon DEF BoardTurn
<1>7. ASSUME NEW t \in Turns, DrainTerminalState(t) \/ EndTurn(t) \/ DrainUpdates(t)
      PROVE  Board!Next
  BY <1>7, DeliverStep, CompleteStep, DiscardStep, Zenon
<1>8. ASSUME NEW t \in Turns, CancelTurn(t)
      PROVE  Board!Next \/ UNCHANGED Board!boardVars
  <2>1. /\ CancelLocked(table \cap JobsOf(t), {})
        /\ caller[t] = "active" /\ caller' = [caller EXCEPT ![t] = "waiting"]
    BY <1>8 DEF CancelTurn, CancelLockedFails
  <2>2. \A u \in Turns : BoardTurn(u)' = BoardTurn(u)
    BY <2>1, Zenon DEF BoardTurn, IInv, TypeOK
  <2>. QED
    BY <2>1, <2>2, CancelStep, Zenon DEF JobsOf
<1>9. ASSUME NEW t \in Turns, WaitForTurn(t)
      PROVE  UNCHANGED Board!boardVars
  <2>1. /\ caller[t] = "waiting" /\ caller' = [caller EXCEPT ![t] = "draining"]
        /\ UNCHANGED <<status, table, delivered>>
    BY <1>9, Zenon DEF WaitForTurn, jobVars, historyVars
  <2>2. \A u \in Turns : BoardTurn(u)' = BoardTurn(u)
    BY <2>1, Zenon DEF BoardTurn, IInv, TypeOK
  <2>. QED
    BY <2>1, <2>2, BoardStands, Zenon
<1>10. ASSUME NEW t \in Turns, CloseCancelTurn(t)
       PROVE  Board!Next \/ UNCHANGED Board!boardVars
  <2>1. CancelLocked(table \cap JobsOf(t), {}) /\ UNCHANGED caller
    BY <1>10 DEF CloseCancelTurn, CancelLockedFails
  <2>. QED
    BY <2>1, CancelStep, Zenon DEF BoardTurn, JobsOf
<1>11. ASSUME CloseBegin \/ CloseShutdown \/ CloseJoined \/ UNCHANGED vars
       PROVE  UNCHANGED Board!boardVars
  <2>1. UNCHANGED <<status, table, delivered, caller>>
    BY <1>11, Zenon DEF CloseBegin, CloseShutdown, CloseJoined, vars, jobVars,
                 threadVars, historyVars
  <2>. QED
    BY <2>1, BoardStands, Zenon DEF BoardTurn
<1>. QED
  BY <1>1, <1>2, <1>3, <1>4, <1>5, <1>6, <1>7, <1>8, <1>9, <1>10, <1>11, Zenon
     DEF Next

\* Journal errors are counted, never forgotten.
LEMMA FaultsGrow ==
    ASSUME TypeOK, [Next]_vars
    PROVE  faults' = faults \/ faults' = faults + 1
<1>1. \A C : CancelLockedFails(C) => faults' = faults + 1
  BY Zenon DEF CancelLockedFails
<1>2. CASE UNCHANGED vars
  BY <1>2, Zenon DEF vars
<1>3. CASE Next
  BY <1>1, <1>3, Zenon
     DEF Next, Submit, SubmitSinkFails, SubmitExecutorFails, WorkerPick, WorkerStart,
         WorkerStartSinkFails, WorkerFinish, ReportProgress, CancelJob,
         DrainTerminalState, EndTurn, CancelTurn, WaitForTurn, DrainUpdates,
         CloseCancelTurn, CloseBegin, CloseShutdown, CloseJoined
<1>. QED
  BY <1>2, <1>3, Zenon

\* A fresh manager is a fresh board.
LEMMA BoardInit == Init => Board!Init
  BY DEF Init, Board!Init, Phase, BoardTurn

\* Until a journal write fails, the job manager keeps what JobBoard promises:
\* an accepted job settles once, a settled result reaches its turn once or goes
\* with the discarded turn, and a turn completes with every result in its hands
\* (jobs.py: submit, _finish_locked, drain_terminal_state, cancel_and_discard).
THEOREM ManagerImplementsBoard == Spec => ImplementsBoard
<1>1. IInv /\ [Next]_vars => [Board!Next \/ (faults > 0)']_(Board!boardVars)
  <2> SUFFICES ASSUME IInv, [Next]_vars, ~(faults > 0)'
               PROVE  Board!Next \/ UNCHANGED Board!boardVars
    BY Zenon
  <2>1. TypeOK'
    BY TypeStep, Zenon DEF IInv
  <2>2. faults \in Nat /\ faults' \in Nat
    BY <2>1, Zenon DEF IInv, TypeOK
  <2>3. faults' = 0
    BY <2>2
  <2>4. faults = 0
    BY <2>2, <2>3, FaultsGrow DEF IInv
  <2>. QED
    BY <2>3, <2>4, BoardStep, Zenon
<1>. QED
  BY <1>1, BoardInit, Inductive, PTL DEF Spec, ImplementsBoard, Board!Spec
=============================================================================
