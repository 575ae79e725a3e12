------------------------------ MODULE TurnLoop ------------------------------
(***************************************************************************)
(* The life of a turn: agent_runtime/turn_runner.py, agent_core/agent.py,  *)
(* agent_core/loop_policy.py and agent_core/turn_control.py.               *)
(*                                                                         *)
(* Two threads share a TurnRunner.  The channel thread routes user_turn,   *)
(* user_steer, cancel and shutdown as they arrive.  The serving thread     *)
(* takes one queued turn after the other and runs the agent loop, `pc'     *)
(* being where it is; one of its steps is a stretch between two points at  *)
(* which it looks at the TurnControl the channel thread may have changed.  *)
(*                                                                         *)
(* Background jobs are those of JobBoard, whose promise JobManager keeps.  *)
(* The model's answers, the hooks' verdicts and the tools' errors are      *)
(* choices; the transcript is abstracted to the inputs that no model call  *)
(* has seen yet (`unseen') and the steers in the order they entered it.    *)
(***************************************************************************)
EXTENDS Naturals, Sequences, FiniteSets, Functions

CONSTANTS
    Turns, Jobs, TurnOf,
    Steers,      \* steer ids
    SteerTurn,   \* the turn_id a steer addresses
    NoTurn,      \* TurnRunner.turn_id is None
    MaxSends,    \* bound: steers a client sends, the same one again included
    MaxRounds    \* bound: tool batches and compactions of a turn

ASSUME TurnOfAssumption == TurnOf \in [Jobs -> Turns]
ASSUME SteerTurnAssumption == SteerTurn \in [Steers -> Turns]
ASSUME NoTurnAssumption == NoTurn \notin Turns
ASSUME BoundsAssumption == MaxSends \in Nat /\ MaxRounds \in Nat

VARIABLES
    inbox,           \* the user_turn messages of Bridge._messages
    queued,          \* TurnRunner._queued
    pendingSteers,   \* TurnRunner._pending_steers
    pendingCancels,  \* TurnRunner._pending_cancels
    shutdown,        \* TurnRunner._shutdown
    current,         \* TurnRunner.turn_id
    mailbox,         \* TurnControl._steering._items
    received,        \* TurnControl._steering._received
    cancelled,       \* TurnControl._cancelled
    finished,        \* TurnControl._finished
    pc,              \* where the serving thread is
    site,            \* which call of apply_steering it is in
    taken,           \* the steers apply_steering drained
    outcome,         \* the status the turn is ending with
    stops,           \* stop_continuations
    rounds,          \* tool batches and compactions so far
    unseen,          \* inputs of the turn that no request has carried
    status,          \* Session.turns[turn].status
    result,          \* TurnResult.status
    phase, turn,     \* the jobs, as on a JobBoard
    candidates,      \* turns with candidates in MemoryManager._pending
    remembered,      \* turns whose candidates were reconciled
    sends,           \* the steers sent so far
    accepted,        \* history: the steers each turn accepted, in order
    applied,         \* history: the steers in its transcript, in order
    stopped          \* history: turns that were told to cancel in time

runnerVars == <<queued, pendingSteers, pendingCancels, shutdown, current>>
controlVars == <<mailbox, received, cancelled, finished>>
loopVars == <<pc, site, taken, outcome, stops, rounds, unseen>>
recordVars == <<status, result, candidates, remembered>>
jobVars == <<phase, turn>>
historyVars == <<sends, accepted, applied, stopped>>
vars == <<inbox, runnerVars, controlVars, loopVars, recordVars, jobVars, historyVars>>

Board == INSTANCE JobBoard WITH broken <- FALSE

Init ==
    /\ inbox = <<>>
    /\ queued = {}
    /\ pendingSteers = [t \in Turns |-> <<>>]
    /\ pendingCancels = {}
    /\ shutdown = FALSE
    /\ current = NoTurn
    /\ mailbox = <<>>
    /\ received = {}
    /\ cancelled = FALSE
    /\ finished = FALSE
    /\ pc = "idle"
    /\ site = "loop"
    /\ taken = <<>>
    /\ outcome = "none"
    /\ stops = 0
    /\ rounds = 0
    /\ unseen = {}
    /\ status = [t \in Turns |-> "none"]
    /\ result = [t \in Turns |-> "none"]
    /\ Board!Init
    /\ candidates = {}
    /\ remembered = {}
    /\ sends = 0
    /\ accepted = [t \in Turns |-> <<>>]
    /\ applied = [t \in Turns |-> <<>>]
    /\ stopped = {}

-----------------------------------------------------------------------------
(* The channel thread.                                                     *)

\* Bridge.submit of a user_turn with a fresh turn_id.
Enqueue(t) ==
    /\ ~shutdown
    /\ status[t] = "none" /\ result[t] = "none"
    /\ t \notin queued /\ t # current
    /\ queued' = queued \cup {t}
    /\ inbox' = Append(inbox, t)
    /\ UNCHANGED <<pendingSteers, pendingCancels, shutdown, current, controlVars,
                   loopVars, recordVars, jobVars, historyVars>>

Once(seq, x) == IF x \in Range(seq) THEN seq ELSE Append(seq, x)

\* What is in a mailbox to which the elements were submitted one by one: the
\* first of equal ones, in their order.
FirstOnes(seq) == {i \in DOMAIN seq : \A j \in 1..(i - 1) : seq[j] # seq[i]}
OfRank(F, k) == {i \in F : Cardinality({j \in F : j <= i}) = k}
Only(S) == CHOOSE x \in S : TRUE
EachOnce(seq) ==
    [k \in 1..Cardinality(FirstOnes(seq)) |-> seq[Only(OfRank(FirstOnes(seq), k))]]

\* TurnRunner.steer, TurnControl.steer and UserSteeringMailbox.submit.  The
\* mailbox accepts exactly while its control is neither cancelled nor finished.
Steer(s) ==
    LET t == SteerTurn[s] IN
    /\ sends < MaxSends
    /\ sends' = sends + 1
    /\ \/ /\ t = current
          /\ ~cancelled /\ ~finished
          /\ accepted' = [accepted EXCEPT ![t] = Once(@, s)]
          /\ received' = received \cup {s}
          /\ mailbox' = IF s \in received THEN mailbox ELSE Append(mailbox, s)
          /\ UNCHANGED pendingSteers
       \/ /\ t # current
          /\ t \in queued /\ ~shutdown
          /\ accepted' = [accepted EXCEPT ![t] = Once(@, s)]
          /\ pendingSteers' = [pendingSteers EXCEPT ![t] = Append(@, s)]
          /\ UNCHANGED <<mailbox, received>>
       \/ /\ \/ t = current /\ (cancelled \/ finished)
             \/ t # current /\ (t \notin queued \/ shutdown)
          /\ UNCHANGED <<accepted, pendingSteers, mailbox, received>>
    /\ UNCHANGED <<inbox, queued, pendingCancels, shutdown, current, cancelled,
                   finished, loopVars, recordVars, jobVars, applied, stopped>>

\* TurnControl.cancel.
ControlCancel ==
    IF cancelled \/ finished
      THEN UNCHANGED <<cancelled, mailbox, stopped>>
      ELSE /\ cancelled' = TRUE
           /\ mailbox' = <<>>
           /\ stopped' = stopped \cup {current}

Cancel(t) ==
    /\ \/ /\ t = current
          /\ ControlCancel
          /\ UNCHANGED pendingCancels
       \/ /\ t # current /\ t \in queued
          /\ pendingCancels' = pendingCancels \cup {t}
          /\ stopped' = stopped \cup {t}
          /\ UNCHANGED <<cancelled, mailbox>>
    /\ UNCHANGED <<inbox, queued, pendingSteers, shutdown, current, received,
                   finished, loopVars, recordVars, jobVars, sends, accepted, applied>>

Shutdown ==
    /\ ~shutdown
    /\ shutdown' = TRUE
    /\ IF current # NoTurn THEN ControlCancel
                           ELSE UNCHANGED <<cancelled, mailbox, stopped>>
    /\ UNCHANGED <<inbox, queued, pendingSteers, pendingCancels, current, received,
                   finished, loopVars, recordVars, jobVars, sends, accepted, applied>>

-----------------------------------------------------------------------------
(* Background work: a job of the session ends.                             *)

JobSettles(j) ==
    /\ Board!Settle({j})
    /\ UNCHANGED <<inbox, runnerVars, controlVars, loopVars, recordVars, historyVars>>

-----------------------------------------------------------------------------
(* The serving thread.                                                     *)

\* What a step of the agent loop leaves alone.
AgentFrame == UNCHANGED <<inbox, runnerVars, status, result, turn, remembered,
                          sends, accepted, stopped>>
ControlFrame == UNCHANGED controlVars

At(p) == pc = p /\ AgentFrame

Go(p) == pc' = p /\ UNCHANGED <<site, outcome>>

\* An exception leaves _run: AgentCancelled or any other.
Raise(o) ==
    /\ pc' = "unwind"
    /\ outcome' = o
    /\ taken' = <<>>
    /\ UNCHANGED <<site, stops, rounds, unseen, phase, candidates, applied>>

RaiseIfCancelled == cancelled /\ Raise("cancelled")

\* TurnRunner.run_turn up to its first unlock.
RunTurn ==
    LET t == Head(inbox)
        stop == t \in pendingCancels \/ shutdown
    IN
    /\ pc = "idle"
    /\ inbox # <<>>
    /\ inbox' = Tail(inbox)
    /\ current' = t
    /\ queued' = queued \ {t}
    /\ pendingSteers' = [pendingSteers EXCEPT ![t] = <<>>]
    /\ pendingCancels' = pendingCancels \ {t}
    /\ received' = Range(pendingSteers[t])
    /\ mailbox' = IF stop THEN <<>> ELSE EachOnce(pendingSteers[t])
    /\ cancelled' = stop
    /\ finished' = FALSE
    /\ stopped' = IF stop THEN stopped \cup {t} ELSE stopped
    /\ pc' = "start"
    /\ stops' = 0 /\ rounds' = 0 /\ unseen' = {}
    /\ UNCHANGED <<shutdown, site, taken, outcome, recordVars, jobVars, sends,
                   accepted, applied>>

\* ensure_plane, memory.begin_turn and the attachments; a failure up to here
\* reaches run_turn's handlers without the agent, and before ensure_plane has
\* returned without a memory to discard from.
EnsurePlane ==
    /\ At("start")
    /\ ControlFrame
    /\ \/ Go("begin") /\ candidates' = {}
       \/ /\ pc' = "release"
          /\ outcome' \in {"failed"} \cup {o \in {"cancelled"} : cancelled}
          /\ candidates' \in {candidates, {}}
          /\ UNCHANGED site
    /\ UNCHANGED <<taken, stops, rounds, unseen, phase, applied>>

BeginTurn ==
    /\ pc = "begin"
    /\ pc' = "input"
    /\ status' = [status EXCEPT ![current] = "running"]
    /\ UNCHANGED <<inbox, runnerVars, controlVars, site, taken, outcome, stops,
                   rounds, unseen, result, candidates, remembered, jobVars,
                   historyVars>>

\* The InputSubmitted hooks on the prompt, then the prompt enters the transcript.
CheckInput ==
    /\ At("input")
    /\ ControlFrame
    /\ \/ /\ Go("top")
          /\ unseen' = unseen \cup {"prompt"}
          /\ UNCHANGED <<taken, stops, rounds, phase, candidates, applied>>
       \/ Raise("failed")
       \/ RaiseIfCancelled

Settled == Board!In(Board!Owned(current), "settled")
Pending == Board!In(Board!Owned(current), "open")

\* _apply_job_results.
ApplyJobs ==
    /\ phase' = [j \in Jobs |-> IF j \in Settled THEN "delivered" ELSE phase[j]]
    /\ unseen' = unseen \cup Settled
    /\ UNCHANGED <<taken, stops, rounds, candidates, applied>>

LoopTop ==
    /\ At("top")
    /\ ControlFrame
    /\ \/ RaiseIfCancelled
       \/ /\ ~cancelled
          /\ ApplyJobs
          /\ Go("request")

\* build_request, should_archive and the hard limit.
BuildRequest ==
    /\ At("request")
    /\ ControlFrame
    /\ \/ /\ Go("model")
          /\ unseen' = {}
          /\ UNCHANGED <<taken, stops, rounds, phase, candidates, applied>>
       \/ /\ rounds < MaxRounds
          /\ rounds' = rounds + 1
          /\ Go("archive")
          /\ UNCHANGED <<taken, stops, unseen, phase, candidates, applied>>
       \/ Raise("failed")

DrainAt(p) == pc' = "drain" /\ site' = p /\ UNCHANGED outcome

Archive ==
    /\ At("archive")
    /\ ControlFrame
    /\ \/ RaiseIfCancelled
       \/ Raise("failed")
       \/ /\ DrainAt("loop")
          /\ UNCHANGED <<taken, stops, rounds, unseen, phase, candidates, applied>>

\* stream_cancellable, model_completed, and the checks on the response: it
\* holds tool calls within the repetition limit, or a final text, or fails.
ModelResponds ==
    /\ At("model")
    /\ ControlFrame
    /\ \/ RaiseIfCancelled
       \/ Raise("failed")
       \/ /\ ~cancelled
          /\ \/ rounds < MaxRounds /\ rounds' = rounds + 1 /\ Go("tools")
             \/ rounds' = rounds /\ Go("after")
          /\ UNCHANGED <<taken, stops, unseen, phase, candidates, applied>>

\* A tool of the batch submits a background job, or remembers a candidate.
ToolSubmits(j) ==
    /\ At("tools")
    /\ ControlFrame
    /\ TurnOf[j] = current
    /\ phase[j] = "new"
    /\ phase' = [phase EXCEPT ![j] = "open"]
    /\ UNCHANGED <<loopVars, candidates, applied>>

ToolRemembers ==
    /\ At("tools")
    /\ ControlFrame
    /\ current \notin candidates
    /\ candidates' = candidates \cup {current}
    /\ UNCHANGED <<loopVars, phase, applied>>

\* The batch is over: its results enter the transcript, then those of jobs,
\* then the steers.
ToolsDone ==
    /\ At("tools")
    /\ ControlFrame
    /\ \/ RaiseIfCancelled
       \/ Raise("failed")
       \/ /\ ~cancelled
          /\ phase' = [j \in Jobs |-> IF j \in Settled THEN "delivered" ELSE phase[j]]
          /\ unseen' = unseen \cup Settled \cup {"tools"}
          /\ DrainAt("loop")
          /\ UNCHANGED <<taken, stops, rounds, candidates, applied>>

\* Mutant: finish closes the mailbox without looking into it.
DrainSteeringClosing ==
    LET open == ~cancelled /\ ~finished
        closing == open /\ site = "finish"
    IN
    /\ At("drain")
    /\ taken' = IF open /\ ~closing THEN mailbox ELSE <<>>
    /\ mailbox' = IF open THEN <<>> ELSE mailbox
    /\ finished' = (finished \/ closing)
    /\ Go("drained")
    /\ UNCHANGED <<received, cancelled, stops, rounds, unseen, phase, candidates,
                   applied>>

\* apply_steering up to raise_if_cancelled: TurnControl.drain_steering, or
\* TurnControl.finish, which closes an empty mailbox.
DrainSteering ==
    LET open == ~cancelled /\ ~finished IN
    /\ At("drain")
    /\ taken' = IF open THEN mailbox ELSE <<>>
    /\ mailbox' = IF open THEN <<>> ELSE mailbox
    /\ finished' = (finished \/ (open /\ site = "finish" /\ mailbox = <<>>))
    /\ Go("drained")
    /\ UNCHANGED <<received, cancelled, stops, rounds, unseen, phase, candidates,
                   applied>>

\* What apply_steering is followed by when it returns False.
Otherwise ==
    \/ site = "loop" /\ Go("top")
    \/ site = "wait" /\ Go("waiting")
    \/ site = "stop" /\ Go("stophook")
    \/ site = "finish" /\ Go("done")

\* Mutant: no raise_if_cancelled after the drain.
DrainedUnchecked ==
    /\ At("drained")
    /\ ControlFrame
    /\ IF taken = <<>> THEN Otherwise ELSE Go("append")
    /\ UNCHANGED <<taken, stops, rounds, unseen, phase, candidates, applied>>

Drained ==
    /\ At("drained")
    /\ ControlFrame
    /\ \/ RaiseIfCancelled
       \/ /\ ~cancelled
          /\ IF taken = <<>> THEN Otherwise ELSE Go("append")
          /\ UNCHANGED <<taken, stops, rounds, unseen, phase, candidates, applied>>

\* _append_steering, one steer: its InputSubmitted hooks, then the transcript.
AppendSteer ==
    /\ At("append")
    /\ ControlFrame
    /\ \/ /\ applied' = [applied EXCEPT ![current] = Append(@, Head(taken))]
          /\ unseen' = unseen \cup {Head(taken)}
          /\ taken' = Tail(taken)
          /\ IF Tail(taken) = <<>> THEN Go("top") ELSE Go("append")
          /\ UNCHANGED <<stops, rounds, phase, candidates>>
       \/ Raise("failed")
       \/ RaiseIfCancelled

\* Mutant: job results do not lead to another model call.
AfterResponseDropsJobs ==
    /\ At("after")
    /\ ControlFrame
    /\ \/ RaiseIfCancelled
       \/ /\ ~cancelled
          /\ ApplyJobs
          /\ IF Settled = {} /\ Pending # {} THEN DrainAt("wait") ELSE DrainAt("stop")

\* Mutant: pending jobs are not waited for.
AfterResponseNoWait ==
    /\ At("after")
    /\ ControlFrame
    /\ \/ RaiseIfCancelled
       \/ /\ ~cancelled
          /\ ApplyJobs
          /\ IF Settled # {} THEN Go("top") ELSE DrainAt("stop")

\* after_response: jobs first; then steers, while jobs are pending or once
\* before the Stop hooks.
AfterResponse ==
    /\ At("after")
    /\ ControlFrame
    /\ \/ RaiseIfCancelled
       \/ /\ ~cancelled
          /\ ApplyJobs
          /\ \/ Settled # {} /\ Go("top")
             \/ Settled = {} /\ Pending # {} /\ DrainAt("wait")
             \/ Settled = {} /\ Pending = {} /\ DrainAt("stop")

\* Mutant: wait_for_update has no timeout.
WaitForJobForever ==
    /\ At("waiting")
    /\ ControlFrame
    /\ Settled # {}
    /\ Go("after")
    /\ UNCHANGED <<taken, stops, rounds, unseen, phase, candidates, applied>>

\* wait_for_update returns after 0.1 s at the latest.
WaitForJob ==
    /\ At("waiting")
    /\ ControlFrame
    /\ Go("after")
    /\ UNCHANGED <<taken, stops, rounds, unseen, phase, candidates, applied>>

\* before_finish: no Stop hook or all pass; or one asks to continue, which is
\* granted once.
StopHook ==
    /\ At("stophook")
    /\ ControlFrame
    /\ \/ RaiseIfCancelled
       \/ Raise("failed")
       \/ /\ ~cancelled
          /\ DrainAt("finish")
          /\ UNCHANGED <<taken, stops, rounds, unseen, phase, candidates, applied>>
       \/ /\ ~cancelled
          /\ stops < 1
          /\ stops' = stops + 1
          /\ unseen' = unseen \cup {"feedback"}
          /\ DrainAt("loop")
          /\ UNCHANGED <<taken, rounds, phase, candidates, applied>>

\* _run returned: finish_turn("completed").
Return ==
    /\ pc = "done"
    /\ pc' = "reconcile"
    /\ status' = [status EXCEPT ![current] = "completed"]
    /\ turn' = [turn EXCEPT ![current] = "complete"]
    /\ UNCHANGED <<inbox, runnerVars, controlVars, site, taken, outcome, stops,
                   rounds, unseen, result, candidates, remembered, phase,
                   historyVars>>

\* memory.reconcile_pending, which may fail with a warning.
Reconcile ==
    /\ pc = "reconcile"
    /\ pc' = "release"
    /\ outcome' = "completed"
    /\ candidates' = {}
    /\ remembered' \in {remembered, remembered \cup candidates}
    /\ UNCHANGED <<inbox, runnerVars, controlVars, site, taken, stops, rounds,
                   unseen, status, result, jobVars, historyVars>>

\* Agent.run's handlers: _cancel_jobs, which waits for the jobs of the turn ...
CancelJobs ==
    /\ pc = "unwind"
    /\ pc' = "unwound"
    /\ Board!Discard(current)
    /\ UNCHANGED <<inbox, runnerVars, controlVars, site, taken, outcome, stops,
                   rounds, unseen, recordVars, historyVars>>

\* Mutant: pending memory is kept.
FinishTurnRemembers ==
    /\ pc = "unwound"
    /\ pc' = "release"
    /\ status' = [status EXCEPT ![current] = outcome]
    /\ UNCHANGED <<inbox, runnerVars, controlVars, site, taken, outcome, stops,
                   rounds, unseen, result, candidates, remembered, jobVars,
                   historyVars>>

\* ... then finish_turn with the status, and run_turn's memory.discard_pending.
FinishTurn ==
    /\ pc = "unwound"
    /\ pc' = "release"
    /\ status' = [status EXCEPT ![current] = outcome]
    /\ candidates' = {}
    /\ UNCHANGED <<inbox, runnerVars, controlVars, site, taken, outcome, stops,
                   rounds, unseen, result, remembered, jobVars, historyVars>>

\* run_turn's finally, and its result.
Release ==
    /\ pc = "release"
    /\ pc' = "idle"
    /\ result' = [result EXCEPT ![current] = outcome]
    /\ current' = NoTurn
    /\ outcome' = "none"
    /\ mailbox' = <<>> /\ received' = {} /\ cancelled' = FALSE /\ finished' = FALSE
    /\ UNCHANGED <<inbox, queued, pendingSteers, pendingCancels, shutdown, site,
                   taken, stops, rounds, unseen, status, candidates, remembered,
                   jobVars, historyVars>>

-----------------------------------------------------------------------------
AgentStep ==
    \/ RunTurn \/ EnsurePlane \/ BeginTurn \/ CheckInput
    \/ LoopTop \/ BuildRequest \/ Archive \/ ModelResponds
    \/ (\E j \in Jobs : ToolSubmits(j)) \/ ToolRemembers \/ ToolsDone
    \/ DrainSteering \/ Drained \/ AppendSteer
    \/ AfterResponse \/ WaitForJob \/ StopHook
    \/ Return \/ Reconcile \/ CancelJobs \/ FinishTurn \/ Release

Next ==
    \/ \E t \in Turns : Enqueue(t) \/ Cancel(t)
    \/ \E s \in Steers : Steer(s)
    \/ Shutdown
    \/ \E j \in Jobs : JobSettles(j)
    \/ AgentStep

Spec == Init /\ [][Next]_vars

\* The serving thread runs: model calls, hooks and tools return (they have
\* timeouts, and poll the control).  Jobs need not end, except those of a turn
\* that is being unwound: cancel_and_discard cancels them.
Fairness ==
    /\ WF_vars(AgentStep)
    /\ \A j \in Jobs : WF_vars(pc = "unwind" /\ JobSettles(j))

FairSpec == Spec /\ Fairness

-----------------------------------------------------------------------------
(* Properties.                                                             *)

\* Steers enter the transcript in the order they were accepted, none twice
\* (whatever the client resends, before or after the turn starts), and a turn
\* completes only with every steer it accepted in its transcript.
SteersApplied ==
    \A t \in Turns :
      /\ Len(applied[t]) <= Len(accepted[t])
      /\ applied[t] = SubSeq(accepted[t], 1, Len(applied[t]))
      /\ \A i, j \in DOMAIN applied[t] : applied[t][i] = applied[t][j] => i = j
      /\ status[t] = "completed" => applied[t] = accepted[t]

\* A cancel or a shutdown that finds the turn queued or not yet finished wins:
\* the turn never completes.  And only such a turn reports "cancelled".
CancelWins ==
    \A t \in Turns :
      /\ t \in stopped => status[t] # "completed" /\ result[t] # "completed"
      /\ "cancelled" \in {status[t], result[t]} => t \in stopped

\* Long-term memory only learns from completed turns: candidates of a turn
\* that failed or was cancelled are never reconciled, not even by a later turn.
MemoryOfCompleted ==
    /\ \A t \in remembered : status[t] = "completed"
    /\ candidates \subseteq {current}

\* A turn completes only when its last request carried every prompt, steer, job
\* result, tool result and Stop feedback: the final answer knows of all input.
AnswersEverything ==
    [][\A t \in Turns :
         status[t] # "completed" /\ status'[t] = "completed" => unseen = {}]_vars

\* The loop keeps JobBoard's rules: a turn ends with no job open and no result
\* undelivered, unless all of its jobs are discarded.
KeepsBoard == Board!Spec

\* Every control takes effect.  A cancelled turn ends; a steer accepted by the
\* running turn is applied or the turn ends, also while the turn waits for jobs
\* that never end; after shutdown every queued turn is taken and ended.
ControlsTakeEffect ==
    /\ (current # NoTurn /\ cancelled) ~> current = NoTurn
    /\ \A s \in Steers :
         (s \in received /\ current = SteerTurn[s]) ~>
           (s \in Range(applied[SteerTurn[s]]) \/ current # SteerTurn[s])
    /\ shutdown ~> (queued = {} /\ current = NoTurn)

\* A turn is sound: accepted steers are applied once and in order, a cancel in
\* time wins, and only completed turns are remembered (agent.py, turn_control.py,
\* the three above).
TurnSound == SteersApplied /\ CancelWins /\ MemoryOfCompleted
=============================================================================
