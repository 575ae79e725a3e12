------------------------------ MODULE BridgeTurn ------------------------------
(***************************************************************************)
(* One Bridge with its session open (interfaces/bridge/bridge.py) and its  *)
(* TurnRunner (agent_runtime/turn_runner.py): the transport thread that    *)
(* routes commands, the channel thread that serves turns, and the tool     *)
(* threads of a turn that ask the user.                                    *)
(*                                                                         *)
(* A step is what a thread does between two shared accesses that other     *)
(* threads can separate.  The agent is reduced to starting tools, applying *)
(* steering and ending; TurnLoop and ToolBatch have its detail.  Events are*)
(* kept as the facts the properties compare.                               *)
(***************************************************************************)
EXTENDS Integers, Sequences, FiniteSets

CONSTANTS
    Turns,        \* turn ids; each is submitted at most once
    Tools,        \* tool threads of the batch that is executed
    Steers,       \* steer ids
    None,
    MaxRequests, MaxAnswers, MaxCancels, MaxSettings, MaxFatals   \* bounds

\* What _wait_for_interaction may be given, and an entry of _waiters.
Answers == {"cancelled", "valid", "invalid"}
Waiters == [turn : Turns \cup {None}, queue : Seq(Answers)]

ASSUME NoneAssumption == None \notin Turns \cup Tools \cup Steers \cup Waiters
ASSUME TurnsAssumption == "config" \notin Turns \cup {None} /\ IsFiniteSet(Tools)
ASSUME BoundsAssumption == {MaxRequests, MaxAnswers, MaxCancels, MaxSettings, MaxFatals} \subseteq Nat

Requests == 1..MaxRequests

VARIABLES
    transport,    \* the command the transport thread is in the middle of
    commands,     \* _messages: turn ids, "config" commands, then None
    queued, pendingCancels, pendingSteers,   \* TurnRunner, before a turn starts
    current,      \* TurnRunner.turn_id
    control,      \* TurnRunner.control: cancelled, finished and the mailbox
    serve,        \* the channel thread: its place and the status of the turn
    tool,         \* tool threads: place, request, whether it was cancelled
    holder,       \* _interaction_lock
    requests,     \* request ids given out
    waiters,      \* _waiters: outstanding requests with their turn and queue
    approval,     \* _approval or _question: the request
    phase,
    closed,       \* _input_closed and _shutdown_requested
    shown,        \* the last snapshot that was emitted
    ended,        \* terminal events, in order
    sent,         \* turns and steers submitted
    fatals, cancels, settings

runnerVars == <<queued, pendingCancels, pendingSteers, current, control>>
stateVars == <<approval, phase>>
inputVars == <<sent, fatals, cancels, settings>>
vars == <<transport, commands, runnerVars, serve, tool, holder, requests, waiters, stateVars,
          closed, shown, ended, inputVars>>

Ready == [op |-> "ready", turn |-> None, reqs |-> {}]
NoControl == [cancelled |-> FALSE, finished |-> FALSE, mailbox |-> {}]

Init ==
    /\ transport = Ready /\ commands = <<>>
    /\ queued = {} /\ pendingCancels = {} /\ pendingSteers = [t \in Turns |-> {}]
    /\ current = None /\ control = NoControl
    /\ serve = [pc |-> "reading", turn |-> None, status |-> "none"]
    /\ tool = [k \in Tools |-> [pc |-> "off", req |-> 0, cancelled |-> FALSE]]
    /\ holder = None /\ requests = 0 /\ waiters = [q \in Requests |-> None]
    /\ approval = 0 /\ phase = "inactive" /\ closed = FALSE
    /\ shown = [phase |-> "inactive", approval |-> 0, turn |-> None]
    /\ ended = <<>>
    /\ sent = {} /\ fatals = 0 /\ cancels = 0 /\ settings = 0

\* _runtime_snapshot, emitted under the event lock.
Snapshot == shown' = [phase |-> phase', approval |-> approval', turn |-> current']

Outstanding == {q \in Requests : waiters[q] # None}
OutstandingOf(t) == {q \in Outstanding : waiters[q].turn = t}

Put(qs, answer) ==
    waiters' = [q \in Requests |-> IF q \in qs /\ waiters[q] # None
                                     THEN [waiters[q] EXCEPT !.queue = Append(@, answer)]
                                     ELSE waiters[q]]

\* TurnControl.steer and TurnRunner.steer, which keeps it for a queued turn.
Accepts(t) == IF t = current THEN ~control.cancelled /\ ~control.finished ELSE t \in queued /\ ~closed

\* TurnControl.cancel, which has an effect once and not after finish.
CancelWorks == current # None /\ ~control.cancelled /\ ~control.finished
CancelledControl == [control EXCEPT !.cancelled = TRUE, !.mailbox = {}]

-----------------------------------------------------------------------------
(* The transport thread: Bridge.submit and Bridge.stop.                    *)

\* user_turn: enqueue ...
SubmitTurn(t) ==
    /\ transport = Ready
    /\ t \notin sent
    /\ sent' = sent \cup {t}
    /\ queued' = queued \cup {t}
    /\ transport' = [Ready EXCEPT !.op = "turn", !.turn = t]
    /\ UNCHANGED <<commands, pendingCancels, pendingSteers, current, control, serve, tool, holder,
                   requests, waiters, stateVars, closed, shown, ended, fatals, cancels,
                   settings>>

\* ... the receipt ...
AcknowledgeTurn ==
    /\ transport.op = "turn"
    /\ transport' = [transport EXCEPT !.op = "put"]
    /\ UNCHANGED <<commands, runnerVars, serve, tool, holder, requests, waiters, stateVars, closed,
                   shown, ended, inputVars>>

\* ... and the queue.
PutTurn ==
    /\ transport.op = "put"
    /\ commands' = Append(commands, transport.turn)
    /\ transport' = Ready
    /\ UNCHANGED <<runnerVars, serve, tool, holder, requests, waiters, stateVars, closed, shown,
                   ended, inputVars>>

\* user_steer: TurnRunner.steer ...
SubmitSteer(s, t) ==
    /\ transport = Ready
    /\ s \notin sent
    /\ sent' = sent \cup {s}
    /\ transport' = [Ready EXCEPT !.op = "steer"]
    /\ control' = IF Accepts(t) /\ t = current THEN [control EXCEPT !.mailbox = @ \cup {s}]
                                               ELSE control
    /\ pendingSteers' = IF Accepts(t) /\ t # current
                          THEN [pendingSteers EXCEPT ![t] = @ \cup {s}] ELSE pendingSteers
    /\ UNCHANGED <<commands, queued, pendingCancels, current, serve, tool, holder, requests,
                   waiters, stateVars, closed, shown, ended, fatals, cancels, settings>>

\* ... then the receipt.
AcknowledgeSteer ==
    /\ transport.op = "steer"
    /\ transport' = Ready
    /\ UNCHANGED <<commands, runnerVars, serve, tool, holder, requests, waiters, stateVars, closed,
                   shown, ended, inputVars>>

\* cancel: TurnRunner.cancel ...
SubmitCancel(t) ==
    /\ transport = Ready
    /\ cancels < MaxCancels
    /\ cancels' = cancels + 1
    /\ IF t = current /\ CancelWorks
         THEN /\ control' = CancelledControl
              /\ transport' = [Ready EXCEPT !.op = "unblock", !.turn = t]
         ELSE UNCHANGED <<control, transport>>
    /\ pendingCancels' = pendingCancels \cup (IF t # current THEN {t} \cap queued ELSE {})
    /\ UNCHANGED <<commands, queued, pendingSteers, current, serve, tool, holder, requests,
                   waiters, stateVars, closed, shown, ended, sent, fatals, settings>>

UnblockAll(qs) ==
    /\ transport.op = "unblock"
    /\ Put(qs, "cancelled")
    /\ transport' = Ready
    /\ UNCHANGED <<commands, runnerVars, serve, tool, holder, requests, stateVars, closed, shown,
                   ended, inputVars>>

\* Mutant: every waiter is told, whatever its turn.
UnblockEvery == UnblockAll(Outstanding)

\* ... then Cancelled for the waiters of this turn.
Unblock == transport.op = "unblock" /\ UnblockAll(OutstandingOf(transport.turn))

\* approval_response or user_question_response; an unknown id has no effect.
SubmitAnswer(q, answer) ==
    /\ transport = Ready
    /\ q <= requests
    /\ q \in Outstanding => Len(waiters[q].queue) < MaxAnswers
    /\ Put({q}, answer)
    /\ UNCHANGED <<transport, commands, runnerVars, serve, tool, holder, requests, stateVars,
                   closed, shown, ended, inputVars>>

\* permission_set: the preset changes and the snapshot is emitted with it.
SubmitPermission ==
    /\ transport = Ready
    /\ settings < MaxSettings
    /\ settings' = settings + 1
    /\ UNCHANGED <<stateVars, current>>
    /\ Snapshot
    /\ UNCHANGED <<transport, commands, queued, pendingCancels, pendingSteers, control, serve,
                   tool, holder, requests, waiters, closed, ended, sent, fatals, cancels>>

\* A command that is served between turns.
SubmitConfig ==
    /\ transport = Ready
    /\ settings < MaxSettings
    /\ settings' = settings + 1
    /\ commands' = Append(commands, "config")
    /\ UNCHANGED <<transport, runnerVars, serve, tool, holder, requests, waiters, stateVars,
                   closed, shown, ended, sent, fatals, cancels>>

\* submit raised: fatal, and then stop.
SubmitFails ==
    /\ transport = Ready
    /\ fatals < MaxFatals
    /\ fatals' = fatals + 1
    /\ phase' = "failed" /\ approval' = 0
    /\ UNCHANGED current
    /\ Snapshot
    /\ transport' = [Ready EXCEPT !.op = "stop"]
    /\ UNCHANGED <<commands, queued, pendingCancels, pendingSteers, control, serve, tool, holder,
                   requests, waiters, closed, ended, sent, cancels, settings>>

\* stop: under the router lock input is closed and the turn cancelled ...
Stop ==
    /\ transport.op = "stop" \/ (transport = Ready /\ ~closed)
    /\ closed' = TRUE
    /\ control' = IF CancelWorks THEN CancelledControl ELSE control
    /\ transport' = [Ready EXCEPT !.op = "stopping", !.reqs = Outstanding]
    /\ UNCHANGED <<commands, queued, pendingCancels, pendingSteers, current, serve, tool, holder,
                   requests, waiters, stateVars, shown, ended, inputVars>>

\* ... then the waiters are told, and the channel thread.
StopEnds ==
    /\ transport.op = "stopping"
    /\ Put(transport.reqs, "cancelled")
    /\ commands' = Append(commands, None)
    /\ transport' = Ready
    /\ UNCHANGED <<runnerVars, serve, tool, holder, requests, stateVars, closed, shown, ended,
                   inputVars>>

-----------------------------------------------------------------------------
(* The channel thread: Bridge.serve and TurnRunner.run_turn.               *)

\* serve returns at None.
ServeReturns ==
    /\ serve.pc = "reading" /\ commands # <<>> /\ Head(commands) = None
    /\ commands' = Tail(commands)
    /\ serve' = [serve EXCEPT !.pc = "returned"]
    /\ UNCHANGED <<transport, runnerVars, tool, holder, requests, waiters, stateVars, closed,
                   shown, ended, inputVars>>

\* provider_set, workspace_set or runtime_refresh, with the state they leave.
ServeConfig ==
    /\ serve.pc = "reading" /\ commands # <<>> /\ Head(commands) = "config"
    /\ commands' = Tail(commands)
    /\ phase' \in {"inactive", "idle", "failed"}
    /\ UNCHANGED <<approval, current>>
    /\ Snapshot
    /\ UNCHANGED <<transport, queued, pendingCancels, pendingSteers, control, serve, tool, holder,
                   requests, waiters, closed, ended, inputVars>>

\* A turn: its control takes over what was queued for it.
StartTurn ==
    /\ serve.pc = "reading" /\ commands # <<>> /\ Head(commands) \in Turns
    /\ LET t == Head(commands) IN
         /\ commands' = Tail(commands)
         /\ current' = t
         /\ queued' = queued \ {t}
         /\ control' = [cancelled |-> t \in pendingCancels \/ closed, finished |-> FALSE,
                        mailbox |-> IF t \in pendingCancels \/ closed THEN {} ELSE pendingSteers[t]]
         /\ pendingSteers' = [pendingSteers EXCEPT ![t] = {}]
         /\ pendingCancels' = pendingCancels \ {t}
         /\ serve' = [pc |-> "starting", turn |-> t, status |-> "none"]
    /\ UNCHANGED <<transport, tool, holder, requests, waiters, stateVars, closed, shown, ended,
                   inputVars>>

\* The execution plane is there: on_phase("running").
PlaneReady ==
    /\ serve.pc = "starting"
    /\ phase' = "running"
    /\ UNCHANGED <<approval, current>>
    /\ Snapshot
    /\ serve' = [serve EXCEPT !.pc = "running"]
    /\ UNCHANGED <<transport, commands, queued, pendingCancels, pendingSteers, control, tool,
                   holder, requests, waiters, closed, ended, inputVars>>

\* A safe point of the agent: steering is applied, with its events.
ApplySteering ==
    /\ serve.pc = "running"
    /\ \A k \in Tools : tool[k].pc = "off"
    /\ control.mailbox # {}
    /\ control' = [control EXCEPT !.mailbox = {}]
    /\ UNCHANGED <<transport, commands, queued, pendingCancels, pendingSteers, current, serve,
                   tool, holder, requests, waiters, stateVars, closed, shown, ended,
                   inputVars>>

\* The turn returns, all its tools having been joined: completed after finish has
\* found no steering, cancelled, or failed (perhaps before it had started).
AgentReturns(status) ==
    /\ serve.pc \in {"starting", "running"}
    /\ \A k \in Tools : tool[k].pc = "off"
    /\ status = "cancelled" => control.cancelled
    /\ status = "completed" => /\ serve.pc = "running"
                               /\ ~control.cancelled /\ control.mailbox = {}
    /\ control' = IF status = "completed" THEN [control EXCEPT !.finished = TRUE] ELSE control
    /\ serve' = [serve EXCEPT !.pc = "leaving",
                              !.status = IF status = "failed" /\ serve.pc = "starting"
                                           THEN "startup" ELSE status]
    /\ UNCHANGED <<transport, commands, queued, pendingCancels, pendingSteers, current, tool,
                   holder, requests, waiters, stateVars, closed, shown, ended, inputVars>>

\* Mutant: the turn stays the current one.
LeaveTurnKept ==
    /\ serve.pc = "leaving"
    /\ serve' = [serve EXCEPT !.pc = "idle"]
    /\ UNCHANGED <<transport, commands, runnerVars, tool, holder, requests, waiters, stateVars,
                   closed, shown, ended, inputVars>>

\* run_turn's finally: the turn is not the current one any more.
LeaveTurn ==
    /\ serve.pc = "leaving"
    /\ current' = None
    /\ control' = NoControl
    /\ serve' = [serve EXCEPT !.pc = "idle"]
    /\ UNCHANGED <<transport, commands, queued, pendingCancels, pendingSteers, tool, holder,
                   requests, waiters, stateVars, closed, shown, ended, inputVars>>

\* Bridge.run_turn: the idle (or failed) state ...
EmitIdle ==
    /\ serve.pc = "idle"
    /\ phase' = IF serve.status = "startup" THEN "failed" ELSE "idle"
    /\ approval' = 0
    /\ UNCHANGED current
    /\ Snapshot
    /\ serve' = [serve EXCEPT !.pc = "terminal"]
    /\ UNCHANGED <<transport, commands, queued, pendingCancels, pendingSteers, control, tool,
                   holder, requests, waiters, closed, ended, inputVars>>

\* ... and the terminal event, left out when a completed turn meets shutdown.
EmitTerminal ==
    /\ serve.pc = "terminal"
    /\ ended' = IF serve.status = "completed" /\ closed THEN ended ELSE Append(ended, serve.turn)
    /\ serve' = [pc |-> "reading", turn |-> None, status |-> "none"]
    /\ UNCHANGED <<transport, commands, runnerVars, tool, holder, requests, waiters, stateVars,
                   closed, shown, inputVars>>

-----------------------------------------------------------------------------
(* A tool thread: request_permission or request_user_choice.               *)

ToolStep(k, from, to) ==
    /\ tool[k].pc = from
    /\ tool' = [tool EXCEPT ![k].pc = to]

\* The agent starts the tool, which will ask; no tool is started after a cancel
\* or the end of the asking.
ToolStarts(k) ==
    /\ serve.pc = "running" /\ ~control.cancelled
    /\ requests + Cardinality({j \in Tools : tool[j].pc = "wants"}) < MaxRequests
    /\ ToolStep(k, "off", "wants")
    /\ UNCHANGED <<transport, commands, runnerVars, serve, holder, requests, waiters, stateVars,
                   closed, shown, ended, inputVars>>

\* The interaction lock, a request id, and _register_interaction.
RegisterWith(k, free, cancelled) ==
    /\ tool[k].pc = "wants"
    /\ free
    /\ holder' = k
    /\ requests' = requests + 1
    /\ tool' = [tool EXCEPT ![k] = [pc |-> "registered", req |-> requests + 1, cancelled |-> FALSE]]
    /\ waiters' = [waiters EXCEPT ![requests + 1] =
                     [turn |-> current,
                      queue |-> IF cancelled THEN <<"cancelled">> ELSE <<>>]]
    /\ UNCHANGED <<transport, commands, runnerVars, serve, stateVars, closed, shown, ended,
                   inputVars>>

\* Mutant: interactions are not serialized.
RegisterAtOnce(k) == RegisterWith(k, TRUE, closed \/ control.cancelled)

\* Mutant: the turn is not looked at.
RegisterBlindly(k) == RegisterWith(k, holder = None, FALSE)

Register(k) == RegisterWith(k, holder = None, closed \/ control.cancelled)

SetApproval(k) ==
    /\ ToolStep(k, "registered", "announcing")
    /\ approval' = tool[k].req
    /\ UNCHANGED <<transport, commands, runnerVars, serve, holder, requests, waiters, phase,
                   closed, shown, ended, inputVars>>

\* The waiting state and the request.
Announce(k) ==
    /\ ToolStep(k, "announcing", "waiting")
    /\ phase' = "waiting"
    /\ UNCHANGED <<approval, current>>
    /\ Snapshot
    /\ UNCHANGED <<transport, commands, queued, pendingCancels, pendingSteers, control, serve,
                   holder, requests, waiters, closed, ended, inputVars>>

\* _wait_for_interaction; an answer that is not valid leaves the question open.
TakeAnswer(k) ==
    LET q == tool[k].req IN
    /\ tool[k].pc = "waiting"
    /\ waiters[q].queue # <<>>
    /\ LET answer == Head(waiters[q].queue) IN
         tool' = [tool EXCEPT ![k].pc = IF answer = "invalid" THEN @ ELSE "leaving",
                              ![k].cancelled = answer = "cancelled"]
    /\ waiters' = [waiters EXCEPT ![q].queue = Tail(@)]
    /\ UNCHANGED <<transport, commands, runnerVars, serve, holder, requests, stateVars, closed,
                   shown, ended, inputVars>>

\* The finally: _unregister_interaction, then the request is taken back ...
Unregister(k) ==
    /\ ToolStep(k, "leaving", "unregistered")
    /\ waiters' = [waiters EXCEPT ![tool[k].req] = None]
    /\ approval' = 0
    /\ UNCHANGED <<transport, commands, runnerVars, serve, holder, requests, phase, closed, shown,
                   ended, inputVars>>

\* ... and the running state emitted before the lock is released.
Release(k) ==
    /\ tool[k].pc = "unregistered"
    /\ tool' = [tool EXCEPT ![k] = [pc |-> "off", req |-> 0, cancelled |-> FALSE]]
    /\ phase' = "running"
    /\ UNCHANGED <<approval, current>>
    /\ Snapshot
    /\ holder' = None
    /\ UNCHANGED <<transport, commands, queued, pendingCancels, pendingSteers, control, serve,
                   requests, waiters, closed, ended, inputVars>>

-----------------------------------------------------------------------------
TransportStep == AcknowledgeTurn \/ PutTurn \/ AcknowledgeSteer \/ Unblock \/ StopEnds
                 \/ (transport.op = "stop" /\ Stop)
ServeStep ==
    \/ ServeReturns \/ ServeConfig \/ StartTurn \/ PlaneReady \/ ApplySteering
    \/ \E status \in {"completed", "cancelled", "failed"} : AgentReturns(status)
    \/ LeaveTurn \/ EmitIdle \/ EmitTerminal
InteractionStep(k) ==
    Register(k) \/ SetApproval(k) \/ Announce(k) \/ TakeAnswer(k) \/ Unregister(k) \/ Release(k)

Submit ==
    \/ \E t \in Turns : SubmitTurn(t) \/ SubmitCancel(t)
    \/ \E s \in Steers, t \in Turns : SubmitSteer(s, t)
    \/ \E q \in Requests, answer \in {"valid", "invalid"} : SubmitAnswer(q, answer)
    \/ SubmitPermission \/ SubmitConfig \/ SubmitFails \/ Stop

Next ==
    \/ Submit \/ TransportStep \/ ServeStep
    \/ \E k \in Tools : ToolStarts(k) \/ InteractionStep(k)

Spec == Init /\ [][Next]_vars

\* The threads run; the client is not forced to send or to answer anything, and
\* the agent not to start tools.
FairSpec ==
    /\ Spec
    /\ WF_vars(TransportStep) /\ WF_vars(ServeStep)
    /\ \A k \in Tools : WF_vars(InteractionStep(k))

-----------------------------------------------------------------------------
(* Properties.                                                             *)

\* What the last snapshot shows is what a tool is waiting for: a request while it
\* is open, and none when no interaction is under way, although the transport
\* emits snapshots in between (until a fatal event).
ShownIsOpen ==
    fatals = 0 =>
        /\ \A k \in Tools : tool[k].pc = "waiting" =>
             shown.phase = "waiting" /\ shown.approval = tool[k].req
        /\ holder = None => shown.phase # "waiting" /\ shown.approval = 0

\* Cancelled is only given to requests of a turn that has been cancelled: a cancel
\* that is late does not reach the requests of the turn after.
CancelHitsItsTurn ==
    \A q \in Outstanding :
        (\E i \in DOMAIN waiters[q].queue : waiters[q].queue[i] = "cancelled")
            => waiters[q].turn = current /\ control.cancelled

\* A turn has at most one terminal event, after it has been the current turn, and
\* nothing of it is running then.
TerminalIsLast ==
    \A i \in DOMAIN ended :
        /\ \A j \in DOMAIN ended : ended[i] = ended[j] => i = j
        /\ ended[i] # current /\ ended[i] \notin queued
        /\ \A q \in Outstanding : waiters[q].turn # ended[i]

\* A cancelled turn ends although its tools wait for answers nobody gives, and
\* stop ends the channel thread, whatever is queued or waiting.
CancelEnds ==
    /\ control.cancelled ~> current = None
    /\ closed ~> serve.pc = "returned"

\* The Bridge is sound: it shows what is being asked, a cancel hits its own turn,
\* and a terminal event is the last of its turn (bridge.py, the three above).
BridgeSound == ShownIsOpen /\ CancelHitsItsTurn /\ TerminalIsLast
=============================================================================
