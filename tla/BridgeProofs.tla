---------------------------- MODULE BridgeProofs ----------------------------
(***************************************************************************)
(* Proof that the Bridge is sound (BridgeSound), for every set of turns,   *)
(* tool threads and steers and for every bound.                            *)
(***************************************************************************)
EXTENDS BridgeTurn, FiniteSetTheorems, TLAPS

\* The tool that has the interaction lock, and while its request is registered.
BrAsking == {"registered", "announcing", "waiting", "leaving", "unregistered"}
BrOpen == BrAsking \ {"unregistered"}

BrControls == [cancelled : BOOLEAN, finished : BOOLEAN, mailbox : SUBSET Steers]
BrTransports == [op : {"ready", "turn", "put", "steer", "unblock", "stop", "stopping"},
                 turn : Turns \cup {None}, reqs : SUBSET Requests]
BrServes == [pc : {"reading", "starting", "running", "leaving", "idle", "terminal", "returned"},
             turn : Turns \cup {None},
             status : {"none", "completed", "cancelled", "failed", "startup"}]
BrToolStates == [pc : {"off", "wants"} \cup BrAsking, req : Nat, cancelled : BOOLEAN]

\* The types of the variables, by the thread they belong to.
BrTransportOK == transport \in BrTransports
BrRunnerOK ==
    /\ queued \subseteq Turns /\ pendingSteers \in [Turns -> SUBSET Steers]
    /\ current \in Turns \cup {None} /\ control \in BrControls /\ closed \in BOOLEAN
BrServeOK == serve \in BrServes /\ fatals \in Nat
BrSequencesOK == commands \in Seq(Turns \cup {None, "config"}) /\ ended \in Seq(Turns)
BrToolOK == tool \in [Tools -> BrToolStates] /\ holder \in Tools \cup {None} /\ requests \in Nat
BrWaitersOK == waiters \in [Requests -> Waiters \cup {None}]

BrTypeOK ==
    BrTransportOK /\ BrRunnerOK /\ BrServeOK /\ BrSequencesOK /\ BrToolOK /\ BrWaitersOK

\* One tool at a time holds the interaction lock, its request is the one that is
\* registered, for the current turn, and tools only run while the turn does.
BrLock ==
    /\ \A k \in Tools : tool[k].pc \in BrAsking <=> holder = k
    /\ \A k \in Tools : tool[k].pc # "off" => serve.pc = "running"
    /\ \A k \in Tools : tool[k].pc \in BrAsking => tool[k].req \in 1..requests
    /\ \A k \in Tools : tool[k].pc \in BrOpen => waiters[tool[k].req] # None
    /\ \A q \in Requests : waiters[q] # None =>
          /\ q <= requests /\ waiters[q].turn = current
          /\ holder \in Tools /\ tool[holder].pc \in BrOpen /\ tool[holder].req = q

\* There is a request id for every tool that is going to ask.
BrWanting == {k \in Tools : tool[k].pc = "wants"}
BrBound == requests + Cardinality(BrWanting) <= MaxRequests

\* The state and the snapshot follow the tool that asks (until a fatal event).
BrShown ==
    fatals = 0 =>
        /\ holder = None =>
              phase # "waiting" /\ approval = 0 /\ shown.phase # "waiting" /\ shown.approval = 0
        /\ \A k \in Tools :
              /\ tool[k].pc = "announcing" => approval = tool[k].req
              /\ tool[k].pc = "waiting" =>
                    /\ approval = tool[k].req /\ phase = "waiting"
                    /\ shown.approval = tool[k].req /\ shown.phase = "waiting"
              /\ tool[k].pc = "unregistered" => approval = 0

\* The turn that is served is the current one until it is left, and a closed Bridge
\* has cancelled it.
BrServed ==
    /\ serve.pc \in {"starting", "running", "leaving"} => current = serve.turn
    /\ serve.pc \in {"reading", "idle", "terminal", "returned"} => current = None
    /\ serve.pc \in {"starting", "running", "leaving", "idle", "terminal"} => serve.turn # None
    /\ serve.pc \in {"starting", "running"} =>
          control.finished = FALSE /\ (closed = TRUE => control.cancelled = TRUE)

\* Who was given Cancelled, or is about to be, is of a turn that has been cancelled.
BrGivenCancelled(q) ==
    \E i \in 1..Len(waiters[q].queue) : waiters[q].queue[i] = "cancelled"
BrCancelled ==
    /\ \A q \in Requests : waiters[q] # None /\ BrGivenCancelled(q) => control.cancelled = TRUE
    /\ transport.op = "unblock" =>
          transport.turn # None /\ (transport.turn = current => control.cancelled = TRUE)
    /\ transport.op = "stopping" =>
          \A q \in transport.reqs :
             q <= requests /\ (waiters[q] # None => control.cancelled = TRUE)

\* A turn is in the queue of commands once, and until it is started.
BrQueue ==
    /\ \A i \in 1..Len(commands) : commands[i] \in Turns => commands[i] \in queued
    /\ \A i, j \in 1..Len(commands) : commands[i] \in Turns /\ commands[i] = commands[j] => i = j
    /\ transport.op \in {"turn", "put"} =>
          /\ transport.turn \in queued
          /\ \A i \in 1..Len(commands) : commands[i] # transport.turn

\* The queued turns are not current, not being cancelled as the current one, and not
\* ended; the current one is not ended either, and a turn ends once.
BrEnded ==
    /\ \A t \in queued :
          /\ t \in sent /\ t # current /\ t # serve.turn
          /\ transport.op = "unblock" => transport.turn # t
          /\ \A i \in 1..Len(ended) : ended[i] # t
    /\ {current, serve.turn} \subseteq sent \cup {None}
    /\ transport.op = "unblock" => transport.turn \in sent
    /\ \A i \in 1..Len(ended) : ended[i] \in sent /\ ended[i] # current /\ ended[i] # serve.turn
    /\ \A i, j \in 1..Len(ended) : ended[i] = ended[j] => i = j

\* The inductive invariant.
BrInv ==
    BrTypeOK /\ BrLock /\ BrBound /\ BrShown /\ BrServed /\ BrCancelled /\ BrQueue /\ BrEnded

-----------------------------------------------------------------------------
(* Facts about the operators the steps are written with.                     *)

\* The bound on the requests.
LEMMA BrBoundFacts ==
    ASSUME BrInv
    PROVE  /\ IsFiniteSet(BrWanting) /\ Cardinality(BrWanting) \in Nat
           /\ requests \in Nat /\ requests <= MaxRequests
<1>1. IsFiniteSet(BrWanting)
  BY FS_Subset, TurnsAssumption, Zenon DEF BrWanting
<1>2. Cardinality(BrWanting) \in Nat
  BY <1>1, FS_CardinalityType, Zenon
<1>3. requests \in Nat /\ MaxRequests \in Nat /\ requests + Cardinality(BrWanting) <= MaxRequests
  BY BoundsAssumption, Zenon DEF BrInv, BrTypeOK, BrToolOK, BrBound
<1>. QED
  BY <1>1, <1>2, <1>3

\* A tool thread goes from one place to another.
LEMMA BrToolStep ==
    ASSUME BrToolOK, NEW k \in Tools, NEW from, NEW to \in {"off", "wants"} \cup BrAsking,
           ToolStep(k, from, to)
    PROVE  /\ tool' \in [Tools -> BrToolStates]
           /\ tool[k].pc = from /\ tool'[k].pc = to /\ tool'[k].req = tool[k].req
           /\ \A j \in Tools : j # k => tool'[j] = tool[j]
<1>. DEFINE new == [tool[k] EXCEPT !.pc = to]
<1>1. tool \in [Tools -> BrToolStates] /\ tool[k] \in BrToolStates
  BY Zenon DEF BrToolOK
<1>2. new \in BrToolStates /\ new.pc = to /\ new.req = tool[k].req
  BY <1>1, Zenon DEF BrToolStates
<1>3. tool' = [tool EXCEPT ![k] = new] /\ tool[k].pc = from
  BY Zenon DEF ToolStep
<1>. HIDE DEF new
<1>. QED
  BY <1>1, <1>2, <1>3, Zenon

\* An answer is given to requests: who is outstanding, and for which turn, stays.
LEMMA BrPut ==
    ASSUME BrWaitersOK, NEW qs \in SUBSET Requests, NEW answer \in Answers, Put(qs, answer)
    PROVE  /\ BrWaitersOK'
           /\ \A q \in Requests :
                 /\ waiters'[q] # None <=> waiters[q] # None
                 /\ waiters[q] # None => waiters'[q].turn = waiters[q].turn
                 /\ waiters[q] # None /\ BrGivenCancelled(q)' =>
                       BrGivenCancelled(q) \/ (q \in qs /\ answer = "cancelled")
<1>1. ASSUME NEW q \in Requests, waiters[q] # None, q \in qs
      PROVE  /\ waiters'[q] \in Waiters
             /\ waiters'[q].turn = waiters[q].turn
             /\ waiters'[q].queue = Append(waiters[q].queue, answer)
             /\ waiters[q].queue \in Seq(Answers)
  <2>1. waiters[q] \in Waiters
    BY <1>1, Zenon DEF BrWaitersOK
  <2>2. waiters'[q] = [waiters[q] EXCEPT !.queue = Append(waiters[q].queue, answer)]
    BY <1>1, Zenon DEF Put
  <2>3. waiters[q].queue \in Seq(Answers) /\ Append(waiters[q].queue, answer) \in Seq(Answers)
    BY <2>1 DEF Waiters
  <2>. QED
    BY <2>1, <2>2, <2>3, Zenon DEF Waiters
<1>2. ASSUME NEW q \in Requests, ~(waiters[q] # None /\ q \in qs)
      PROVE  waiters'[q] = waiters[q]
  BY <1>2, Zenon DEF Put
<1>3. BrWaitersOK'
  <2>1. waiters' = [q \in Requests |-> waiters'[q]]
    BY Zenon DEF Put
  <2>2. ASSUME NEW q \in Requests PROVE waiters'[q] \in Waiters \cup {None}
    BY <1>1, <1>2, Zenon DEF BrWaitersOK
  <2>. QED
    BY <2>1, <2>2, Zenon DEF BrWaitersOK
<1>4. ASSUME NEW q \in Requests
      PROVE  /\ waiters'[q] # None <=> waiters[q] # None
             /\ waiters[q] # None => waiters'[q].turn = waiters[q].turn
  BY <1>1, <1>2, NoneAssumption, Zenon
<1>5. ASSUME NEW q \in Requests, waiters[q] # None, BrGivenCancelled(q)'
      PROVE  BrGivenCancelled(q) \/ (q \in qs /\ answer = "cancelled")
  <2>1. CASE q \in qs
    <3>1. PICK i \in 1..Len(waiters'[q].queue) : waiters'[q].queue[i] = "cancelled"
      BY <1>5, Zenon DEF BrGivenCancelled
    <3>2. waiters'[q].queue = Append(waiters[q].queue, answer) /\ waiters[q].queue \in Seq(Answers)
      BY <1>1, <1>5, <2>1, Zenon
    <3>3. i = Len(waiters[q].queue) + 1 \/ (i \in 1..Len(waiters[q].queue)
                                            /\ waiters[q].queue[i] = "cancelled")
      BY <3>1, <3>2
    <3>4. i = Len(waiters[q].queue) + 1 => answer = "cancelled"
      BY <3>1, <3>2
    <3>. QED
      BY <2>1, <3>3, <3>4, Zenon DEF BrGivenCancelled
  <2>2. CASE q \notin qs
    BY <1>2, <1>5, <2>2, Zenon DEF BrGivenCancelled
  <2>. QED
    BY <2>1, <2>2, Zenon
<1>. QED
  BY <1>3, <1>4, <1>5, Zenon

\* While the turn is not running nothing is asked.
LEMMA BrQuiet ==
    ASSUME BrInv, serve.pc # "running"
    PROVE  holder \notin Tools /\ \A q \in Requests : waiters[q] = None
  BY Zenon DEF BrInv, BrLock, BrAsking

\* Who is given an answer: Cancelled only goes to a turn that has been cancelled.
LEMMA BrAnswered ==
    ASSUME BrInv,
           \/ \E q \in Requests, answer \in {"valid", "invalid"} : SubmitAnswer(q, answer)
           \/ Unblock \/ StopEnds
    PROVE  /\ BrWaitersOK'
           /\ \A q \in Requests :
                 /\ waiters'[q] # None <=> waiters[q] # None
                 /\ waiters[q] # None => waiters'[q].turn = waiters[q].turn
                 /\ waiters[q] # None /\ BrGivenCancelled(q)' => control.cancelled = TRUE
<1>. USE DEF BrInv, BrTypeOK
<1>1. ASSUME NEW q \in Requests, NEW answer \in {"valid", "invalid"}, SubmitAnswer(q, answer)
      PROVE  Put({q}, answer) /\ {q} \in SUBSET Requests /\ answer \in Answers
             /\ answer # "cancelled"
  BY <1>1, Zenon DEF SubmitAnswer, Answers
<1>2. ASSUME Unblock
      PROVE  /\ Put(OutstandingOf(transport.turn), "cancelled")
             /\ OutstandingOf(transport.turn) \in SUBSET Requests
             /\ \A q \in OutstandingOf(transport.turn) : control.cancelled = TRUE
  <2>1. transport.op = "unblock" /\ Put(OutstandingOf(transport.turn), "cancelled")
    BY <1>2, Zenon DEF Unblock, UnblockAll
  <2>2. ASSUME NEW q \in OutstandingOf(transport.turn)
        PROVE  q \in Requests /\ control.cancelled = TRUE
    BY <2>1, Zenon DEF OutstandingOf, Outstanding, BrLock, BrCancelled
  <2>. QED
    BY <2>1, <2>2, Zenon
<1>3. ASSUME StopEnds
      PROVE  /\ Put(transport.reqs, "cancelled") /\ transport.reqs \in SUBSET Requests
             /\ \A q \in transport.reqs : waiters[q] # None => control.cancelled = TRUE
  BY <1>3, Zenon DEF StopEnds, BrTransportOK, BrTransports, BrCancelled
<1>4. "cancelled" \in Answers
  BY Zenon DEF Answers
<1>5. \A q \in Requests : waiters[q] # None /\ BrGivenCancelled(q) => control.cancelled = TRUE
  BY Zenon DEF BrCancelled
<1>6. CASE \E q \in Requests, answer \in {"valid", "invalid"} : SubmitAnswer(q, answer)
  <2>1. PICK q \in Requests, answer \in {"valid", "invalid"} : SubmitAnswer(q, answer)
    BY <1>6, Zenon
  <2>. QED
    BY <1>1, <1>5, <2>1, BrPut, Zenon
<1>7. CASE Unblock
  BY <1>2, <1>4, <1>5, <1>7, BrPut, Zenon
<1>8. CASE StopEnds
  BY <1>3, <1>4, <1>5, <1>8, BrPut, Zenon
<1>. QED
  BY <1>6, <1>7, <1>8, Zenon

\* While a turn is running it stays the current one, and a cancelled turn that is
\* current stays cancelled.
LEMMA BrStays ==
    ASSUME BrInv, Submit \/ TransportStep \/ ServeStep
    PROVE  /\ serve.pc = "running" => current' = current /\ current # None
           /\ control.cancelled = TRUE /\ current' = current /\ current # None
                 => control'.cancelled = TRUE
<1>. USE DEF runnerVars, BrInv, BrTypeOK, BrServed
<1>1. serve.pc = "running" => current # None
  BY Zenon
<1>2. serve.pc = "running" => current' = current
  BY Zenon
     DEF Submit, SubmitTurn, SubmitCancel, SubmitSteer, SubmitAnswer, SubmitPermission,
         SubmitConfig, SubmitFails, Stop, TransportStep, AcknowledgeTurn, PutTurn,
         AcknowledgeSteer, Unblock, UnblockAll, StopEnds, ServeStep, ServeReturns, ServeConfig,
         StartTurn, PlaneReady, ApplySteering, AgentReturns, LeaveTurn, EmitIdle, EmitTerminal
<1>3. ASSUME control.cancelled = TRUE, current' = current, current # None
      PROVE  control'.cancelled = TRUE
  <2>. USE <1>3 DEF BrRunnerOK, BrControls
  <2>1. CASE Submit
    BY <2>1, Zenon
       DEF Submit, SubmitTurn, SubmitCancel, SubmitSteer, SubmitAnswer, SubmitPermission,
           SubmitConfig, SubmitFails, Stop, CancelWorks, CancelledControl
  <2>2. CASE AcknowledgeTurn \/ PutTurn \/ AcknowledgeSteer \/ Unblock \/ StopEnds
    BY <2>2, Zenon DEF AcknowledgeTurn, PutTurn, AcknowledgeSteer, Unblock, UnblockAll, StopEnds
  <2>3. CASE ServeStep
    BY <2>3, Zenon
       DEF ServeStep, ServeReturns, ServeConfig, StartTurn, PlaneReady, ApplySteering,
           AgentReturns, LeaveTurn, EmitIdle, EmitTerminal
  <2>. QED
    BY <2>1, <2>2, <2>3, Zenon DEF TransportStep, Submit
<1>. QED
  BY <1>1, <1>2, <1>3, Zenon

\* The other steps of the transport and of the channel thread leave the requests alone.
LEMMA BrWaitersChange ==
    ASSUME Submit \/ TransportStep \/ ServeStep
    PROVE  \/ \E q \in Requests, answer \in {"valid", "invalid"} : SubmitAnswer(q, answer)
           \/ Unblock \/ StopEnds
           \/ UNCHANGED waiters
  BY Zenon
     DEF Submit, TransportStep, ServeStep, SubmitTurn, SubmitCancel, SubmitSteer,
         SubmitPermission, SubmitConfig, SubmitFails, Stop, AcknowledgeTurn, PutTurn,
         AcknowledgeSteer, ServeReturns, ServeConfig, StartTurn, PlaneReady, ApplySteering,
         AgentReturns, LeaveTurn, EmitIdle, EmitTerminal

\* The transport and the channel thread leave the tool threads alone.
LEMMA BrToolsStay ==
    ASSUME Submit \/ TransportStep \/ ServeStep
    PROVE  UNCHANGED <<tool, holder, requests>>
  BY Zenon
     DEF Submit, TransportStep, ServeStep, SubmitTurn, SubmitCancel, SubmitSteer, SubmitAnswer,
         SubmitPermission, SubmitConfig, SubmitFails, Stop, AcknowledgeTurn, PutTurn,
         AcknowledgeSteer, Unblock, UnblockAll, StopEnds, ServeReturns, ServeConfig, StartTurn,
         PlaneReady, ApplySteering, AgentReturns, LeaveTurn, EmitIdle, EmitTerminal

\* The request of a tool that is open is one of the requests, and is registered.
LEMMA BrRegistered ==
    ASSUME BrInv
    PROVE  \A k \in Tools : tool[k].pc \in BrOpen =>
              tool[k].req \in Requests /\ waiters[tool[k].req] # None
<1>1. requests \in Nat /\ requests <= MaxRequests
  BY BrBoundFacts, Zenon
<1>. QED
  BY <1>1, BoundsAssumption DEF BrInv, BrLock, BrOpen, Requests

\* Only a cancel of the current turn makes the transport tell its waiters, and only
\* stop those of the turn it meets.
LEMMA BrTransportChange ==
    ASSUME BrInv, Submit \/ TransportStep \/ ServeStep
    PROVE  \/ UNCHANGED transport
           \/ transport'.op \notin {"unblock", "stopping"}
           \/ transport'.op = "unblock" /\ transport'.turn \in Turns /\ control'.cancelled = TRUE
           \/ transport'.op = "stopping" /\ Stop
<1>. USE DEF Ready
<1>1. ASSUME NEW t \in Turns, SubmitCancel(t), transport' # transport
      PROVE  transport'.op = "unblock" /\ transport'.turn \in Turns /\ control'.cancelled = TRUE
  <2>1. transport' = [Ready EXCEPT !.op = "unblock", !.turn = t] /\ control' = CancelledControl
    BY <1>1, Zenon DEF SubmitCancel
  <2>. QED
    BY <2>1, Zenon DEF CancelledControl, BrInv, BrTypeOK, BrRunnerOK, BrControls
<1>2. CASE Submit
  BY <1>1, <1>2, Zenon
     DEF Submit, SubmitTurn, SubmitSteer, SubmitAnswer, SubmitPermission, SubmitConfig,
         SubmitFails, Stop
<1>3. CASE Stop
  BY <1>3, Zenon DEF Stop
<1>4. CASE AcknowledgeTurn \/ PutTurn \/ AcknowledgeSteer \/ Unblock \/ StopEnds
  BY <1>4 DEF AcknowledgeTurn, PutTurn, AcknowledgeSteer, Unblock, UnblockAll, StopEnds, BrInv,
              BrTypeOK, BrTransportOK, BrTransports
<1>5. CASE ServeStep
  BY <1>5, Zenon DEF ServeStep, ServeReturns, ServeConfig, StartTurn, PlaneReady, ApplySteering,
              AgentReturns, LeaveTurn, EmitIdle, EmitTerminal
<1>. QED
  BY <1>2, <1>3, <1>4, <1>5, Zenon DEF TransportStep

-----------------------------------------------------------------------------
(* The steps of the transport and of the channel thread keep each part.      *)

\* The command the transport is in the middle of (Bridge.submit, stop).
LEMMA BrTransportOKKept ==
    ASSUME BrInv, Submit \/ TransportStep \/ ServeStep
    PROVE  BrTransportOK'
<1>. USE DEF runnerVars, stateVars, inputVars, Ready, Snapshot
<1>1. CASE Submit
  <2>1. ASSUME NEW t \in Turns, SubmitTurn(t) PROVE BrTransportOK'
    BY <2>1, NoneAssumption, TurnsAssumption, Zenon
       DEF BrInv, BrTypeOK, BrTransportOK, BrTransports, SubmitTurn
  <2>2. ASSUME NEW t \in Turns, SubmitCancel(t) PROVE BrTransportOK'
    BY <2>2, NoneAssumption, TurnsAssumption, Zenon
       DEF BrInv, BrTypeOK, BrTransportOK, BrTransports, SubmitCancel, CancelWorks,
           CancelledControl
  <2>3. ASSUME NEW s \in Steers, NEW t \in Turns, SubmitSteer(s, t) PROVE BrTransportOK'
    BY <2>3, NoneAssumption, TurnsAssumption, Zenon
       DEF BrInv, BrTypeOK, BrTransportOK, BrTransports, SubmitSteer, Accepts
  <2>4. CASE SubmitFails
    BY <2>4, NoneAssumption, TurnsAssumption, Zenon
       DEF BrInv, BrTypeOK, BrTransportOK, BrTransports, SubmitFails
  <2>5. CASE Stop
    BY <2>5, NoneAssumption, TurnsAssumption, Zenon
       DEF BrInv, BrTypeOK, BrTransportOK, BrTransports, Stop, CancelWorks, CancelledControl,
           Outstanding
  <2>6. CASE (\E q \in Requests, answer \in {"valid", "invalid"} : SubmitAnswer(q, answer))
             \/ SubmitPermission \/ SubmitConfig
    <3>1. UNCHANGED transport
      BY <2>6, Zenon DEF SubmitAnswer, SubmitPermission, SubmitConfig
    <3>. QED
      BY <3>1, Zenon DEF BrInv, BrTypeOK, BrTransportOK
  <2>. QED
    BY <1>1, <2>1, <2>2, <2>3, <2>4, <2>5, <2>6, Zenon DEF Submit
<1>2. CASE AcknowledgeTurn \/ PutTurn \/ AcknowledgeSteer \/ Unblock \/ StopEnds
  <2>1. CASE AcknowledgeTurn
    BY <2>1, NoneAssumption, TurnsAssumption, Zenon
       DEF BrInv, BrTypeOK, BrTransportOK, BrTransports, AcknowledgeTurn
  <2>2. CASE PutTurn
    BY <2>2, NoneAssumption, TurnsAssumption, Zenon
       DEF BrInv, BrTypeOK, BrTransportOK, BrTransports, PutTurn
  <2>3. CASE AcknowledgeSteer
    BY <2>3, NoneAssumption, TurnsAssumption, Zenon
       DEF BrInv, BrTypeOK, BrTransportOK, BrTransports, AcknowledgeSteer
  <2>4. CASE Unblock
    BY <2>4, NoneAssumption, TurnsAssumption, Zenon
       DEF BrInv, BrTypeOK, BrTransportOK, BrTransports, Unblock, UnblockAll
  <2>5. CASE StopEnds
    BY <2>5, NoneAssumption, TurnsAssumption, Zenon
       DEF BrInv, BrTypeOK, BrTransportOK, BrTransports, StopEnds
  <2>. QED
    BY <1>2, <2>1, <2>2, <2>3, <2>4, <2>5, Zenon
<1>3. CASE ServeStep
  <2>1. UNCHANGED transport
    BY <1>3, Zenon
       DEF ServeStep, ServeReturns, ServeConfig, StartTurn, PlaneReady, ApplySteering,
           AgentReturns, LeaveTurn, EmitIdle, EmitTerminal
  <2>. QED
    BY <2>1, Zenon DEF BrInv, BrTypeOK, BrTransportOK
<1>. QED
  BY <1>1, <1>2, <1>3, Zenon DEF TransportStep, Submit

\* What the TurnRunner keeps (turn_runner.py).
LEMMA BrRunnerOKKept ==
    ASSUME BrInv, Submit \/ TransportStep \/ ServeStep
    PROVE  BrRunnerOK'
<1>. USE DEF runnerVars, stateVars, inputVars, Ready, Snapshot
<1>1. CASE Submit
  <2>1. ASSUME NEW t \in Turns, SubmitTurn(t) PROVE BrRunnerOK'
    BY <2>1, NoneAssumption, TurnsAssumption, Zenon
       DEF BrInv, BrTypeOK, BrRunnerOK, BrControls, BrTransportOK, BrTransports, BrSequencesOK,
           SubmitTurn
  <2>2. ASSUME NEW t \in Turns, SubmitCancel(t) PROVE BrRunnerOK'
    BY <2>2, NoneAssumption, TurnsAssumption, Zenon
       DEF BrInv, BrTypeOK, BrRunnerOK, BrControls, BrTransportOK, BrTransports, BrSequencesOK,
           SubmitCancel, CancelWorks, CancelledControl
  <2>3. ASSUME NEW s \in Steers, NEW t \in Turns, SubmitSteer(s, t) PROVE BrRunnerOK'
    BY <2>3, NoneAssumption, TurnsAssumption, Zenon
       DEF BrInv, BrTypeOK, BrRunnerOK, BrControls, BrTransportOK, BrTransports, BrSequencesOK,
           SubmitSteer, Accepts
  <2>4. CASE Stop
    BY <2>4, NoneAssumption, TurnsAssumption, Zenon
       DEF BrInv, BrTypeOK, BrRunnerOK, BrControls, BrTransportOK, BrTransports, BrSequencesOK,
           Stop, CancelWorks, CancelledControl, Outstanding
  <2>5. CASE (\E q \in Requests, answer \in {"valid", "invalid"} : SubmitAnswer(q, answer))
             \/ SubmitPermission \/ SubmitConfig \/ SubmitFails
    <3>1. UNCHANGED <<queued, pendingSteers, current, control, closed>>
      BY <2>5, Zenon DEF SubmitAnswer, SubmitPermission, SubmitConfig, SubmitFails
    <3>. QED
      BY <3>1, Zenon DEF BrInv, BrTypeOK, BrRunnerOK
  <2>. QED
    BY <1>1, <2>1, <2>2, <2>3, <2>4, <2>5, Zenon DEF Submit
<1>2. CASE AcknowledgeTurn \/ PutTurn \/ AcknowledgeSteer \/ Unblock \/ StopEnds
  <2>1. UNCHANGED <<queued, pendingSteers, current, control, closed>>
    BY <1>2, Zenon DEF AcknowledgeTurn, PutTurn, AcknowledgeSteer, Unblock, StopEnds, UnblockAll
  <2>. QED
    BY <2>1, Zenon DEF BrInv, BrTypeOK, BrRunnerOK
<1>3. CASE ServeStep
  <2>1. CASE StartTurn
    BY <2>1, NoneAssumption, TurnsAssumption, Zenon
       DEF BrInv, BrTypeOK, BrRunnerOK, BrControls, BrTransportOK, BrTransports, BrSequencesOK,
           StartTurn
  <2>2. CASE ApplySteering
    BY <2>2, NoneAssumption, TurnsAssumption, Zenon
       DEF BrInv, BrTypeOK, BrRunnerOK, BrControls, BrTransportOK, BrTransports, BrSequencesOK,
           ApplySteering
  <2>3. ASSUME NEW status \in {"completed", "cancelled", "failed"}, AgentReturns(status)
        PROVE  BrRunnerOK'
    BY <2>3, NoneAssumption, TurnsAssumption, Zenon
       DEF BrInv, BrTypeOK, BrRunnerOK, BrControls, BrTransportOK, BrTransports, BrSequencesOK,
           AgentReturns
  <2>4. CASE LeaveTurn
    BY <2>4, NoneAssumption, TurnsAssumption, Zenon
       DEF BrInv, BrTypeOK, BrRunnerOK, BrControls, BrTransportOK, BrTransports, BrSequencesOK,
           LeaveTurn, NoControl
  <2>5. CASE ServeReturns \/ ServeConfig \/ PlaneReady \/ EmitIdle \/ EmitTerminal
    <3>1. UNCHANGED <<queued, pendingSteers, current, control, closed>>
      BY <2>5, Zenon DEF ServeReturns, ServeConfig, PlaneReady, EmitIdle, EmitTerminal
    <3>. QED
      BY <3>1, Zenon DEF BrInv, BrTypeOK, BrRunnerOK
  <2>. QED
    BY <1>3, <2>1, <2>2, <2>3, <2>4, <2>5, Zenon DEF ServeStep
<1>. QED
  BY <1>1, <1>2, <1>3, Zenon DEF TransportStep, Submit

\* The place of the channel thread (Bridge.serve).
LEMMA BrServeOKKept ==
    ASSUME BrInv, Submit \/ TransportStep \/ ServeStep
    PROVE  BrServeOK'
<1>. USE DEF runnerVars, stateVars, inputVars, Ready, Snapshot
<1>1. CASE Submit
  <2>1. CASE SubmitFails
    BY <2>1, NoneAssumption, TurnsAssumption
       DEF BrInv, BrTypeOK, BrServeOK, BrServes, BrSequencesOK, SubmitFails
  <2>2. CASE (\E t \in Turns : SubmitTurn(t)) \/ (\E t \in Turns : SubmitCancel(t))
             \/ (\E s \in Steers, t \in Turns : SubmitSteer(s, t))
             \/ (\E q \in Requests, answer \in {"valid", "invalid"} : SubmitAnswer(q, answer))
             \/ SubmitPermission \/ SubmitConfig \/ Stop
    <3>1. UNCHANGED <<serve, fatals>>
      BY <2>2, Zenon
         DEF SubmitTurn, SubmitCancel, SubmitSteer, SubmitAnswer, SubmitPermission,
             SubmitConfig, Stop
    <3>. QED
      BY <3>1, Zenon DEF BrInv, BrTypeOK, BrServeOK
  <2>. QED
    BY <1>1, <2>1, <2>2, Zenon DEF Submit
<1>2. CASE AcknowledgeTurn \/ PutTurn \/ AcknowledgeSteer \/ Unblock \/ StopEnds
  <2>1. UNCHANGED <<serve, fatals>>
    BY <1>2, Zenon DEF AcknowledgeTurn, PutTurn, AcknowledgeSteer, Unblock, StopEnds, UnblockAll
  <2>. QED
    BY <2>1, Zenon DEF BrInv, BrTypeOK, BrServeOK
<1>3. CASE ServeStep
  <2>1. CASE ServeReturns
    BY <2>1, NoneAssumption, TurnsAssumption, Zenon
       DEF BrInv, BrTypeOK, BrServeOK, BrServes, BrSequencesOK, ServeReturns
  <2>2. CASE StartTurn
    BY <2>2, NoneAssumption, TurnsAssumption, Zenon
       DEF BrInv, BrTypeOK, BrServeOK, BrServes, BrSequencesOK, StartTurn
  <2>3. CASE PlaneReady
    BY <2>3, NoneAssumption, TurnsAssumption, Zenon
       DEF BrInv, BrTypeOK, BrServeOK, BrServes, BrSequencesOK, PlaneReady
  <2>4. ASSUME NEW status \in {"completed", "cancelled", "failed"}, AgentReturns(status)
        PROVE  BrServeOK'
    BY <2>4, NoneAssumption, TurnsAssumption, Zenon
       DEF BrInv, BrTypeOK, BrServeOK, BrServes, BrSequencesOK, AgentReturns
  <2>5. CASE LeaveTurn
    BY <2>5, NoneAssumption, TurnsAssumption, Zenon
       DEF BrInv, BrTypeOK, BrServeOK, BrServes, BrSequencesOK, LeaveTurn, NoControl
  <2>6. CASE EmitIdle
    BY <2>6, NoneAssumption, TurnsAssumption, Zenon
       DEF BrInv, BrTypeOK, BrServeOK, BrServes, BrSequencesOK, EmitIdle
  <2>7. CASE EmitTerminal
    BY <2>7, NoneAssumption, TurnsAssumption, Zenon
       DEF BrInv, BrTypeOK, BrServeOK, BrServes, BrSequencesOK, EmitTerminal
  <2>8. CASE ServeConfig \/ ApplySteering
    <3>1. UNCHANGED <<serve, fatals>>
      BY <2>8, Zenon DEF ServeConfig, ApplySteering
    <3>. QED
      BY <3>1, Zenon DEF BrInv, BrTypeOK, BrServeOK
  <2>. QED
    BY <1>3, <2>1, <2>2, <2>3, <2>4, <2>5, <2>6, <2>7, <2>8, Zenon DEF ServeStep
<1>. QED
  BY <1>1, <1>2, <1>3, Zenon DEF TransportStep, Submit

\* The queue of commands and the terminal events (Bridge.serve).
LEMMA BrSequencesOKKept ==
    ASSUME BrInv, Submit \/ TransportStep \/ ServeStep
    PROVE  BrSequencesOK'
<1>. USE DEF runnerVars, stateVars, inputVars, Ready, Snapshot
<1>1. CASE Submit
  <2>1. CASE SubmitConfig
    BY <2>1, NoneAssumption, TurnsAssumption
       DEF BrInv, BrTypeOK, BrSequencesOK, BrTransportOK, BrTransports, BrServeOK, BrServes,
           BrServed, BrQueue, BrRunnerOK, SubmitConfig
  <2>2. CASE (\E t \in Turns : SubmitTurn(t)) \/ (\E t \in Turns : SubmitCancel(t))
             \/ (\E s \in Steers, t \in Turns : SubmitSteer(s, t))
             \/ (\E q \in Requests, answer \in {"valid", "invalid"} : SubmitAnswer(q, answer))
             \/ SubmitPermission \/ SubmitFails \/ Stop
    <3>1. UNCHANGED <<commands, ended>>
      BY <2>2, Zenon
         DEF SubmitTurn, SubmitCancel, SubmitSteer, SubmitAnswer, SubmitPermission, SubmitFails,
             Stop
    <3>. QED
      BY <3>1, Zenon DEF BrInv, BrTypeOK, BrSequencesOK
  <2>. QED
    BY <1>1, <2>1, <2>2, Zenon DEF Submit
<1>2. CASE AcknowledgeTurn \/ PutTurn \/ AcknowledgeSteer \/ Unblock \/ StopEnds
  <2>1. CASE PutTurn
    BY <2>1, NoneAssumption, TurnsAssumption
       DEF BrInv, BrTypeOK, BrSequencesOK, BrTransportOK, BrTransports, BrServeOK, BrServes,
           BrServed, BrQueue, BrRunnerOK, PutTurn
  <2>2. CASE StopEnds
    BY <2>2, NoneAssumption, TurnsAssumption
       DEF BrInv, BrTypeOK, BrSequencesOK, BrTransportOK, BrTransports, BrServeOK, BrServes,
           BrServed, BrQueue, BrRunnerOK, StopEnds
  <2>3. CASE AcknowledgeTurn \/ AcknowledgeSteer \/ Unblock
    <3>1. UNCHANGED <<commands, ended>>
      BY <2>3, Zenon DEF AcknowledgeTurn, AcknowledgeSteer, Unblock, UnblockAll
    <3>. QED
      BY <3>1, Zenon DEF BrInv, BrTypeOK, BrSequencesOK
  <2>. QED
    BY <1>2, <2>1, <2>2, <2>3, Zenon
<1>3. CASE ServeStep
  <2>1. CASE ServeReturns
    BY <2>1, NoneAssumption, TurnsAssumption
       DEF BrInv, BrTypeOK, BrSequencesOK, BrTransportOK, BrTransports, BrServeOK, BrServes,
           BrServed, BrQueue, BrRunnerOK, ServeReturns
  <2>2. CASE ServeConfig
    BY <2>2, NoneAssumption, TurnsAssumption
       DEF BrInv, BrTypeOK, BrSequencesOK, BrTransportOK, BrTransports, BrServeOK, BrServes,
           BrServed, BrQueue, BrRunnerOK, ServeConfig
  <2>3. CASE StartTurn
    BY <2>3, NoneAssumption, TurnsAssumption
       DEF BrInv, BrTypeOK, BrSequencesOK, BrTransportOK, BrTransports, BrServeOK, BrServes,
           BrServed, BrQueue, BrRunnerOK, StartTurn
  <2>4. CASE EmitTerminal
    BY <2>4, NoneAssumption, TurnsAssumption
       DEF BrInv, BrTypeOK, BrSequencesOK, BrTransportOK, BrTransports, BrServeOK, BrServes,
           BrServed, BrQueue, BrRunnerOK, EmitTerminal
  <2>5. CASE PlaneReady \/ ApplySteering
             \/ (\E status \in {"completed", "cancelled", "failed"} : AgentReturns(status))
             \/ LeaveTurn \/ EmitIdle
    <3>1. UNCHANGED <<commands, ended>>
      BY <2>5, Zenon DEF PlaneReady, ApplySteering, AgentReturns, LeaveTurn, EmitIdle
    <3>. QED
      BY <3>1, Zenon DEF BrInv, BrTypeOK, BrSequencesOK
  <2>. QED
    BY <1>3, <2>1, <2>2, <2>3, <2>4, <2>5, Zenon DEF ServeStep
<1>. QED
  BY <1>1, <1>2, <1>3, Zenon DEF TransportStep, Submit

\* The tool threads.
LEMMA BrToolOKKept ==
    ASSUME BrInv, Submit \/ TransportStep \/ ServeStep
    PROVE  BrToolOK'
  BY BrToolsStay, Zenon DEF BrInv, BrTypeOK, BrToolOK

\* The outstanding requests (_waiters).
LEMMA BrWaitersOKKept ==
    ASSUME BrInv, Submit \/ TransportStep \/ ServeStep
    PROVE  BrWaitersOK'
<1>1. CASE \/ \E q \in Requests, answer \in {"valid", "invalid"} : SubmitAnswer(q, answer)
           \/ Unblock \/ StopEnds
  BY <1>1, BrAnswered, Zenon
<1>2. CASE UNCHANGED waiters
  BY <1>2, Zenon DEF BrInv, BrTypeOK, BrWaitersOK
<1>. QED
  BY <1>1, <1>2, BrWaitersChange, Zenon

\* The interaction lock and the requests (_register_interaction).
LEMMA BrLockKept ==
    ASSUME BrInv, Submit \/ TransportStep \/ ServeStep
    PROVE  BrLock'
<1>1. UNCHANGED <<tool, holder, requests>>
  BY BrToolsStay, Zenon
<1>2. \A q \in Requests : /\ waiters'[q] # None <=> waiters[q] # None
                          /\ waiters[q] # None => waiters'[q].turn = waiters[q].turn
  BY BrAnswered, BrWaitersChange, Zenon
<1>3. \A k \in Tools : tool[k].pc # "off" => serve'.pc = "running"
  <2>1. ASSUME NEW k \in Tools, tool[k].pc # "off"
        PROVE  serve'.pc = "running"
    <3>1. serve.pc = "running"
      BY <2>1, Zenon DEF BrInv, BrLock
    <3>. QED
      BY <2>1, <3>1, Zenon
         DEF Submit, TransportStep, ServeStep, SubmitTurn, SubmitCancel, SubmitSteer,
             SubmitAnswer, SubmitPermission, SubmitConfig, SubmitFails, Stop, AcknowledgeTurn,
             PutTurn, AcknowledgeSteer, Unblock, UnblockAll, StopEnds, ServeReturns,
             ServeConfig, StartTurn, PlaneReady, ApplySteering, AgentReturns, LeaveTurn,
             EmitIdle, EmitTerminal
  <2>. QED
    BY <2>1, Zenon
<1>4. ASSUME NEW q \in Requests, waiters[q] # None
      PROVE  waiters[q].turn = current'
  <2>1. serve.pc = "running"
    BY <1>4, BrQuiet, Zenon
  <2>. QED
    BY <1>4, <2>1, BrStays, Zenon DEF BrInv, BrLock
<1>5. \A k \in Tools : tool[k].pc \in BrOpen =>
         tool[k].req \in Requests /\ waiters[tool[k].req] # None
  BY BrRegistered, Zenon
<1>6. \A k \in Tools : tool'[k].pc \in BrOpen => waiters'[tool'[k].req] # None
  BY <1>1, <1>2, <1>5, Zenon
<1>7. \A q \in Requests : waiters'[q] # None =>
         /\ q <= requests' /\ waiters'[q].turn = current'
         /\ holder' \in Tools /\ tool'[holder'].pc \in BrOpen /\ tool'[holder'].req = q
  BY <1>1, <1>2, <1>4, Zenon DEF BrInv, BrLock
<1>8. \A k \in Tools : tool'[k].pc # "off" => serve'.pc = "running"
  BY <1>1, <1>3, Zenon
<1>. QED
  BY <1>1, <1>6, <1>7, <1>8, Zenon DEF BrInv, BrLock

\* The request ids (Bridge._register_interaction).
LEMMA BrBoundKept ==
    ASSUME BrInv, Submit \/ TransportStep \/ ServeStep
    PROVE  BrBound'
  BY BrToolsStay, Zenon DEF BrInv, BrBound, BrWanting

\* What is shown, while nothing is asked or a tool waits (_runtime_snapshot).
LEMMA BrShownKept ==
    ASSUME BrInv, Submit \/ TransportStep \/ ServeStep
    PROVE  BrShown'
<1>. USE DEF runnerVars, stateVars, inputVars, Ready, Snapshot
<1>1. CASE Submit
  <2>1. CASE SubmitPermission
    BY <2>1, NoneAssumption, TurnsAssumption, Zenon
       DEF BrInv, BrTypeOK, BrServeOK, BrToolOK, BrToolStates, BrLock, BrShown, BrAsking,
           SubmitPermission
  <2>2. CASE SubmitFails
    BY <2>2, NoneAssumption, TurnsAssumption
       DEF BrInv, BrTypeOK, BrServeOK, BrToolOK, BrToolStates, BrLock, BrShown, BrAsking,
           SubmitFails
  <2>3. CASE (\E t \in Turns : SubmitTurn(t)) \/ (\E t \in Turns : SubmitCancel(t))
             \/ (\E s \in Steers, t \in Turns : SubmitSteer(s, t))
             \/ (\E q \in Requests, answer \in {"valid", "invalid"} : SubmitAnswer(q, answer))
             \/ SubmitConfig \/ Stop
    <3>1. UNCHANGED <<fatals, holder, phase, approval, shown, tool>>
      BY <2>3, Zenon DEF SubmitTurn, SubmitCancel, SubmitSteer, SubmitAnswer, SubmitConfig, Stop
    <3>. QED
      BY <3>1, Zenon DEF BrInv, BrShown
  <2>. QED
    BY <1>1, <2>1, <2>2, <2>3, Zenon DEF Submit
<1>2. CASE AcknowledgeTurn \/ PutTurn \/ AcknowledgeSteer \/ Unblock \/ StopEnds
  <2>1. UNCHANGED <<fatals, holder, phase, approval, shown, tool>>
    BY <1>2, Zenon DEF AcknowledgeTurn, PutTurn, AcknowledgeSteer, Unblock, StopEnds, UnblockAll
  <2>. QED
    BY <2>1, Zenon DEF BrInv, BrShown
<1>3. CASE ServeStep
  <2>1. CASE ServeConfig
    BY <2>1, NoneAssumption, TurnsAssumption, Zenon
       DEF BrInv, BrTypeOK, BrServeOK, BrToolOK, BrToolStates, BrLock, BrShown, BrAsking,
           ServeConfig
  <2>2. CASE PlaneReady
    BY <2>2, NoneAssumption, TurnsAssumption, Zenon
       DEF BrInv, BrTypeOK, BrServeOK, BrToolOK, BrToolStates, BrLock, BrShown, BrAsking,
           PlaneReady
  <2>3. CASE EmitIdle
    BY <2>3, NoneAssumption, TurnsAssumption, Zenon
       DEF BrInv, BrTypeOK, BrServeOK, BrToolOK, BrToolStates, BrLock, BrShown, BrAsking,
           EmitIdle
  <2>4. CASE ServeReturns \/ StartTurn \/ ApplySteering
             \/ (\E status \in {"completed", "cancelled", "failed"} : AgentReturns(status))
             \/ LeaveTurn \/ EmitTerminal
    <3>1. UNCHANGED <<fatals, holder, phase, approval, shown, tool>>
      BY <2>4, Zenon
         DEF ServeReturns, StartTurn, ApplySteering, AgentReturns, LeaveTurn, EmitTerminal
    <3>. QED
      BY <3>1, Zenon DEF BrInv, BrShown
  <2>. QED
    BY <1>3, <2>1, <2>2, <2>3, <2>4, Zenon DEF ServeStep
<1>. QED
  BY <1>1, <1>2, <1>3, Zenon DEF TransportStep, Submit

\* The turn that is served (TurnRunner.run_turn).
LEMMA BrServedKept ==
    ASSUME BrInv, Submit \/ TransportStep \/ ServeStep
    PROVE  BrServed'
<1>. USE DEF runnerVars, stateVars, inputVars, Ready, Snapshot
<1>1. CASE Submit
  <2>1. ASSUME NEW t \in Turns, SubmitCancel(t) PROVE BrServed'
    BY <2>1, NoneAssumption, TurnsAssumption, Zenon
       DEF BrInv, BrTypeOK, BrServeOK, BrServes, BrRunnerOK, BrControls, BrServed, SubmitCancel,
           CancelWorks, CancelledControl
  <2>2. ASSUME NEW s \in Steers, NEW t \in Turns, SubmitSteer(s, t) PROVE BrServed'
    BY <2>2, NoneAssumption, TurnsAssumption, Zenon
       DEF BrInv, BrTypeOK, BrServeOK, BrServes, BrRunnerOK, BrControls, BrServed, SubmitSteer,
           Accepts
  <2>3. CASE Stop
    BY <2>3, NoneAssumption, TurnsAssumption, Zenon
       DEF BrInv, BrTypeOK, BrServeOK, BrServes, BrRunnerOK, BrControls, BrServed, Stop,
           CancelWorks, CancelledControl, Outstanding
  <2>4. CASE (\E t \in Turns : SubmitTurn(t))
             \/ (\E q \in Requests, answer \in {"valid", "invalid"} : SubmitAnswer(q, answer))
             \/ SubmitPermission \/ SubmitConfig \/ SubmitFails
    <3>1. UNCHANGED <<serve, current, control, closed>>
      BY <2>4, Zenon DEF SubmitTurn, SubmitAnswer, SubmitPermission, SubmitConfig, SubmitFails
    <3>. QED
      BY <3>1, Zenon DEF BrInv, BrServed
  <2>. QED
    BY <1>1, <2>1, <2>2, <2>3, <2>4, Zenon DEF Submit
<1>2. CASE AcknowledgeTurn \/ PutTurn \/ AcknowledgeSteer \/ Unblock \/ StopEnds
  <2>1. UNCHANGED <<serve, current, control, closed>>
    BY <1>2, Zenon DEF AcknowledgeTurn, PutTurn, AcknowledgeSteer, Unblock, StopEnds, UnblockAll
  <2>. QED
    BY <2>1, Zenon DEF BrInv, BrServed
<1>3. CASE ServeStep
  <2>1. CASE ServeReturns
    BY <2>1, NoneAssumption, TurnsAssumption, Zenon
       DEF BrInv, BrTypeOK, BrServeOK, BrServes, BrRunnerOK, BrControls, BrServed, ServeReturns
  <2>2. CASE StartTurn
    BY <2>2, NoneAssumption, TurnsAssumption, Zenon
       DEF BrInv, BrTypeOK, BrServeOK, BrServes, BrRunnerOK, BrControls, BrServed, StartTurn
  <2>3. CASE PlaneReady
    BY <2>3, NoneAssumption, TurnsAssumption, Zenon
       DEF BrInv, BrTypeOK, BrServeOK, BrServes, BrRunnerOK, BrControls, BrServed, PlaneReady
  <2>4. CASE ApplySteering
    BY <2>4, NoneAssumption, TurnsAssumption, Zenon
       DEF BrInv, BrTypeOK, BrServeOK, BrServes, BrRunnerOK, BrControls, BrServed, ApplySteering
  <2>5. ASSUME NEW status \in {"completed", "cancelled", "failed"}, AgentReturns(status)
        PROVE  BrServed'
    BY <2>5, NoneAssumption, TurnsAssumption, Zenon
       DEF BrInv, BrTypeOK, BrServeOK, BrServes, BrRunnerOK, BrControls, BrServed, AgentReturns
  <2>6. CASE LeaveTurn
    BY <2>6, NoneAssumption, TurnsAssumption, Zenon
       DEF BrInv, BrTypeOK, BrServeOK, BrServes, BrRunnerOK, BrControls, BrServed, LeaveTurn,
           NoControl
  <2>7. CASE EmitIdle
    BY <2>7, NoneAssumption, TurnsAssumption, Zenon
       DEF BrInv, BrTypeOK, BrServeOK, BrServes, BrRunnerOK, BrControls, BrServed, EmitIdle
  <2>8. CASE EmitTerminal
    BY <2>8, NoneAssumption, TurnsAssumption, Zenon
       DEF BrInv, BrTypeOK, BrServeOK, BrServes, BrRunnerOK, BrControls, BrServed, EmitTerminal
  <2>9. CASE ServeConfig
    <3>1. UNCHANGED <<serve, current, control, closed>>
      BY <2>9, Zenon DEF ServeConfig
    <3>. QED
      BY <3>1, Zenon DEF BrInv, BrServed
  <2>. QED
    BY <1>3, <2>1, <2>2, <2>3, <2>4, <2>5, <2>6, <2>7, <2>8, <2>9, Zenon DEF ServeStep
<1>. QED
  BY <1>1, <1>2, <1>3, Zenon DEF TransportStep, Submit

\* Cancelled is given to its own turn (TurnRunner.cancel, Bridge.stop).
LEMMA BrCancelledKept ==
    ASSUME BrInv, Submit \/ TransportStep \/ ServeStep
    PROVE  BrCancelled'
<1>1. ASSUME NEW q \in Requests, waiters[q] # None, control.cancelled = TRUE
      PROVE  control'.cancelled = TRUE
  <2>1. serve.pc = "running"
    BY <1>1, BrQuiet, Zenon
  <2>. QED
    BY <1>1, <2>1, BrStays, Zenon
<1>2. ASSUME NEW q \in Requests, waiters'[q] # None, BrGivenCancelled(q)'
      PROVE  control'.cancelled = TRUE
  <2>1. CASE \/ \E r \in Requests, answer \in {"valid", "invalid"} : SubmitAnswer(r, answer)
             \/ Unblock \/ StopEnds
    BY <1>1, <1>2, <2>1, BrAnswered, Zenon
  <2>2. CASE UNCHANGED waiters
    <3>1. BrGivenCancelled(q)
      BY <1>2, <2>2, Zenon DEF BrGivenCancelled
    <3>. QED
      BY <1>1, <1>2, <2>2, <3>1, Zenon DEF BrInv, BrCancelled
  <2>. QED
    BY <2>1, <2>2, BrWaitersChange, Zenon
<1>3. ASSUME transport'.op = "unblock"
      PROVE  transport'.turn # None /\ (transport'.turn = current' => control'.cancelled = TRUE)
  <2>1. CASE UNCHANGED transport
    <3>1. transport.turn # None /\ (transport.turn = current => control.cancelled = TRUE)
      BY <1>3, <2>1, Zenon DEF BrInv, BrCancelled
    <3>2. CASE StartTurn
      <4>1. Head(commands) \in queued /\ current' = Head(commands)
        BY <3>2 DEF StartTurn, BrInv, BrQueue, BrTypeOK, BrSequencesOK
      <4>. QED
        BY <1>3, <2>1, <3>1, <4>1, Zenon DEF BrInv, BrEnded
    <3>3. CASE ~StartTurn
      <4>1. current' = current \/ current' = None
        BY <3>3, Zenon
           DEF Submit, TransportStep, ServeStep, SubmitTurn, SubmitCancel, SubmitSteer,
               SubmitAnswer, SubmitPermission, SubmitConfig, SubmitFails, Stop, AcknowledgeTurn,
               PutTurn, AcknowledgeSteer, Unblock, UnblockAll, StopEnds, ServeReturns,
               ServeConfig, PlaneReady, ApplySteering, AgentReturns, LeaveTurn, EmitIdle,
               EmitTerminal, runnerVars
      <4>. QED
        BY <2>1, <3>1, <4>1, BrStays, Zenon
    <3>. QED
      BY <3>2, <3>3, Zenon
  <2>2. CASE transport'.turn \in Turns /\ control'.cancelled = TRUE
    BY <2>2, NoneAssumption, Zenon
  <2>. QED
    BY <1>3, <2>1, <2>2, BrTransportChange, Zenon
<1>4. ASSUME transport'.op = "stopping", NEW q \in transport'.reqs
      PROVE  q <= requests' /\ (waiters'[q] # None => control'.cancelled = TRUE)
  <2>1. CASE UNCHANGED transport
    <3>1. q \in Requests /\ q <= requests /\ (waiters[q] # None => control.cancelled = TRUE)
      BY <1>4, <2>1, Zenon DEF BrInv, BrCancelled, BrTypeOK, BrTransportOK, BrTransports
    <3>2. waiters'[q] # None => waiters[q] # None
      BY <3>1, BrAnswered, BrWaitersChange, Zenon
    <3>. QED
      BY <1>1, <3>1, <3>2, BrToolsStay, Zenon
  <2>2. CASE Stop
    <3>1. q \in Requests /\ waiters[q] # None /\ UNCHANGED <<waiters, requests>>
      BY <1>4, <2>2, Zenon DEF Stop, Outstanding, Ready
    <3>2. q <= requests /\ serve.pc = "running"
      BY <3>1, BrQuiet, Zenon DEF BrInv, BrLock
    <3>3. control'.cancelled = TRUE
      <4>1. control \in BrControls /\ control.finished = FALSE /\ current # None
        BY <3>2, Zenon DEF BrInv, BrServed, BrTypeOK, BrRunnerOK
      <4>2. CASE control.cancelled = FALSE
        <5>1. control' = CancelledControl
          BY <2>2, <4>1, <4>2, Zenon DEF Stop, CancelWorks
        <5>. QED
          BY <4>1, <5>1, Zenon DEF CancelledControl, BrControls
      <4>3. CASE control.cancelled = TRUE
        BY <2>2, <4>1, <4>3, Zenon DEF Stop, CancelWorks
      <4>. QED
        BY <4>1, <4>2, <4>3, Zenon DEF BrControls
    <3>. QED
      BY <3>1, <3>2, <3>3, Zenon
  <2>. QED
    BY <1>4, <2>1, <2>2, BrTransportChange, Zenon
<1>. QED
  BY <1>2, <1>3, <1>4, Zenon DEF BrCancelled

\* The queue of turns (Bridge.submit, Bridge.serve).
LEMMA BrQueueKept ==
    ASSUME BrInv, Submit \/ TransportStep \/ ServeStep
    PROVE  BrQueue'
<1>. USE DEF BrQueue
<1>0. /\ BrQueue /\ commands \in Seq(Turns \cup {None, "config"}) /\ transport \in BrTransports
      /\ queued \subseteq Turns
  BY Zenon DEF BrInv, BrTypeOK, BrSequencesOK, BrTransportOK, BrRunnerOK
<1>1. CASE /\ UNCHANGED <<commands, queued>>
           /\ transport'.op \in {"turn", "put"} =>
                 transport.op \in {"turn", "put"} /\ transport'.turn = transport.turn
  BY <1>0, <1>1, Zenon
<1>2. ASSUME NEW t \in Turns, SubmitTurn(t) PROVE BrQueue'
  <2>1. /\ UNCHANGED commands /\ queued' = queued \cup {t} /\ transport'.turn = t
    BY <1>2, Zenon DEF SubmitTurn, Ready
  <2>2. t \notin queued
    BY <1>2, Zenon DEF SubmitTurn, BrInv, BrEnded
  <2>. QED
    BY <1>0, <2>1, <2>2, Zenon
<1>3. CASE SubmitConfig \/ StopEnds
  <2>1. PICK e \in {None, "config"} : commands' = Append(commands, e)
    BY <1>3, Zenon DEF SubmitConfig, StopEnds
  <2>2. queued' = queued /\ transport'.op = "ready"
    BY <1>3 DEF SubmitConfig, StopEnds, Ready, runnerVars
  <2>5. e \notin Turns
    BY NoneAssumption, TurnsAssumption, Zenon
  <2>3. /\ Len(commands') = Len(commands) + 1 /\ commands'[Len(commands) + 1] = e
        /\ \A i \in 1..Len(commands) : commands'[i] = commands[i]
    BY <1>0, <2>1
  <2>4. \A i \in 1..Len(commands') : commands'[i] \in Turns =>
           i \in 1..Len(commands) /\ commands'[i] = commands[i]
    BY <1>0, <2>5, <2>3
  <2>. QED
    BY <1>0, <2>2, <2>4, Zenon
<1>4. CASE PutTurn
  <2>1. /\ commands' = Append(commands, transport.turn) /\ queued' = queued
        /\ transport'.op = "ready" /\ transport.op = "put"
    BY <1>4, Zenon DEF PutTurn, Ready, runnerVars
  <2>2. transport.turn \in queued /\ \A i \in 1..Len(commands) : commands[i] # transport.turn
    BY <1>0, <2>1, Zenon
  <2>3. /\ Len(commands') = Len(commands) + 1 /\ commands'[Len(commands) + 1] = transport.turn
        /\ \A i \in 1..Len(commands) : commands'[i] = commands[i]
    BY <1>0, <2>1, <2>2
  <2>4. \A i \in 1..Len(commands') : i \in 1..Len(commands) \/ i = Len(commands) + 1
    BY <1>0, <2>3
  <2>. QED
    BY <1>0, <2>1, <2>2, <2>3, <2>4
<1>5. CASE ServeReturns \/ ServeConfig \/ StartTurn
  <2>1. /\ commands' = Tail(commands) /\ commands # <<>> /\ transport' = transport
        /\ queued' = queued \/ (queued' = queued \ {Head(commands)} /\ Head(commands) \in Turns)
    BY <1>5, Zenon DEF ServeReturns, ServeConfig, StartTurn, runnerVars
  <2>2. /\ Len(commands') = Len(commands) - 1 /\ Head(commands) = commands[1]
        /\ 1 \in 1..Len(commands)
        /\ \A i \in 1..Len(commands') : i + 1 \in 1..Len(commands) /\ commands'[i] = commands[i + 1]
    BY <1>0, <2>1
  <2>3. \A i \in 1..Len(commands') : commands'[i] \in Turns => commands'[i] # commands[1]
    BY <1>0, <2>2
  <2>4. \A i, j \in 1..Len(commands') :
           commands'[i] \in Turns /\ commands'[i] = commands'[j] => i = j
    BY <1>0, <2>2
  <2>5. \A i \in 1..Len(commands') : commands'[i] \in Turns => commands'[i] \in queued'
    BY <1>0, <2>1, <2>2, <2>3, Zenon
  <2>6. ASSUME transport'.op \in {"turn", "put"}
        PROVE  /\ transport'.turn \in queued'
               /\ \A i \in 1..Len(commands') : commands'[i] # transport'.turn
    BY <1>0, <2>1, <2>2, <2>6
  <2>. QED
    BY <2>4, <2>5, <2>6, Zenon
<1>6. ASSUME NEW t \in Turns, SubmitCancel(t) PROVE BrQueue'
  BY <1>0, <1>1, <1>6, Zenon DEF SubmitCancel, Ready
<1>7. CASE \/ \E s \in Steers, t \in Turns : SubmitSteer(s, t)
           \/ \E q \in Requests, answer \in {"valid", "invalid"} : SubmitAnswer(q, answer)
           \/ SubmitPermission \/ SubmitFails \/ Stop
           \/ AcknowledgeTurn \/ AcknowledgeSteer \/ Unblock
  <2>. USE DEF Ready, runnerVars
  <2>1. UNCHANGED <<commands, queued>>
    BY <1>7, Zenon
       DEF SubmitSteer, SubmitAnswer, SubmitPermission, SubmitFails, Stop, AcknowledgeTurn,
           AcknowledgeSteer, Unblock, UnblockAll
  <2>2. transport'.op \in {"turn", "put"} =>
           transport.op \in {"turn", "put"} /\ transport'.turn = transport.turn
    <3>1. CASE AcknowledgeTurn
      BY <1>0, <3>1, Zenon DEF AcknowledgeTurn, BrTransports
    <3>2. CASE UNCHANGED transport
      BY <3>2, Zenon
    <3>3. CASE transport'.op \notin {"turn", "put"}
      BY <3>3, Zenon
    <3>4. CASE \/ \E q \in Requests, answer \in {"valid", "invalid"} : SubmitAnswer(q, answer)
               \/ SubmitPermission
      BY <3>2, <3>4, Zenon DEF SubmitAnswer, SubmitPermission
    <3>5. CASE \E s \in Steers, t \in Turns : SubmitSteer(s, t)
      BY <3>3, <3>5, Zenon DEF SubmitSteer
    <3>6. CASE SubmitFails \/ Stop
      BY <3>3, <3>6, Zenon DEF SubmitFails, Stop
    <3>7. CASE AcknowledgeSteer
      BY <3>3, <3>7, Zenon DEF AcknowledgeSteer
    <3>8. CASE Unblock
      BY <3>3, <3>8, Zenon DEF Unblock, UnblockAll
    <3>. QED
      BY <1>7, <3>1, <3>4, <3>5, <3>6, <3>7, <3>8, Zenon
  <2>. QED
    BY <1>1, <2>1, <2>2, Zenon
<1>8. CASE PlaneReady \/ ApplySteering \/ LeaveTurn \/ EmitIdle \/ EmitTerminal
           \/ \E status \in {"completed", "cancelled", "failed"} : AgentReturns(status)
  <2>1. UNCHANGED <<commands, queued, transport>>
    BY <1>8, Zenon
       DEF PlaneReady, ApplySteering, AgentReturns, LeaveTurn, EmitIdle, EmitTerminal,
           runnerVars
  <2>. QED
    BY <1>0, <2>1, Zenon
<1>. QED
  BY <1>2, <1>3, <1>4, <1>5, <1>6, <1>7, <1>8, Zenon DEF Submit, TransportStep, ServeStep

\* A turn ends once (Bridge.run_turn).
LEMMA BrEndedKept ==
    ASSUME BrInv, Submit \/ TransportStep \/ ServeStep
    PROVE  BrEnded'
<1>. USE DEF BrEnded
<1>0. /\ BrEnded /\ ended \in Seq(Turns) /\ queued \subseteq Turns /\ serve \in BrServes
      /\ transport \in BrTransports
  BY Zenon DEF BrInv, BrTypeOK, BrSequencesOK, BrRunnerOK, BrServeOK, BrTransportOK
<1>1. ASSUME UNCHANGED <<queued, ended>>, sent \subseteq sent', current' \in {current, None},
             serve'.turn \in {serve.turn, None},
             transport'.op = "unblock" =>
                transport.op = "unblock" /\ transport'.turn = transport.turn
      PROVE  BrEnded'
  <2>1. None \notin queued /\ \A i \in 1..Len(ended) : ended[i] # None
    BY <1>0, NoneAssumption
  <2>. QED
    BY <1>0, <1>1, <2>1, Zenon
<1>2. ASSUME NEW t \in Turns, SubmitTurn(t) PROVE BrEnded'
  <2>1. /\ t \notin sent /\ t # None /\ queued' = queued \cup {t} /\ sent' = sent \cup {t}
        /\ UNCHANGED <<ended, current, serve>> /\ transport'.op = "turn"
    BY <1>2, NoneAssumption, Zenon DEF SubmitTurn, Ready
  <2>. QED
    BY <1>0, <2>1
<1>3. ASSUME NEW t \in Turns, SubmitCancel(t) PROVE BrEnded'
  <2>1. UNCHANGED <<queued, sent, ended, current, serve>>
    BY <1>3, Zenon DEF SubmitCancel
  <2>2. CASE UNCHANGED transport
    BY <1>0, <2>1, <2>2, Zenon
  <2>3. CASE transport'.turn = current /\ current # None
    BY <1>0, <2>1, <2>3, Zenon
  <2>. QED
    BY <1>3, <2>2, <2>3, NoneAssumption, Zenon DEF SubmitCancel, Ready
<1>4. CASE StartTurn
  <2>. DEFINE t == Head(commands)
  <2>1. t \in queued
    <3>1. commands \in Seq(Turns \cup {None, "config"}) /\ BrQueue
      BY Zenon DEF BrInv, BrTypeOK, BrSequencesOK
    <3>2. commands # <<>> /\ Head(commands) \in Turns
      BY <1>4, Zenon DEF StartTurn
    <3>3. 1 \in 1..Len(commands) /\ commands[1] = Head(commands)
      BY <3>1, <3>2
    <3>. QED
      BY <3>1, <3>2, <3>3, Zenon DEF BrQueue
  <2>2. /\ current' = t /\ serve'.turn = t /\ queued' = queued \ {t}
        /\ UNCHANGED <<ended, sent, transport>>
    BY <1>4, Zenon DEF StartTurn, inputVars
  <2>. HIDE DEF t
  <2>. QED
    BY <1>0, <2>1, <2>2, Zenon
<1>5. CASE EmitTerminal
  <2>1. /\ UNCHANGED <<queued, sent, current, transport>> /\ serve'.turn = None /\ current = None
        /\ serve.turn \in sent /\ serve.turn \in Turns
        /\ ended' = ended \/ ended' = Append(ended, serve.turn)
    BY <1>0, <1>5, Zenon DEF EmitTerminal, BrInv, BrServed, BrServes, runnerVars, inputVars
  <2>2. CASE ended' = ended
    BY <1>1, <2>1, <2>2, Zenon
  <2>3. CASE ended' = Append(ended, serve.turn)
    <3>1. /\ Len(ended') = Len(ended) + 1 /\ ended'[Len(ended) + 1] = serve.turn
          /\ \A i \in 1..Len(ended) : ended'[i] = ended[i] /\ ended[i] \in Turns
          /\ \A i \in 1..Len(ended') : i \in 1..Len(ended) \/ i = Len(ended) + 1
      BY <1>0, <2>1, <2>3
    <3>2. \A i \in 1..Len(ended') : ended'[i] \in sent /\ ended'[i] \notin queued
                                    /\ ended'[i] # None
      BY <1>0, <2>1, <3>1, NoneAssumption, Zenon
    <3>3. \A i, j \in 1..Len(ended') : ended'[i] = ended'[j] => i = j
      BY <1>0, <2>1, <3>1, Zenon
    <3>4. None \notin queued
      BY <1>0, NoneAssumption, Zenon
    <3>5. \A t \in queued' :
             /\ t \in sent' /\ t # current' /\ t # serve'.turn
             /\ transport'.op = "unblock" => transport'.turn # t
      BY <1>0, <2>1, <3>4, Zenon
    <3>6. \A t \in queued' : \A i \in 1..Len(ended') : ended'[i] # t
      BY <2>1, <3>2, Zenon
    <3>7. /\ {current', serve'.turn} \subseteq sent' \cup {None}
          /\ transport'.op = "unblock" => transport'.turn \in sent'
      BY <1>0, <2>1, Zenon
    <3>8. \A i \in 1..Len(ended') :
             ended'[i] \in sent' /\ ended'[i] # current' /\ ended'[i] # serve'.turn
      BY <2>1, <3>2, Zenon
    <3>. QED
      BY <3>3, <3>5, <3>6, <3>7, <3>8, Zenon
  <2>. QED
    BY <2>1, <2>2, <2>3, Zenon
<1>6. CASE \/ \E s \in Steers, t \in Turns : SubmitSteer(s, t)
           \/ \E q \in Requests, answer \in {"valid", "invalid"} : SubmitAnswer(q, answer)
           \/ SubmitPermission \/ SubmitConfig \/ SubmitFails \/ Stop
  <2>. USE DEF Ready, runnerVars, inputVars
  <2>1. UNCHANGED <<queued, ended, current, serve>> /\ sent \subseteq sent'
    BY <1>6, Zenon
       DEF SubmitSteer, SubmitAnswer, SubmitPermission, SubmitConfig, SubmitFails, Stop
  <2>2. transport'.op = "unblock" => UNCHANGED transport
    BY <1>6, Zenon
       DEF SubmitSteer, SubmitAnswer, SubmitPermission, SubmitConfig, SubmitFails, Stop
  <2>. QED
    BY <1>1, <2>1, <2>2, Zenon
<1>7. CASE AcknowledgeTurn \/ PutTurn \/ AcknowledgeSteer \/ Unblock \/ StopEnds
  <2>. USE DEF Ready, runnerVars, inputVars
  <2>1. UNCHANGED <<queued, ended, current, serve, sent>>
    BY <1>7, Zenon DEF AcknowledgeTurn, PutTurn, AcknowledgeSteer, Unblock, UnblockAll, StopEnds
  <2>2. transport'.op # "unblock"
    BY <1>0, <1>7 DEF AcknowledgeTurn, PutTurn, AcknowledgeSteer, Unblock, UnblockAll, StopEnds,
                      BrTransports
  <2>. QED
    BY <1>1, <2>1, <2>2, Zenon
<1>8. CASE ServeReturns \/ ServeConfig \/ PlaneReady \/ ApplySteering \/ LeaveTurn \/ EmitIdle
           \/ \E status \in {"completed", "cancelled", "failed"} : AgentReturns(status)
  <2>. USE DEF runnerVars, inputVars
  <2>1. UNCHANGED <<queued, ended, sent, transport>> /\ current' \in {current, None}
    BY <1>8, Zenon
       DEF ServeReturns, ServeConfig, PlaneReady, ApplySteering, LeaveTurn, EmitIdle,
           AgentReturns
  <2>2. serve'.turn = serve.turn
    BY <1>0, <1>8, Zenon
       DEF ServeReturns, ServeConfig, PlaneReady, ApplySteering, LeaveTurn, EmitIdle,
           AgentReturns, BrServes
  <2>. QED
    BY <1>1, <2>1, <2>2, Zenon
<1>. QED
  BY <1>2, <1>3, <1>4, <1>5, <1>6, <1>7, <1>8, Zenon DEF Submit, TransportStep, ServeStep

-----------------------------------------------------------------------------
(* The tool threads.                                                         *)

\* What a tool thread leaves alone.
LEMMA BrToolFrame ==
    ASSUME BrInv, NEW k \in Tools, ToolStarts(k) \/ InteractionStep(k)
    PROVE  /\ UNCHANGED <<transport, current, control, serve, fatals, closed>>
           /\ BrTransportOK' /\ BrRunnerOK' /\ BrServeOK' /\ BrSequencesOK'
           /\ BrServed' /\ BrQueue' /\ BrEnded'
<1>1. /\ UNCHANGED <<transport, current, control, serve, fatals, closed>>
      /\ UNCHANGED <<commands, queued, pendingSteers, ended, sent>>
  BY Zenon
     DEF ToolStarts, InteractionStep, Register, RegisterWith, SetApproval, Announce, TakeAnswer,
         Unregister, Release, runnerVars, inputVars
<1>2. BrTransportOK' /\ BrRunnerOK' /\ BrServeOK' /\ BrSequencesOK'
  BY <1>1, Zenon DEF BrInv, BrTypeOK, BrTransportOK, BrRunnerOK, BrServeOK, BrSequencesOK
<1>3. BrServed' /\ BrQueue'
  BY <1>1, Zenon DEF BrInv, BrServed, BrQueue
<1>4. BrEnded'
  BY <1>1, Zenon DEF BrInv, BrEnded
<1>. QED
  BY <1>1, <1>2, <1>3, <1>4, Zenon

\* What a tool thread has to keep, and what the rest follows from.
LEMMA BrToolKeeps ==
    ASSUME BrInv, NEW k \in Tools, ToolStarts(k) \/ InteractionStep(k),
           BrToolOK', BrWaitersOK', BrLock', BrBound', BrShown', BrCancelled'
    PROVE  BrInv'
  BY BrToolFrame, Zenon DEF BrInv, BrTypeOK

\* A tool that asks has the lock alone, and the turn is running.
LEMMA BrAlone ==
    ASSUME BrInv, NEW k \in Tools, tool[k].pc \in BrAsking
    PROVE  /\ holder = k /\ serve.pc = "running" /\ tool[k].req \in 1..requests
           /\ tool[k].req \in Requests
           /\ \A j \in Tools : j # k => tool[j].pc \notin BrAsking
           /\ \A q \in Requests : waiters[q] # None => q = tool[k].req /\ tool[k].pc \in BrOpen
<1>1. holder = k /\ serve.pc = "running" /\ tool[k].req \in 1..requests
  BY Zenon DEF BrInv, BrLock, BrAsking
<1>2. tool[k].req \in Requests
  BY <1>1, BrBoundFacts, BoundsAssumption DEF Requests
<1>. QED
  BY <1>1, <1>2, Zenon DEF BrInv, BrLock

\* While a tool goes on asking, its thread being the only one that moves, the lock and
\* the request ids are as they were.
LEMMA BrGoesOn ==
    ASSUME BrInv, NEW k \in Tools, ToolStarts(k) \/ InteractionStep(k),
           BrToolOK', UNCHANGED <<holder, requests>>,
           tool[k].pc \in BrOpen, tool'[k].pc \in BrOpen, tool'[k].req = tool[k].req,
           \A j \in Tools : j # k => tool'[j] = tool[j],
           \A q \in Requests : /\ waiters'[q] # None <=> waiters[q] # None
                               /\ waiters[q] # None => waiters'[q].turn = waiters[q].turn
    PROVE  BrLock' /\ BrBound'
<1>1. tool[k].pc \in BrAsking /\ tool'[k].pc \in BrAsking
  BY Zenon DEF BrOpen
<1>2. UNCHANGED <<current, serve>>
  BY BrToolFrame, Zenon
<1>3. /\ holder = k /\ serve.pc = "running" /\ tool[k].req \in 1..requests
      /\ \A j \in Tools : j # k => tool[j].pc \notin BrAsking
      /\ tool[k].req \in Requests
  BY <1>1, BrAlone, Zenon
<1>4. BrWanting' = BrWanting
  BY <1>1, Zenon DEF BrWanting, BrAsking
<1>5. BrBound'
  BY <1>4, Zenon DEF BrInv, BrBound
<1>6. \A j \in Tools : tool'[j].pc \in BrAsking <=> j = k
  BY <1>1, <1>3, Zenon
<1>7. \A j \in Tools : tool'[j].pc # "off" => serve'.pc = "running"
  BY <1>2, <1>3, Zenon
<1>8. \A q \in Requests : waiters'[q] # None =>
         q <= requests /\ waiters'[q].turn = current /\ q = tool[k].req
  BY <1>3, Zenon DEF BrInv, BrLock
<1>9. waiters'[tool[k].req] # None
  BY <1>3, Zenon DEF BrInv, BrLock
<1>. QED
  BY <1>2, <1>3, <1>5, <1>6, <1>7, <1>8, <1>9, Zenon DEF BrLock, BrOpen

\* The agent starts a tool that will ask.
LEMMA BrToolStarts ==
    ASSUME BrInv, NEW k \in Tools, ToolStarts(k)
    PROVE  BrInv'
<1>1. /\ BrToolOK' /\ tool[k].pc = "off" /\ tool'[k].pc = "wants"
      /\ \A j \in Tools : j # k => tool'[j] = tool[j]
  BY BrToolStep, Zenon DEF ToolStarts, BrInv, BrTypeOK, BrToolOK
<1>2. /\ UNCHANGED <<holder, requests, waiters, phase, approval, shown, transport, control>>
      /\ UNCHANGED <<current, serve, fatals>> /\ serve.pc = "running"
  BY BrToolFrame, Zenon DEF ToolStarts, stateVars
<1>3. BrLock'
  BY <1>1, <1>2, Zenon DEF BrInv, BrLock, BrAsking, BrOpen
<1>4. BrBound'
  <2>1. BrWanting' = BrWanting \cup {k} /\ k \notin BrWanting
    BY <1>1, Zenon DEF BrWanting
  <2>2. Cardinality(BrWanting') = Cardinality(BrWanting) + 1
    BY <2>1, BrBoundFacts, FS_AddElement, Zenon
  <2>3. requests + Cardinality(BrWanting) < MaxRequests
    BY Zenon DEF ToolStarts, BrWanting
  <2>. QED
    BY <1>2, <2>2, <2>3, BrBoundFacts, BoundsAssumption DEF BrBound
<1>5. BrShown'
  BY <1>1, <1>2, Zenon DEF BrInv, BrShown
<1>6. BrCancelled'
  BY <1>2, Zenon DEF BrInv, BrCancelled, BrGivenCancelled
<1>7. BrWaitersOK'
  BY <1>2, Zenon DEF BrInv, BrTypeOK, BrWaitersOK
<1>. QED
  BY <1>1, <1>3, <1>4, <1>5, <1>6, <1>7, BrToolKeeps, Zenon

\* A tool takes the lock and registers its request.
LEMMA BrRegister ==
    ASSUME BrInv, NEW k \in Tools, Register(k)
    PROVE  BrInv'
<1>. DEFINE q == requests + 1
            queue == IF closed \/ control.cancelled THEN <<"cancelled">> ELSE <<>>
            waiter == [turn |-> current, queue |-> queue]
<1>1. /\ tool[k].pc = "wants" /\ holder = None /\ holder' = k /\ requests' = q
      /\ tool' = [tool EXCEPT ![k] = [pc |-> "registered", req |-> q, cancelled |-> FALSE]]
      /\ waiters' = [waiters EXCEPT ![q] = waiter]
      /\ UNCHANGED <<phase, approval, shown>>
  BY Zenon DEF Register, RegisterWith, stateVars
<1>2. UNCHANGED <<transport, current, control, serve, fatals, closed>>
  BY BrToolFrame, Zenon DEF InteractionStep
<1>3. /\ \A j \in Tools : tool[j].pc \notin BrAsking
      /\ \A r \in Requests : waiters[r] = None
      /\ serve.pc = "running" /\ current = serve.turn /\ current # None
  BY <1>1, NoneAssumption, Zenon DEF BrInv, BrLock, BrServed
<1>4. BrWanting' = BrWanting \ {k} /\ k \in BrWanting
  BY <1>1, Zenon DEF BrWanting, BrInv, BrTypeOK, BrToolOK
<1>5. Cardinality(BrWanting') = Cardinality(BrWanting) - 1 /\ Cardinality(BrWanting') \in Nat
  BY <1>4, BrBoundFacts, FS_RemoveElement, FS_CardinalityType, Zenon
<1>6. requests \in Nat /\ q \in Requests /\ BrBound'
  <2>1. BrBound /\ requests \in Nat /\ q = requests + 1
    BY Zenon DEF BrInv, BrTypeOK, BrToolOK
  <2>. QED
    BY <1>1, <1>5, <2>1, BrBoundFacts, BoundsAssumption DEF BrBound, Requests
<1>7. queue \in Seq(Answers) /\ current \in Turns \cup {None}
  <2>1. <<"cancelled">> \in Seq(Answers) /\ <<>> \in Seq(Answers)
    BY DEF Answers
  <2>2. queue = <<"cancelled">> \/ queue = <<>>
    BY Zenon
  <2>3. current \in Turns \cup {None}
    BY Zenon DEF BrInv, BrTypeOK, BrRunnerOK
  <2>4. queue \in Seq(Answers)
    BY <2>1, <2>2, Zenon
  <2>. QED
    BY <2>3, <2>4, Zenon
<1>8. control.cancelled = TRUE \/ queue = <<>>
  BY <1>3, Zenon DEF BrInv, BrServed, BrTypeOK, BrRunnerOK, BrControls
<1>. HIDE DEF queue
<1>9. waiter \in Waiters /\ waiter.turn = current /\ waiter.queue = queue
  BY <1>7, Zenon DEF Waiters
<1>10. waiter # None
  BY <1>9, NoneAssumption, Zenon
<1>. HIDE DEF waiter
<1>11. /\ tool'[k].pc = "registered" /\ tool'[k].req = q
       /\ \A j \in Tools : j # k => tool'[j] = tool[j]
       /\ waiters'[q] = waiter /\ \A r \in Requests : r # q => waiters'[r] = None
  BY <1>1, <1>3, <1>6, Zenon DEF BrInv, BrTypeOK, BrToolOK, BrWaitersOK
<1>12. BrToolOK'
  <2>1. [pc |-> "registered", req |-> q, cancelled |-> FALSE] \in BrToolStates
    BY <1>6 DEF BrToolStates, BrAsking, Requests
  <2>2. requests' \in Nat
    BY <1>1, <1>6
  <2>. QED
    BY <1>1, <2>1, <2>2, Zenon DEF BrInv, BrTypeOK, BrToolOK
<1>13. BrWaitersOK'
  BY <1>1, <1>6, <1>9, Zenon DEF BrInv, BrTypeOK, BrWaitersOK
<1>14. BrLock'
  <2>1. \A j \in Tools : tool'[j].pc \in BrAsking <=> j = k
    BY <1>3, <1>11, Zenon DEF BrAsking
  <2>2. \A r \in Requests : waiters'[r] # None <=> r = q
    BY <1>6, <1>11, <1>10, Zenon
  <2>3. q \in 1..requests' /\ q <= requests' /\ "registered" \in BrOpen
    BY <1>1, <1>6 DEF BrOpen, BrAsking
  <2>4. \A j \in Tools : tool'[j].pc \in BrAsking =>
           tool'[j].req \in 1..requests' /\ waiters'[tool'[j].req] # None
    BY <1>6, <1>11, <2>1, <2>2, <2>3, Zenon
  <2>5. \A r \in Requests : waiters'[r] # None =>
           /\ r <= requests' /\ waiters'[r].turn = current'
           /\ holder' \in Tools /\ tool'[holder'].pc \in BrOpen /\ tool'[holder'].req = r
    BY <1>1, <1>2, <1>9, <1>11, <2>2, <2>3, Zenon
  <2>. HIDE DEF q
  <2>. QED
    BY <1>1, <1>2, <1>3, <2>1, <2>4, <2>5, Zenon DEF BrLock, BrOpen
<1>15. BrShown'
  <2>1. holder' # None
    BY <1>1, NoneAssumption, Zenon
  <2>2. \A j \in Tools : tool'[j].pc \notin {"announcing", "waiting", "unregistered"}
    BY <1>3, <1>11, Zenon DEF BrAsking
  <2>. QED
    BY <2>1, <2>2, Zenon DEF BrShown
<1>16. BrCancelled'
  <2>1. ASSUME NEW r \in Requests, waiters'[r] # None, BrGivenCancelled(r)'
        PROVE  control'.cancelled = TRUE
    <3>1. r = q /\ waiters'[r].queue = queue
      BY <1>11, <1>9, <2>1, Zenon
    <3>2. queue # <<>>
      BY <2>1, <3>1 DEF BrGivenCancelled
    <3>. QED
      BY <1>2, <1>8, <3>2, Zenon
  <2>2. ASSUME transport.op = "stopping", NEW r \in transport.reqs
        PROVE  r <= requests' /\ waiters'[r] = None
    <3>1. r \in Requests /\ r <= requests
      BY <2>2, Zenon DEF BrInv, BrTypeOK, BrTransportOK, BrTransports, BrCancelled
    <3>2. r <= q /\ r # q
      BY <1>6, <3>1, BoundsAssumption DEF Requests
    <3>. QED
      BY <1>1, <1>11, <3>1, <3>2, Zenon
  <2>3. transport.op = "unblock" =>
           transport.turn # None /\ (transport.turn = current => control.cancelled = TRUE)
    BY Zenon DEF BrInv, BrCancelled
  <2>. QED
    BY <1>2, <2>1, <2>2, <2>3, Zenon DEF BrCancelled
<1>. QED
  BY <1>6, <1>12, <1>13, <1>14, <1>15, <1>16, BrToolKeeps, Zenon DEF InteractionStep

\* The request is set (_approval or _question).
LEMMA BrSetApproval ==
    ASSUME BrInv, NEW k \in Tools, SetApproval(k)
    PROVE  BrInv'
<1>1. /\ BrToolOK' /\ tool[k].pc = "registered" /\ tool'[k].pc = "announcing"
      /\ tool'[k].req = tool[k].req
      /\ \A j \in Tools : j # k => tool'[j] = tool[j]
  BY BrToolStep, Zenon DEF SetApproval, BrInv, BrTypeOK, BrToolOK, BrAsking
<1>2. /\ UNCHANGED <<holder, requests, waiters, phase, shown, transport, control, current>>
      /\ UNCHANGED fatals /\ approval' = tool[k].req
  BY BrToolFrame, Zenon DEF SetApproval, InteractionStep
<1>3. BrLock' /\ BrBound'
  BY <1>1, <1>2, BrGoesOn, Zenon DEF InteractionStep, BrOpen, BrAsking
<1>4. holder = k /\ \A j \in Tools : j # k => tool[j].pc \notin BrAsking
  BY <1>1, BrAlone, Zenon DEF BrAsking
<1>5. BrShown'
  BY <1>1, <1>2, <1>4, NoneAssumption, Zenon DEF BrShown, BrAsking
<1>6. BrCancelled'
  BY <1>2, Zenon DEF BrInv, BrCancelled, BrGivenCancelled
<1>7. BrWaitersOK'
  BY <1>2, Zenon DEF BrInv, BrTypeOK, BrWaitersOK
<1>. QED
  BY <1>1, <1>3, <1>5, <1>6, <1>7, BrToolKeeps, Zenon DEF InteractionStep

\* The waiting state and the request are emitted.
LEMMA BrAnnounce ==
    ASSUME BrInv, NEW k \in Tools, Announce(k)
    PROVE  BrInv'
<1>1. /\ BrToolOK' /\ tool[k].pc = "announcing" /\ tool'[k].pc = "waiting"
      /\ tool'[k].req = tool[k].req
      /\ \A j \in Tools : j # k => tool'[j] = tool[j]
  BY BrToolStep, Zenon DEF Announce, BrInv, BrTypeOK, BrToolOK, BrAsking
<1>2. /\ UNCHANGED <<holder, requests, waiters, approval, transport, control, current, fatals>>
      /\ phase' = "waiting" /\ shown'.phase = "waiting" /\ shown'.approval = approval
  BY BrToolFrame, Zenon DEF Announce, InteractionStep, Snapshot
<1>3. BrLock' /\ BrBound'
  BY <1>1, <1>2, BrGoesOn, Zenon DEF InteractionStep, BrOpen, BrAsking
<1>4. holder = k /\ \A j \in Tools : j # k => tool[j].pc \notin BrAsking
  BY <1>1, BrAlone, Zenon DEF BrAsking
<1>5. BrShown'
  <2>1. fatals = 0 => approval = tool[k].req
    BY <1>1, Zenon DEF BrInv, BrShown
  <2>. QED
    BY <1>1, <1>2, <1>4, <2>1, NoneAssumption, Zenon DEF BrShown, BrAsking
<1>6. BrCancelled'
  BY <1>2, Zenon DEF BrInv, BrCancelled, BrGivenCancelled
<1>7. BrWaitersOK'
  BY <1>2, Zenon DEF BrInv, BrTypeOK, BrWaitersOK
<1>. QED
  BY <1>1, <1>3, <1>5, <1>6, <1>7, BrToolKeeps, Zenon DEF InteractionStep

\* An answer is taken from the queue of the request.
LEMMA BrTakeAnswer ==
    ASSUME BrInv, NEW k \in Tools, TakeAnswer(k)
    PROVE  BrInv'
<1>. DEFINE q == tool[k].req
            queue == waiters[q].queue
            new == [tool[k] EXCEPT !.pc = IF Head(queue) = "invalid" THEN @ ELSE "leaving",
                                   !.cancelled = Head(queue) = "cancelled"]
            waiter == [waiters[q] EXCEPT !.queue = Tail(queue)]
<1>1. /\ tool[k].pc = "waiting" /\ queue # <<>>
      /\ tool' = [tool EXCEPT ![k] = new] /\ waiters' = [waiters EXCEPT ![q] = waiter]
      /\ UNCHANGED <<holder, requests, phase, approval, shown>>
  BY Zenon DEF TakeAnswer, stateVars
<1>2. UNCHANGED <<transport, control, current, fatals>>
  BY BrToolFrame, Zenon DEF InteractionStep
<1>3. /\ tool[k] \in BrToolStates /\ q \in Requests /\ waiters[q] # None /\ waiters[q] \in Waiters
  BY <1>1, BrRegistered, Zenon DEF BrInv, BrTypeOK, BrToolOK, BrWaitersOK, BrOpen, BrAsking
<1>4. new \in BrToolStates /\ new.pc \in {"waiting", "leaving"} /\ new.req = q
  BY <1>1, <1>3, Zenon DEF BrToolStates, BrAsking
<1>5. queue \in Seq(Answers) /\ Tail(queue) \in Seq(Answers)
  <2>1. queue \in Seq(Answers)
    BY <1>3, Zenon DEF Waiters
  <2>. QED
    BY <1>1, <2>1
<1>. HIDE DEF q
<1>6. waiter \in Waiters /\ waiter.turn = waiters[q].turn /\ waiter.queue = Tail(queue)
  BY <1>3, <1>5, Zenon DEF Waiters
<1>7. waiter # None
  BY <1>6, NoneAssumption, Zenon
<1>. HIDE DEF new, waiter
<1>8. /\ tool'[k].pc \in {"waiting", "leaving"} /\ tool'[k].req = q
      /\ \A j \in Tools : j # k => tool'[j] = tool[j]
      /\ waiters'[q] = waiter /\ \A r \in Requests : r # q => waiters'[r] = waiters[r]
  BY <1>1, <1>3, <1>4, Zenon DEF BrInv, BrTypeOK, BrToolOK, BrWaitersOK
<1>9. BrToolOK'
  BY <1>1, <1>4, Zenon DEF BrInv, BrTypeOK, BrToolOK
<1>10. BrWaitersOK'
  BY <1>1, <1>6, Zenon DEF BrInv, BrTypeOK, BrWaitersOK
<1>11. \A r \in Requests : /\ waiters'[r] # None <=> waiters[r] # None
                           /\ waiters[r] # None => waiters'[r].turn = waiters[r].turn
  BY <1>3, <1>6, <1>7, <1>8, Zenon
<1>. USE DEF q
<1>12. BrLock' /\ BrBound'
  BY <1>1, <1>8, <1>9, <1>11, BrGoesOn, Zenon DEF InteractionStep, BrOpen, BrAsking
<1>13. BrShown'
  <2>1. holder = k /\ \A j \in Tools : j # k => tool[j].pc \notin BrAsking
    BY <1>1, BrAlone, Zenon DEF BrAsking
  <2>. QED
    <3>1. fatals' = 0 => approval = q /\ phase = "waiting" /\ shown.approval = q
                         /\ shown.phase = "waiting"
      BY <1>1, <1>2, Zenon DEF BrInv, BrShown
    <3>. HIDE DEF q
    <3>. QED
      BY <1>1, <1>2, <1>8, <2>1, <3>1, NoneAssumption, Zenon DEF BrShown, BrAsking
<1>14. BrCancelled'
  <2>1. ASSUME NEW r \in Requests, waiters'[r] # None, BrGivenCancelled(r)'
        PROVE  waiters[r] # None /\ BrGivenCancelled(r)
    <3>1. CASE r = q
      <4>1. PICK i \in 1..Len(Tail(queue)) : Tail(queue)[i] = "cancelled"
        BY <1>6, <1>8, <2>1, <3>1, Zenon DEF BrGivenCancelled
      <4>2. i + 1 \in 1..Len(queue) /\ queue[i + 1] = "cancelled"
        <5>. HIDE DEF queue
        <5>. QED
          BY <1>1, <1>5, <4>1
      <4>. QED
        BY <1>3, <3>1, <4>2, Zenon DEF BrGivenCancelled
    <3>2. CASE r # q
      BY <1>8, <2>1, <3>2, Zenon DEF BrGivenCancelled
    <3>. QED
      BY <3>1, <3>2, Zenon
  <2>2. ASSUME transport.op = "stopping", NEW r \in transport.reqs
        PROVE  r <= requests /\ (waiters'[r] # None => control.cancelled = TRUE)
    BY <1>11, <2>2, Zenon DEF BrInv, BrCancelled, BrTypeOK, BrTransportOK, BrTransports
  <2>. QED
    BY <1>1, <1>2, <2>1, <2>2, Zenon DEF BrInv, BrCancelled
<1>. QED
  BY <1>9, <1>10, <1>12, <1>13, <1>14, BrToolKeeps, Zenon DEF InteractionStep

\* The finally: the request is taken back.
LEMMA BrUnregister ==
    ASSUME BrInv, NEW k \in Tools, Unregister(k)
    PROVE  BrInv'
<1>. DEFINE q == tool[k].req
<1>1. /\ BrToolOK' /\ tool[k].pc = "leaving" /\ tool'[k].pc = "unregistered" /\ tool'[k].req = q
      /\ \A j \in Tools : j # k => tool'[j] = tool[j]
  BY BrToolStep, Zenon DEF Unregister, BrInv, BrTypeOK, BrToolOK, BrAsking
<1>2. /\ UNCHANGED <<holder, requests, shown, transport, control, current, serve, fatals>>
      /\ approval' = 0 /\ waiters' = [waiters EXCEPT ![q] = None]
  BY BrToolFrame, Zenon DEF Unregister, InteractionStep
<1>3. /\ holder = k /\ serve.pc = "running" /\ q \in 1..requests /\ q \in Requests
      /\ \A j \in Tools : j # k => tool[j].pc \notin BrAsking
      /\ \A r \in Requests : waiters[r] # None => r = q
  BY <1>1, BrAlone, Zenon DEF BrAsking
<1>. HIDE DEF q
<1>4. \A r \in Requests : waiters'[r] = None
  BY <1>2, <1>3, Zenon DEF BrInv, BrTypeOK, BrWaitersOK
<1>5. BrWaitersOK'
  BY <1>2, Zenon DEF BrInv, BrTypeOK, BrWaitersOK
<1>6. BrLock'
  <2>1. \A j \in Tools : (tool'[j].pc \in BrAsking <=> j = k) /\ tool'[j].pc \notin BrOpen
    BY <1>1, <1>3, Zenon DEF BrAsking, BrOpen
  <2>. QED
    BY <1>1, <1>2, <1>3, <1>4, <2>1, Zenon DEF BrLock
<1>7. BrBound'
  <2>1. BrWanting' = BrWanting
    BY <1>1, Zenon DEF BrWanting
  <2>. QED
    BY <1>2, <2>1, Zenon DEF BrInv, BrBound
<1>8. BrShown'
  BY <1>1, <1>2, <1>3, NoneAssumption, Zenon DEF BrShown, BrAsking
<1>9. BrCancelled'
  BY <1>2, <1>4, Zenon DEF BrInv, BrCancelled, BrTypeOK, BrTransportOK, BrTransports
<1>. QED
  BY <1>1, <1>5, <1>6, <1>7, <1>8, <1>9, BrToolKeeps, Zenon DEF InteractionStep

\* The running state is emitted and the lock released.
LEMMA BrRelease ==
    ASSUME BrInv, NEW k \in Tools, Release(k)
    PROVE  BrInv'
<1>. DEFINE new == [pc |-> "off", req |-> 0, cancelled |-> FALSE]
<1>1. /\ tool[k].pc = "unregistered" /\ tool' = [tool EXCEPT ![k] = new] /\ holder' = None
      /\ UNCHANGED <<requests, waiters, approval>>
      /\ phase' = "running" /\ shown'.phase = "running" /\ shown'.approval = approval
  BY Zenon DEF Release, Snapshot
<1>2. UNCHANGED <<transport, control, current, serve, fatals>>
  BY BrToolFrame, Zenon DEF InteractionStep
<1>3. new \in BrToolStates /\ new.pc = "off"
  BY Zenon DEF BrToolStates
<1>. HIDE DEF new
<1>4. tool'[k].pc = "off" /\ \A j \in Tools : j # k => tool'[j] = tool[j]
  BY <1>1, <1>3, Zenon DEF BrInv, BrTypeOK, BrToolOK
<1>5. /\ serve.pc = "running" /\ \A j \in Tools : j # k => tool[j].pc \notin BrAsking
      /\ \A r \in Requests : waiters[r] = None
  BY <1>1, BrAlone, Zenon DEF BrAsking, BrOpen
<1>6. \A j \in Tools : tool'[j].pc \notin BrAsking
  BY <1>4, <1>5, Zenon DEF BrAsking
<1>7. BrToolOK'
  BY <1>1, <1>3, Zenon DEF BrInv, BrTypeOK, BrToolOK
<1>8. BrWaitersOK'
  BY <1>1, Zenon DEF BrInv, BrTypeOK, BrWaitersOK
<1>9. BrLock'
  BY <1>1, <1>2, <1>5, <1>6, NoneAssumption, Zenon DEF BrLock, BrOpen
<1>10. BrBound'
  <2>1. BrWanting' = BrWanting
    BY <1>1, <1>4, Zenon DEF BrWanting
  <2>. QED
    BY <1>1, <2>1, Zenon DEF BrInv, BrBound
<1>11. BrShown'
  <2>1. fatals = 0 => approval = 0
    BY <1>1, Zenon DEF BrInv, BrShown
  <2>. QED
    BY <1>1, <1>2, <1>6, <2>1, Zenon DEF BrShown, BrAsking
<1>12. BrCancelled'
  BY <1>1, <1>2, Zenon DEF BrInv, BrCancelled, BrGivenCancelled
<1>. QED
  BY <1>7, <1>8, <1>9, <1>10, <1>11, <1>12, BrToolKeeps, Zenon DEF InteractionStep

-----------------------------------------------------------------------------
(* The theorem.                                                              *)

\* The invariant holds when the session has been opened.
LEMMA BrInvInit == Init => BrInv
<1>. SUFFICES ASSUME Init PROVE BrInv
  BY Zenon
<1>1. BrTransportOK /\ BrServeOK
  BY Zenon DEF Init, BrTransportOK, BrServeOK, Ready, BrTransports, BrServes
<1>2. commands = <<>> /\ ended = <<>>
  BY Zenon DEF Init
<1>3. BrSequencesOK
  BY <1>2 DEF BrSequencesOK
<1>4. BrRunnerOK
  BY Zenon DEF Init, BrRunnerOK, NoControl, BrControls
<1>5. BrToolOK /\ BrWaitersOK
  BY Zenon DEF Init, BrToolOK, BrWaitersOK, BrToolStates
<1>6. BrLock /\ BrShown /\ BrServed
  BY NoneAssumption, Zenon DEF Init, BrLock, BrShown, BrServed, BrAsking, BrOpen, NoControl
<1>7. BrBound
  <2>1. BrWanting = {}
    BY Zenon DEF Init, BrWanting
  <2>2. Cardinality(BrWanting) = 0 /\ requests = 0 /\ MaxRequests \in Nat
    BY <2>1, FS_EmptySet, BoundsAssumption, Zenon DEF Init
  <2>. QED
    BY <2>2 DEF BrBound
<1>8. BrCancelled
  BY Zenon DEF Init, BrCancelled, Ready
<1>9. BrQueue /\ BrEnded
  <2>1. queued = {} /\ current = None /\ serve.turn = None /\ transport.op = "ready"
    BY Zenon DEF Init, Ready
  <2>2. 1..Len(commands) = {} /\ 1..Len(ended) = {}
    BY <1>2
  <2>3. BrQueue
    BY <2>1, <2>2, Zenon DEF BrQueue
  <2>4. BrEnded
    BY <2>1, <2>2, Zenon DEF BrEnded
  <2>. QED
    BY <2>3, <2>4, Zenon
<1>. QED
  BY <1>1, <1>3, <1>4, <1>5, <1>6, <1>7, <1>8, <1>9, Zenon DEF BrInv, BrTypeOK

\* Every step keeps it.
LEMMA BrInvStep == BrInv /\ [Next]_vars => BrInv'
<1>. SUFFICES ASSUME BrInv, [Next]_vars PROVE BrInv'
  BY Zenon
<1>1. CASE Submit \/ TransportStep \/ ServeStep
  BY <1>1, BrTransportOKKept, BrRunnerOKKept, BrServeOKKept, BrSequencesOKKept, BrToolOKKept,
     BrWaitersOKKept, BrLockKept, BrBoundKept, BrShownKept, BrServedKept, BrCancelledKept,
     BrQueueKept, BrEndedKept, Zenon
     DEF BrInv, BrTypeOK
<1>2. ASSUME NEW k \in Tools, ToolStarts(k) \/ InteractionStep(k) PROVE BrInv'
  BY <1>2, BrToolStarts, BrRegister, BrSetApproval, BrAnnounce, BrTakeAnswer, BrUnregister,
     BrRelease, Zenon
     DEF InteractionStep
<1>3. CASE UNCHANGED vars
  <2>. USE <1>3 DEF vars, runnerVars, stateVars, inputVars, BrInv
  <2>1. BrTypeOK'
    BY Zenon
       DEF BrTypeOK, BrTransportOK, BrRunnerOK, BrServeOK, BrSequencesOK, BrToolOK, BrWaitersOK
  <2>2. BrLock' /\ BrBound' /\ BrShown'
    BY Zenon DEF BrLock, BrBound, BrWanting, BrShown
  <2>3. BrServed' /\ BrCancelled' /\ BrQueue' /\ BrEnded'
    BY Zenon DEF BrServed, BrCancelled, BrGivenCancelled, BrQueue, BrEnded
  <2>. QED
    BY <2>1, <2>2, <2>3, Zenon
<1>. QED
  BY <1>1, <1>2, <1>3, Zenon DEF Next

\* The invariant says what the Bridge promises.
LEMMA BrInvImplies == BrInv => BridgeSound
<1>. SUFFICES ASSUME BrInv PROVE BridgeSound
  BY Zenon
<1>1. ShownIsOpen
  BY Zenon DEF BrInv, BrShown, ShownIsOpen
<1>2. CancelHitsItsTurn
  <2>1. ASSUME NEW q \in Outstanding,
               NEW i \in DOMAIN waiters[q].queue, waiters[q].queue[i] = "cancelled"
        PROVE  waiters[q].turn = current /\ control.cancelled
    <3>1. q \in Requests /\ waiters[q] # None
      BY Zenon DEF Outstanding
    <3>2. waiters[q].queue \in Seq(Answers)
      BY <3>1, Zenon DEF BrInv, BrTypeOK, BrWaitersOK, Waiters
    <3>3. BrGivenCancelled(q)
      BY <2>1, <3>2 DEF BrGivenCancelled
    <3>. QED
      BY <3>1, <3>3, Zenon DEF BrInv, BrLock, BrCancelled
  <2>. QED
    BY <2>1, Zenon DEF CancelHitsItsTurn
<1>3. TerminalIsLast
  <2>1. ended \in Seq(Turns) /\ DOMAIN ended = 1..Len(ended)
    BY DEF BrInv, BrTypeOK, BrSequencesOK
  <2>2. \A q \in Outstanding : waiters[q].turn = current
    BY Zenon DEF BrInv, BrLock, Outstanding
  <2>. QED
    BY <2>1, <2>2, Zenon DEF BrInv, BrEnded, TerminalIsLast
<1>. QED
  BY <1>1, <1>2, <1>3, Zenon DEF BridgeSound

\* In every behaviour of a Bridge with its session open the last snapshot shows what
\* is being asked, Cancelled is only given to requests of the turn that was cancelled,
\* and a turn ends once, with nothing of it left (bridge.py, turn_runner.py).
THEOREM BridgeTurnSound == Spec => []BridgeSound
  BY BrInvInit, BrInvStep, BrInvImplies, PTL DEF Spec
=============================================================================
