------------------------------ MODULE ToolsProofs ------------------------------
(***************************************************************************)
(* Proofs about what tools reach outside the agent, for every value of the *)
(* constants: the commands of the shell tools are sound (ExeSound), the    *)
(* manager of MCP clients is sound (McpSound), and the desktop is left     *)
(* clean and obeys a parked pointer (DeskSound).  The three components     *)
(* share no variable and no definition; each part below has its inductive  *)
(* invariant, its lemmas and its theorem.                                  *)
(***************************************************************************)
EXTENDS Execution, McpClients, Computer, TLAPS

-----------------------------------------------------------------------------
(***************************************************************************)
(* Proof that commands are sound (ExeSound), for every set of calls,       *)
(* hooks, scopes and number of replies under way: a command outside its    *)
(* unattended scope runs on the answer to its own prompt, and a call that  *)
(* is over leaves nothing behind.                                          *)
(***************************************************************************)

ExePlaces == {"new", "resolve", "authorize", "asking", "ready", "running", "collect",
              "result", "over"}

ExeRecord == [at : ExePlaces, stage : {"pre", "tool", "post"}, auto : BOOLEAN, id : Nat,
              ran : BOOLEAN, proc : BOOLEAN, spool : BOOLEAN, hook : BOOLEAN]

\* The types of the variables.
ExeTypeOK ==
    /\ exeCall \in [ExeCalls -> ExeRecord]
    /\ exeWaiter \in [id : Nat, got : {"nothing", "approved", "denied", "cancelled"}]
    /\ exeIds \in Nat
    /\ exeReplies \subseteq [id : Nat, ok : BOOLEAN]

\* What a call holds belongs to its place.
ExeHolds(r) ==
    /\ r.proc => r.at = "running"
    /\ r.spool => r.at \in {"running", "collect", "result"}
    /\ r.hook => r.at # "over"

\* One call asks at a time: it holds the lock, and the registered prompt is its own.
ExeAsking(r, c) ==
    /\ r.at = "asking" <=> exeHolder = c
    /\ r.at = "asking" => r.id = exeWaiter.id

\* The command was agreed to, or needed no agreement.
ExeAllowed(r) == r.at \in {"ready", "running", "collect"} => r.auto \/ r.id \in exeAgreed

\* An approval that is under way or was delivered is one the user gave.
ExeApproved ==
    /\ \A reply \in exeReplies : reply.ok => reply.id \in exeAgreed
    /\ exeWaiter.got = "approved" => exeWaiter.id \in exeAgreed

\* The inductive invariant.
ExeInv ==
    /\ ExeTypeOK
    /\ ExeApproved
    /\ \A c \in ExeCalls : /\ ExeHolds(exeCall[c])
                           /\ ExeAsking(exeCall[c], c)
                           /\ ExeAllowed(exeCall[c])

\* The inductive invariant holds before the first call (ExeInit).
LEMMA ExeInvInit == ExeInit => ExeInv
  BY ExeAssumption DEF ExeInit, ExeInv, ExeTypeOK, ExeApproved, ExeHolds, ExeAsking, ExeAllowed,
     ExeRecord, ExePlaces, ExeNoWaiter

\* A step that gives call c the record r, and leaves the prompt and the user alone,
\* keeps the invariant when the record does.
LEMMA ExeOneCall ==
    ASSUME ExeInv, NEW c \in ExeCalls, NEW r \in ExeRecord, ExeUpdate(c, r),
           UNCHANGED <<exePromptVars, exeUserVars>>,
           ExeHolds(r), ExeAsking(r, c), ExeAllowed(r)
    PROVE  ExeInv'
<1>1. exeCall' = [exeCall EXCEPT ![c] = r]
  BY DEF ExeUpdate
<1>2. exeCall \in [ExeCalls -> ExeRecord]
  BY DEF ExeInv, ExeTypeOK
<1>3. exeCall' \in [ExeCalls -> ExeRecord]
  BY <1>1, <1>2
<1>4. UNCHANGED <<exeHolder, exeWaiter, exeIds, exeReplies, exeAgreed>>
  BY DEF exePromptVars, exeUserVars
<1>5. \A d \in ExeCalls : exeCall'[d] = IF d = c THEN r ELSE exeCall[d]
  BY <1>1, <1>2
<1>6. ExeTypeOK' /\ ExeApproved'
  BY <1>3, <1>4 DEF ExeInv, ExeTypeOK, ExeApproved
<1>7. ASSUME NEW d \in ExeCalls
      PROVE  (ExeHolds(exeCall[d]) /\ ExeAsking(exeCall[d], d) /\ ExeAllowed(exeCall[d]))'
  <2>1. CASE d = c
    BY <1>4, <1>5, <2>1 DEF ExeHolds, ExeAsking, ExeAllowed
  <2>2. CASE d # c
    BY <1>4, <1>5, <2>2 DEF ExeInv, ExeHolds, ExeAsking, ExeAllowed
  <2>. QED
    BY <2>1, <2>2
<1>. QED
  BY <1>6, <1>7 DEF ExeInv

\* What a call has at the places where it holds nothing.
LEMMA ExeRecordFacts ==
    ASSUME ExeInv, NEW c \in ExeCalls
    PROVE  /\ exeCall[c] \in ExeRecord
           /\ ExeHolds(exeCall[c]) /\ ExeAsking(exeCall[c], c) /\ ExeAllowed(exeCall[c])
  BY DEF ExeInv, ExeTypeOK

\* The steps of a call that neither ask nor are answered (ToolCatalog.execute to
\* _cleanup_results).
LEMMA ExeCallSteps ==
    ASSUME ExeInv, NEW c \in ExeCalls,
           \/ ExeExecute(c) \/ ExeResolve(c) \/ ExeUnasked(c) \/ ExeLaunch(c) \/ ExeEnds(c)
           \/ ExeKill(c) \/ ExeCollect(c) \/ ExePreAnswer(c) \/ ExeCommit(c) \/ ExePostAnswer(c)
    PROVE  ExeInv'
<1>. DEFINE old == exeCall[c]
<1>1. old \in ExeRecord /\ ExeHolds(old) /\ ExeAsking(old, c) /\ ExeAllowed(old)
  BY ExeRecordFacts
<1>2. UNCHANGED <<exePromptVars, exeUserVars>> /\ old.at # "asking"
  BY Zenon DEF ExeExecute, ExeResolve, ExeUnasked, ExeLaunch, ExeEnds, ExeKill, ExeCollect,
         ExePreAnswer, ExeCommit, ExePostAnswer, ExeAt
<1>3. SUFFICES \E r \in {exeCall'[c]} :
        ExeUpdate(c, r) /\ r \in ExeRecord /\ ExeHolds(r) /\ r.at # "asking" /\ ExeAllowed(r)
  BY <1>1, <1>2, ExeOneCall DEF ExeAsking
<1>. exeCall \in [ExeCalls -> ExeRecord]
  BY DEF ExeInv, ExeTypeOK
<1>. USE DEF ExeHolds, ExeAllowed, ExeRecord, ExePlaces, ExeAt, ExeUpdate
<1>4. CASE ExeExecute(c)
  BY <1>1, <1>4, Zenon DEF ExeExecute, ExeOver
<1>5. CASE ExeResolve(c)
  BY <1>1, <1>5, Zenon DEF ExeResolve, ExeUnattended
<1>6. CASE ExeUnasked(c)
  BY <1>1, <1>6 DEF ExeUnasked, ExeMove
<1>7. CASE ExeLaunch(c)
  <2>1. CASE ExeUpdate(c, ExeOver(old))
    BY <1>1, <1>7, <2>1, Zenon DEF ExeLaunch, ExeOver
  <2>2. CASE ExeUpdate(c, [old EXCEPT !.ran = TRUE, !.at = "running", !.proc = TRUE, !.spool = TRUE])
    BY <1>1, <1>7, <2>2, Zenon DEF ExeLaunch
  <2>3. CASE ExeUpdate(c, ExeRefused([old EXCEPT !.ran = TRUE]))
    BY <1>1, <1>7, <2>3, Zenon DEF ExeLaunch, ExeOver, ExeRefused
  <2>. QED
    BY <1>7, <2>1, <2>2, <2>3 DEF ExeLaunch
<1>8. CASE ExeEnds(c)
  BY <1>1, <1>8, Zenon DEF ExeEnds
<1>9. CASE ExeKill(c)
  BY <1>1, <1>9, Zenon DEF ExeKill, ExeOver
<1>10. CASE ExeCollect(c)
  <2>1. ASSUME NEW large \in BOOLEAN, ExeUpdate(c, [old EXCEPT !.at = "result", !.spool = large])
        PROVE  \E r \in {exeCall'[c]} :
               ExeUpdate(c, r) /\ r \in ExeRecord /\ ExeHolds(r) /\ r.at # "asking" /\ ExeAllowed(r)
    BY <1>1, <1>10, <2>1, Zenon DEF ExeCollect
  <2>2. CASE ExeUpdate(c, ExeRefused([old EXCEPT !.spool = FALSE]))
    BY <1>1, <1>10, <2>2, Zenon DEF ExeCollect, ExeOver, ExeRefused
  <2>. QED
    BY <1>10, <2>1, <2>2, Zenon DEF ExeCollect
<1>11. CASE ExePreAnswer(c)
  <2>. DEFINE r == [old EXCEPT !.spool = FALSE, !.hook = FALSE]
  <2>1. CASE ExeUpdate(c, [r EXCEPT !.at = "resolve", !.stage = "tool", !.ran = FALSE])
    BY <1>1, <1>11, <2>1, Zenon DEF ExePreAnswer
  <2>2. CASE ExeUpdate(c, ExeOver(r))
    BY <1>1, <1>11, <2>2, Zenon DEF ExePreAnswer, ExeOver
  <2>. QED
    BY <1>11, <2>1, <2>2 DEF ExePreAnswer
<1>12. CASE ExeCommit(c)
  <2>. DEFINE r == [old EXCEPT !.spool = FALSE]
  <2>1. CASE ExeUpdate(c, ExeOver(r))
    BY <1>1, <1>12, <2>1, Zenon DEF ExeCommit, ExeOver
  <2>2. CASE ExeUpdate(c, [r EXCEPT !.at = "resolve", !.stage = "post", !.hook = TRUE])
    BY <1>1, <1>12, <2>2, Zenon DEF ExeCommit
  <2>. QED
    BY <1>12, <2>1, <2>2 DEF ExeCommit
<1>13. CASE ExePostAnswer(c)
  BY <1>1, <1>13, Zenon DEF ExePostAnswer, ExeOver
<1>. QED
  BY <1>4, <1>5, <1>6, <1>7, <1>8, <1>9, <1>10, <1>11, <1>12, <1>13

\* The prompt of a call, its answer, and the call's way on (request_permission).
LEMMA ExePromptSteps ==
    ASSUME ExeInv, NEW c \in ExeCalls, ExeRegister(c) \/ ExeAnswered(c)
    PROVE  ExeInv'
<1>. DEFINE old == exeCall[c]
<1>1. old \in ExeRecord /\ ExeHolds(old) /\ ExeAsking(old, c) /\ ExeAllowed(old)
  BY ExeRecordFacts
<1>2. exeCall \in [ExeCalls -> ExeRecord] /\ ExeApproved
  BY DEF ExeInv, ExeTypeOK
<1>3. UNCHANGED <<exeReplies, exeAgreed>>
  BY DEF ExeRegister, ExeAnswered, exeUserVars
<1>4. \A d \in ExeCalls : d # c => exeCall'[d] = exeCall[d] /\ exeHolder # d /\ exeHolder' # d
  <2>1. CASE ExeRegister(c)
    BY <1>2, <2>1, ExeAssumption DEF ExeRegister
  <2>2. CASE ExeAnswered(c)
    BY <1>1, <1>2, <2>2, ExeAssumption DEF ExeAnswered, ExeAsking, ExeAt, ExeMove, ExeUpdate
  <2>. QED
    BY <2>1, <2>2
<1>5. /\ exeCall' \in [ExeCalls -> ExeRecord]
      /\ (ExeHolds(exeCall[c]) /\ ExeAsking(exeCall[c], c) /\ ExeAllowed(exeCall[c]))'
      /\ exeWaiter' \in [id : Nat, got : {"nothing", "approved", "denied", "cancelled"}]
      /\ exeIds' \in Nat /\ exeWaiter'.got # "approved"
  <2>. USE DEF ExeHolds, ExeAsking, ExeAllowed, ExeRecord, ExePlaces, ExeAt, ExeUpdate, ExeNoWaiter
  <2>1. CASE ExeRegister(c)
    <3>1. exeIds' \in Nat /\ exeWaiter'.id = exeIds' /\ exeHolder' = c
      BY <2>1 DEF ExeRegister, ExeInv, ExeTypeOK
    <3>2. /\ exeWaiter' \in [id : Nat, got : {"nothing", "approved", "denied", "cancelled"}]
          /\ exeWaiter'.got # "approved"
      BY <2>1, <3>1 DEF ExeRegister
    <3>3. exeCall' = [exeCall EXCEPT ![c] = [old EXCEPT !.at = "asking", !.id = exeIds']]
      BY <1>2, <2>1, Zenon DEF ExeRegister
    <3>. QED
      BY <1>1, <1>2, <2>1, <3>1, <3>2, <3>3 DEF ExeRegister
  <2>2. CASE ExeAnswered(c)
    <3>1. exeHolder' = ExeNone /\ exeWaiter' = ExeNoWaiter /\ exeIds' = exeIds /\ exeIds \in Nat
      BY <2>2 DEF ExeAnswered, ExeInv, ExeTypeOK
    <3>2. CASE exeWaiter.got = "approved" /\ ExeMove(c, "ready")
      BY <1>1, <1>2, <1>3, <2>2, <3>1, <3>2, ExeAssumption DEF ExeAnswered, ExeApproved, ExeMove
    <3>. ExeNone # c /\ ~old.proc /\ ~old.spool
      BY <1>1, <2>2, ExeAssumption DEF ExeAnswered
    <3>3. CASE ExeUpdate(c, ExeOver(old))
      BY <1>1, <1>2, <3>1, <3>3, Zenon DEF ExeOver
    <3>4. CASE ExeUpdate(c, ExeRefused(old))
      <4>1. CASE old.stage = "tool"
        BY <1>1, <1>2, <3>1, <3>4, <4>1 DEF ExeRefused
      <4>. QED
        BY <3>3, <3>4, <4>1, Zenon DEF ExeRefused
    <3>. QED
      BY <2>2, <3>2, <3>3, <3>4 DEF ExeAnswered
  <2>. QED
    BY <2>1, <2>2
<1>6. ExeTypeOK' /\ ExeApproved'
  BY <1>2, <1>3, <1>5 DEF ExeInv, ExeTypeOK, ExeApproved
<1>7. ASSUME NEW d \in ExeCalls, d # c
      PROVE  (ExeHolds(exeCall[d]) /\ ExeAsking(exeCall[d], d) /\ ExeAllowed(exeCall[d]))'
  BY <1>3, <1>4, <1>7, ExeRecordFacts DEF ExeHolds, ExeAsking, ExeAllowed
<1>. QED
  BY <1>5, <1>6, <1>7 DEF ExeInv

\* The user and the bridge's router (set_permission_preset, submit, _route_cancel).
LEMMA ExeUserSteps ==
    ASSUME ExeInv,
           \/ \E p \in ExePresets : ExeSetPreset(p)
           \/ \E ok \in BOOLEAN : ExeReply(ok)
           \/ \E reply \in exeReplies : ExeRoute(reply)
           \/ ExeCancelTurn \/ ExeWake
    PROVE  ExeInv'
<1>1. UNCHANGED <<exeCall, exeHolder, exeIds>>
  BY Zenon DEF ExeSetPreset, ExeReply, ExeRoute, ExeCancelTurn, ExeWake, exePromptVars
<1>2. ExeTypeOK /\ ExeApproved
  BY DEF ExeInv
<1>3. exeAgreed \subseteq exeAgreed' /\ exeWaiter'.id = exeWaiter.id /\ ExeTypeOK' /\ ExeApproved'
  <2>1. CASE \E p \in ExePresets : ExeSetPreset(p)
    BY <1>2, <2>1 DEF ExeSetPreset, exePromptVars, ExeTypeOK, ExeApproved
  <2>2. CASE \E ok \in BOOLEAN : ExeReply(ok)
    BY <1>2, <2>2 DEF ExeReply, exePromptVars, ExeTypeOK, ExeApproved
  <2>3. CASE \E reply \in exeReplies : ExeRoute(reply)
    BY <1>2, <2>3 DEF ExeRoute, ExePut, ExeTypeOK, ExeApproved, ExeNoWaiter
  <2>4. CASE ExeCancelTurn \/ ExeWake
    BY <1>2, <2>4 DEF ExeCancelTurn, ExeWake, ExePut, exePromptVars, ExeTypeOK, ExeApproved, ExeNoWaiter
  <2>. QED
    BY <2>1, <2>2, <2>3, <2>4
<1>4. ASSUME NEW c \in ExeCalls
      PROVE  (ExeHolds(exeCall[c]) /\ ExeAsking(exeCall[c], c) /\ ExeAllowed(exeCall[c]))'
  BY <1>1, <1>3, ExeRecordFacts DEF ExeHolds, ExeAsking, ExeAllowed
<1>. QED
  BY <1>3, <1>4 DEF ExeInv

\* Every step keeps the inductive invariant (ExeNext).
LEMMA ExeInvStep == ExeInv /\ [ExeNext]_exeVars => ExeInv'
<1>1. ASSUME ExeInv, UNCHANGED exeVars
      PROVE  ExeInv'
  BY <1>1 DEF exeVars, ExeInv, ExeTypeOK, ExeApproved, ExeHolds, ExeAsking, ExeAllowed
<1>. QED
  BY <1>1, ExeCallSteps, ExePromptSteps, ExeUserSteps DEF ExeNext, ExeStep

\* A command is sound, however the prompts of several agents, late and repeated
\* answers, hooks, failures and a cancel are interleaved (approval.py, executor.py,
\* bridge.py).
THEOREM ExecutionSound == ExeSpec => []ExeSound
<1>1. ExeInv => ExeSound
  BY DEF ExeInv, ExeTypeOK, ExeRecord, ExeHolds, ExeAsking, ExeAllowed, ExeSound, ExeAnswerIsOwn,
         ExeNothingBehind, ExeAt
<1>. QED
  BY <1>1, ExeInvInit, ExeInvStep, PTL DEF ExeSpec
-----------------------------------------------------------------------------
(***************************************************************************)
(* Proof that the manager of MCP clients is sound (McpSound), for every    *)
(* sequence of servers, every set of tools they may list, every way their  *)
(* names are normalised and every set of calls.                            *)
(***************************************************************************)

McpPlaces == {"unstarted", "starting", "connecting", "collecting", "serving", "unwinding", "dead"}

\* The types of the variables the proof is about.
McpTypeOK ==
    /\ mcpThread \in McpPlaces
    /\ mcpOutcome \in [McpRange -> [state : {"pending", "failed", "listed"}, tools : SUBSET McpRemote]]
    /\ mcpNext \in Nat \ {0}
    /\ mcpSessions \subseteq McpRange
    /\ mcpQueue \in Seq(McpCalls \cup {McpStop})
    /\ mcpServing \in McpCalls \cup {McpNone}
    /\ mcpCloser \in {"open", "stopping", "joining", "left", "closed"}

\* The origins are exactly the tools of the servers with a session, each under its
\* qualified name; before the outcomes are taken there are none.
McpOrigins ==
    /\ \A q \in DOMAIN mcpOrigins :
          \E s \in mcpSessions : \E t \in mcpOutcome[s].tools :
             q = McpQualified(s, t) /\ mcpOrigins[q] = <<s, t>>
    /\ \A s \in mcpSessions : \A t \in mcpOutcome[s].tools :
          /\ McpQualified(s, t) \in DOMAIN mcpOrigins
          /\ mcpOrigins[McpQualified(s, t)] = <<s, t>>
    /\ mcpThread \in {"unstarted", "starting", "connecting"} => mcpSessions = {}

\* What is running belongs to the place of the manager's thread, and a manager that
\* is closed has none, or one that is dead.
McpRunning ==
    /\ mcpThread \in {"unstarted", "starting", "dead"} => mcpOpen = {}
    /\ mcpServing # McpNone => mcpThread = "serving"
    /\ mcpExecuting \subseteq {mcpServing} \ {McpNone}
    /\ mcpCloser = "closed" => mcpThread \in {"unstarted", "dead"}

\* The inductive invariant.
McpInv == McpTypeOK /\ McpOrigins /\ McpRunning

\* The inductive invariant holds before the start (McpClientManager.__init__).
LEMMA McpInvInit == McpInit => McpInv
<1>. SUFFICES ASSUME McpInit PROVE McpInv
  OBVIOUS
<1>1. McpTypeOK
  BY DEF McpInit, McpTypeOK, McpPlaces
<1>2. DOMAIN mcpOrigins = {} /\ mcpSessions = {}
  BY DEF McpInit
<1>3. McpOrigins
  BY <1>2 DEF McpOrigins
<1>4. McpRunning
  BY DEF McpInit, McpRunning
<1>. QED
  BY <1>1, <1>3, <1>4 DEF McpInv

\* A step that leaves the catalog and the outcomes alone, and does not go back to the
\* start, keeps the origins.
LEMMA McpOriginsKept ==
    ASSUME McpOrigins, UNCHANGED <<mcpOutcome, mcpSessions, mcpOrigins>>,
           mcpThread' \in {"unstarted", "starting", "connecting"}
              => mcpThread \in {"unstarted", "starting", "connecting"}
    PROVE  McpOrigins'
  BY DEF McpOrigins

\* The qualified name of a new tool leads to that tool (McpJoin).
LEMMA McpJoinFacts ==
    ASSUME NEW origins, NEW s, NEW tools, McpDistinct(origins, s, tools)
    PROVE  /\ \A q : q \in DOMAIN McpJoin(origins, s, tools) <=>
                       q \in DOMAIN origins \/ \E t \in tools : q = McpQualified(s, t)
           /\ \A q \in DOMAIN origins : McpJoin(origins, s, tools)[q] = origins[q]
           /\ \A t \in tools : McpJoin(origins, s, tools)[McpQualified(s, t)] = <<s, t>>
<1>. DEFINE join == McpJoin(origins, s, tools)
            names == {McpQualified(s, t) : t \in tools}
<1>1. join = [q \in DOMAIN origins \cup names |->
                 IF q \in DOMAIN origins THEN origins[q]
                 ELSE <<s, CHOOSE t \in tools : McpQualified(s, t) = q>>]
  BY DEF McpJoin
<1>2. ASSUME NEW t \in tools
      PROVE  join[McpQualified(s, t)] = <<s, t>>
  <2>. DEFINE q == McpQualified(s, t)
              u == CHOOSE v \in tools : McpQualified(s, v) = q
  <2>1. q \in names /\ q \notin DOMAIN origins
    BY DEF McpDistinct
  <2>2. join[q] = <<s, u>>
    BY <1>1, <2>1
  <2>3. u \in tools /\ McpQualified(s, u) = q
    OBVIOUS
  <2>4. u = t
    BY <2>3 DEF McpDistinct
  <2>. QED
    BY <2>2, <2>4
<1>. HIDE DEF join
<1>3. DOMAIN join = DOMAIN origins \cup names /\ \A q \in DOMAIN origins : join[q] = origins[q]
  BY <1>1
<1>. QED
  BY <1>2, <1>3 DEF join

\* A server joins the catalog (the loop of _serve).
LEMMA McpCollectKeeps ==
    ASSUME McpInv, McpCollect
    PROVE  McpOrigins' /\ mcpSessions' \subseteq McpRange
<1>. DEFINE s == McpServers[mcpNext]
            tools == mcpOutcome[s].tools
<1>1. s \in McpRange
  BY DEF McpInv, McpTypeOK, McpCollect, McpRange
<1>2. UNCHANGED <<mcpOutcome, mcpThread>> /\ mcpThread = "collecting"
  BY DEF McpCollect
<1>3. CASE UNCHANGED <<mcpSessions, mcpOrigins>>
  BY <1>2, <1>3, McpOriginsKept DEF McpInv, McpTypeOK
<1>4. CASE /\ McpDistinct(mcpOrigins, s, tools)
           /\ mcpSessions' = mcpSessions \cup {s}
           /\ mcpOrigins' = McpJoin(mcpOrigins, s, tools)
  <2>0. tools = mcpOutcome[s].tools
    OBVIOUS
  <2>. HIDE DEF s, tools
  <2>1. /\ \A q : q \in DOMAIN mcpOrigins' <=>
                    q \in DOMAIN mcpOrigins \/ \E t \in tools : q = McpQualified(s, t)
        /\ \A q \in DOMAIN mcpOrigins : mcpOrigins'[q] = mcpOrigins[q]
        /\ \A t \in tools : mcpOrigins'[McpQualified(s, t)] = <<s, t>>
    BY <1>4, McpJoinFacts
  <2>2. McpOrigins
    BY DEF McpInv
  <2>3. ASSUME NEW q \in DOMAIN mcpOrigins'
        PROVE  \E x \in mcpSessions' : \E t \in mcpOutcome'[x].tools :
                  q = McpQualified(x, t) /\ mcpOrigins'[q] = <<x, t>>
    <3>1. CASE q \in DOMAIN mcpOrigins
      BY <1>2, <1>4, <2>1, <2>2, <3>1 DEF McpOrigins
    <3>2. CASE \E t \in tools : q = McpQualified(s, t)
      BY <1>2, <1>4, <2>0, <2>1, <3>2
    <3>. QED
      BY <2>1, <3>1, <3>2
  <2>4. ASSUME NEW x \in mcpSessions', NEW t \in mcpOutcome'[x].tools
        PROVE  /\ McpQualified(x, t) \in DOMAIN mcpOrigins'
               /\ mcpOrigins'[McpQualified(x, t)] = <<x, t>>
    <3>1. CASE x = s
      BY <1>2, <2>0, <2>1, <3>1
    <3>2. CASE x \in mcpSessions
      BY <1>2, <2>1, <2>2, <3>2 DEF McpOrigins
    <3>. QED
      BY <1>4, <3>1, <3>2
  <2>5. McpOrigins'
    BY <1>2, <2>3, <2>4 DEF McpOrigins, McpQualified
  <2>. QED
    BY <1>1, <1>4, <2>5 DEF McpInv, McpTypeOK
<1>. QED
  BY <1>3, <1>4 DEF McpCollect, McpInv, McpTypeOK

\* The steps of the manager that leave the catalog alone (_run, _serve, _call).
LEMMA McpManagerKeeps ==
    ASSUME McpInv,
           \/ McpStart \/ McpRun \/ McpGathered \/ McpPublish \/ McpInterrupted \/ McpUnwind
           \/ McpTake \/ McpBegin \/ McpAnswer
    PROVE  McpInv'
<1>1. UNCHANGED <<mcpOutcome, mcpNext, mcpSessions, mcpOrigins, mcpCall, mcpCloser>>
  BY Zenon DEF McpStart, McpRun, McpGathered, McpPublish, McpInterrupted, McpUnwind, McpTake, McpBegin,
         McpAnswer, mcpCatalogVars, mcpCallerVars
<1>2. mcpThread \in McpPlaces /\ mcpCloser \in {"open", "stopping", "joining", "left", "closed"}
  BY DEF McpInv, McpTypeOK
<1>3. McpOrigins'
  BY <1>1, <1>2, McpOriginsKept, Zenon
     DEF McpInv, McpPlaces, McpStart, McpRun, McpGathered, McpPublish, McpInterrupted, McpUnwind,
         McpTake, McpBegin, McpAnswer
<1>4. mcpThread' \in McpPlaces /\ mcpQueue' \in Seq(McpCalls \cup {McpStop})
      /\ mcpServing' \in McpCalls \cup {McpNone}
  <2>1. mcpQueue \in Seq(McpCalls \cup {McpStop}) /\ mcpServing \in McpCalls \cup {McpNone}
    BY DEF McpInv, McpTypeOK
  <2>2. CASE McpTake
    BY <1>2, <2>1, <2>2 DEF McpTake, McpPlaces
  <2>3. CASE ~McpTake
    BY <1>2, <2>1, <2>3, Zenon
       DEF McpPlaces, McpStart, McpRun, McpGathered, McpPublish, McpInterrupted, McpUnwind,
           McpBegin, McpAnswer
  <2>. QED
    BY <2>2, <2>3
<1>5. McpTypeOK'
  BY <1>1, <1>4 DEF McpInv, McpTypeOK
<1>6. McpRunning'
  <2>1. McpRunning /\ mcpServing \in McpCalls \cup {McpNone}
    BY DEF McpInv, McpTypeOK
  <2>2. CASE McpStart \/ McpRun
    BY <1>1, <2>1, <2>2 DEF McpRunning, McpStart, McpRun
  <2>3. CASE McpGathered \/ McpPublish \/ McpInterrupted \/ McpUnwind
    BY <1>1, <2>1, <2>3, Zenon DEF McpRunning, McpGathered, McpPublish, McpInterrupted, McpUnwind
  <2>4. CASE McpTake
    BY <1>1, <2>1, <2>4 DEF McpRunning, McpTake
  <2>5. CASE McpBegin \/ McpAnswer
    BY <1>1, <2>1, <2>5, Zenon DEF McpRunning, McpBegin, McpAnswer
  <2>. QED
    BY <2>2, <2>3, <2>4, <2>5
<1>. QED
  BY <1>3, <1>5, <1>6 DEF McpInv

\* The outcomes of the servers: while they come, there is no catalog (_start_server).
LEMMA McpServerKeeps ==
    ASSUME McpInv, NEW s \in McpRange,
           McpServerFails(s) \/ \E tools \in McpOffers : McpServerStarts(s, tools)
    PROVE  McpInv'
<1>1. /\ UNCHANGED <<mcpThread, mcpNext, mcpSessions, mcpOrigins, mcpQueue, mcpServing, mcpExecuting,
                    mcpCloser>>
      /\ mcpThread = "connecting"
  BY DEF McpServerFails, McpServerStarts, mcpCatalogVars
<1>2. mcpOutcome' \in [McpRange -> [state : {"pending", "failed", "listed"}, tools : SUBSET McpRemote]]
  <2>1. mcpOutcome \in [McpRange -> [state : {"pending", "failed", "listed"}, tools : SUBSET McpRemote]]
    BY DEF McpInv, McpTypeOK
  <2>2. CASE McpServerFails(s)
    BY <2>1, <2>2 DEF McpServerFails
  <2>3. ASSUME NEW tools \in McpOffers, McpServerStarts(s, tools)
        PROVE  mcpOutcome' \in [McpRange -> [state : {"pending", "failed", "listed"},
                                              tools : SUBSET McpRemote]]
    <3>1. tools \in SUBSET McpRemote
      BY DEF McpRemote
    <3>. QED
      BY <2>1, <2>3, <3>1 DEF McpServerStarts
  <2>. QED
    BY <2>2, <2>3
<1>3. mcpSessions = {} /\ DOMAIN mcpOrigins = {}
  BY <1>1, Zenon DEF McpInv, McpOrigins
<1>4. McpOrigins'
  BY <1>1, <1>3 DEF McpOrigins
<1>5. McpTypeOK' /\ McpRunning'
  BY <1>1, <1>2 DEF McpInv, McpTypeOK, McpRunning
<1>. QED
  BY <1>4, <1>5 DEF McpInv

\* The callers and the owner of the manager (call_tool, close).
LEMMA McpOthersKeep ==
    ASSUME McpInv,
           \/ McpClose \/ McpCloserStep
           \/ \E c \in McpCalls :
                 McpCallerStep(c) \/ McpCancelCall(c) \/ \E q \in DOMAIN mcpOrigins : McpCallTool(c, q)
    PROVE  McpInv'
<1>1. UNCHANGED <<mcpThread, mcpOutcome, mcpOpen, mcpNext, mcpSessions, mcpOrigins, mcpServing,
                  mcpExecuting>>
  BY Zenon DEF McpClose, McpCloserStep, McpCloseInterrupts, McpJoined, McpCallerStep, McpPut, McpReturn,
         McpGiveUp, McpCancelCall, McpCallTool, mcpCatalogVars
<1>2. McpOrigins'
  BY <1>1, McpOriginsKept DEF McpInv
<1>3. mcpQueue' \in Seq(McpCalls \cup {McpStop})
  <2>1. mcpQueue \in Seq(McpCalls \cup {McpStop})
    BY DEF McpInv, McpTypeOK
  <2>2. mcpQueue' = mcpQueue \/ \E c \in McpCalls \cup {McpStop} : mcpQueue' = Append(mcpQueue, c)
    BY Zenon DEF McpClose, McpCloserStep, McpCloseInterrupts, McpJoined, McpCallerStep, McpPut, McpReturn,
           McpGiveUp, McpCancelCall, McpCallTool
  <2>. QED
    BY <2>1, <2>2
<1>4. /\ mcpCloser' \in {"open", "stopping", "joining", "left", "closed"}
      /\ mcpCloser' = "closed" => mcpThread \in {"unstarted", "dead"}
  BY Zenon DEF McpInv, McpTypeOK, McpRunning, McpClose, McpCloserStep, McpCloseInterrupts, McpJoined,
         McpCallerStep, McpPut, McpReturn, McpGiveUp, McpCancelCall, McpCallTool
<1>5. McpTypeOK' /\ McpRunning'
  BY <1>1, <1>3, <1>4 DEF McpInv, McpTypeOK, McpRunning
<1>. QED
  BY <1>2, <1>5 DEF McpInv

\* Every step keeps the inductive invariant (McpNext).
LEMMA McpInvStep == McpInv /\ [McpNext]_mcpVars => McpInv'
<1>. SUFFICES ASSUME McpInv, [McpNext]_mcpVars PROVE McpInv'
  OBVIOUS
<1>1. CASE McpCollect
  <2>1. McpOrigins' /\ mcpSessions' \subseteq McpRange
    BY <1>1, McpCollectKeeps
  <2>2. UNCHANGED <<mcpThread, mcpOutcome, mcpOpen, mcpQueue, mcpServing, mcpExecuting, mcpCloser>>
        /\ mcpNext' = mcpNext + 1
    BY <1>1, Zenon DEF McpCollect
  <2>. QED
    BY <2>1, <2>2 DEF McpInv, McpTypeOK, McpRunning
<1>2. CASE UNCHANGED mcpVars
  <2>1. McpOrigins'
    BY <1>2, McpOriginsKept DEF mcpVars, McpInv
  <2>. QED
    BY <1>2, <2>1 DEF mcpVars, McpInv, McpTypeOK, McpRunning
<1>. QED
  BY <1>1, <1>2, McpManagerKeeps, McpServerKeeps, McpOthersKeep DEF McpNext, McpManagerStep

\* A qualified name leads to the one tool it was made from, and a manager that has
\* closed runs nothing (mcp/manager.py, agent_runtime/role_tools.py).
THEOREM McpClientsSound == McpSpec => []McpSound
<1>1. McpInv => McpSound
  <2>. SUFFICES ASSUME McpInv PROVE McpSound
    OBVIOUS
  <2>1. ASSUME NEW q \in DOMAIN mcpOrigins
        PROVE  LET s == mcpOrigins[q][1]  t == mcpOrigins[q][2]
               IN /\ s \in mcpSessions /\ q = McpQualified(s, t) /\ t \in mcpOutcome[s].tools
                  /\ \A other \in mcpSessions : \A u \in mcpOutcome[other].tools :
                       McpQualified(other, u) = q => <<other, u>> = <<s, t>>
    <3>1. PICK s \in mcpSessions : \E t \in mcpOutcome[s].tools :
             q = McpQualified(s, t) /\ mcpOrigins[q] = <<s, t>>
      BY DEF McpInv, McpOrigins
    <3>2. PICK t \in mcpOutcome[s].tools : q = McpQualified(s, t) /\ mcpOrigins[q] = <<s, t>>
      BY <3>1
    <3>3. mcpOrigins[q][1] = s /\ mcpOrigins[q][2] = t
      BY <3>2
    <3>4. \A other \in mcpSessions : \A u \in mcpOutcome[other].tools :
             McpQualified(other, u) = q => mcpOrigins[q] = <<other, u>>
      BY DEF McpInv, McpOrigins
    <3>. QED
      BY <3>2, <3>3, <3>4
  <2>2. \A s \in McpRange : \A listed \in SUBSET McpRemote :
           /\ \A q \in McpRoleTools(s, listed, FALSE) : mcpOrigins[q][2] \notin listed
           /\ McpRoleTools(s, listed, TRUE) \cap McpRoleTools(s, listed, FALSE) = {}
    BY DEF McpRoleTools
  <2>3. McpCloseIsQuiet
    BY DEF McpInv, McpRunning, McpCloseIsQuiet
  <2>. QED
    BY <2>1, <2>2, <2>3, Zenon DEF McpSound, McpRoutes
<1>. QED
  BY <1>1, McpInvInit, McpInvStep, PTL DEF McpSpec

-----------------------------------------------------------------------------
(***************************************************************************)
(* Proof that the desktop is left clean and that a parked pointer stops    *)
(* the computer (DeskSound), for every layout of displays, set of corners  *)
(* and buttons and every number of steps.                                  *)
(***************************************************************************)

\* The fields of the computer and its desktop.
DeskFields == {"clip", "saved", "held", "down", "pointer", "owned", "parked", "acted", "refused"}

DeskShape(d) == d = [f \in DeskFields |-> d[f]]

\* What every call keeps: no button is down that is not held; what is saved, or else
\* what is on the clipboard, comes from the user, unless the clipboard refused; a
\* parked pointer is in a corner the computer did not go to, and nothing was done since.
DeskGood(d) ==
    /\ DeskShape(d)
    /\ d.down \subseteq d.held
    /\ d.saved # DeskNone => d.saved[1] = "user" \/ d.refused = TRUE
    /\ d.saved = DeskNone => d.clip[1] = "user" \/ d.refused = TRUE
    /\ d.parked = TRUE => d.pointer \in DeskCorners /\ d.pointer # d.owned /\ d.acted = FALSE
    /\ d.pointer # DeskNone /\ d.clip # DeskNone
    /\ d.parked \in BOOLEAN /\ d.acted \in BOOLEAN /\ d.refused \in BOOLEAN

\* The inductive invariant.
DeskInv ==
    /\ DeskGood(desk)
    /\ deskLife = "unused" => /\ desk.saved = DeskNone /\ desk.down = {}
                              /\ desk.clip[1] = "user"
    /\ deskLife = "closed" => desk.down = {} /\ (desk.clip[1] = "user" \/ desk.refused = TRUE)

\* An answer of a call that began with d: it keeps what every call keeps, and
\* nothing was done while the pointer rested in a corner.
DeskSafe(d, e) == DeskGood(e) /\ (DeskStopped(d) => e.acted = FALSE)

\* A point is a pair (input_point, interior_point).
LEMMA DeskPointFacts ==
    /\ \A p \in DeskPoints : p # DeskNone
    /\ \A p : DeskInterior(p) # DeskNone
  BY DEF DeskPoints, DeskInput, DeskInterior, DeskNone

\* The pointer moved by the computer.
LEMMA DeskMovedFacts ==
    ASSUME NEW d, DeskGood(d), NEW p, p # DeskNone
    PROVE  DeskGood(DeskMoved(d, p)) /\ DeskMoved(d, p).saved = d.saved
<1>1. DeskMoved(d, p) = [f \in DeskFields |-> IF f = "pointer" THEN p
                                             ELSE IF f = "parked" THEN FALSE ELSE d[f]]
  BY Zenon DEF DeskMoved, DeskGood, DeskShape, DeskFields
<1>. QED
  BY <1>1, Zenon DEF DeskGood, DeskShape, DeskFields

\* control is ready: the clipboard is restored, the computer's own corner left.
LEMMA DeskReadyFacts ==
    ASSUME DeskInv
    PROVE  /\ DeskGood(DeskRestored(desk)) /\ DeskRestored(desk).saved = DeskNone
           /\ DeskGood(DeskReady) /\ DeskReady.saved = DeskNone /\ DeskReady.acted = FALSE
           /\ desk.parked = TRUE => DeskStopped(DeskReady)
<1>. DEFINE d == DeskRestored(desk)
            e == DeskRecovered(d)
<1>1. DeskGood(desk)
  BY DEF DeskInv
<1>2. d = [f \in DeskFields |-> IF f = "saved" THEN DeskNone
                               ELSE IF f = "clip" /\ desk.saved # DeskNone THEN desk.saved
                               ELSE desk[f]]
  BY <1>1, Zenon DEF DeskGood, DeskShape, DeskFields, DeskRestored
<1>. HIDE DEF d
<1>3. DeskGood(d) /\ d.saved = DeskNone
  BY <1>1, <1>2 DEF DeskGood, DeskShape, DeskFields
<1>4. DeskGood(e) /\ e.saved = DeskNone
  <2>1. /\ DeskGood(DeskMoved(d, DeskInterior(d.pointer)))
        /\ DeskMoved(d, DeskInterior(d.pointer)).saved = d.saved
    BY <1>3, DeskMovedFacts, DeskPointFacts
  <2>. QED
    BY <1>3, <2>1 DEF DeskRecovered
<1>5. desk.parked = TRUE => e = d
  BY <1>1, <1>2 DEF DeskRecovered, DeskGood, DeskFields
<1>. HIDE DEF e
<1>6. DeskReady = [f \in DeskFields |-> IF f = "owned" THEN DeskNone
                                       ELSE IF f = "acted" THEN FALSE ELSE e[f]]
  BY <1>4, Zenon DEF DeskReady, DeskGood, DeskShape, DeskFields, d, e
<1>7. DeskGood(DeskReady) /\ DeskReady.saved = DeskNone /\ DeskReady.acted = FALSE
  BY <1>4, <1>6 DEF DeskGood, DeskShape, DeskFields
<1>8. desk.parked = TRUE => DeskStopped(DeskReady)
  BY <1>1, <1>2, <1>5, <1>6 DEF DeskGood, DeskStopped, DeskFields
<1>. QED
  BY <1>3, <1>7, <1>8 DEF d

\* A call that ends in the corner it went to.
LEMMA DeskToFacts ==
    ASSUME NEW d, DeskGood(d), NEW p, p # DeskNone, ~DeskStopped(d),
           NEW rest, DeskGood(rest), NEW e \in DeskTo(d, p, rest)
    PROVE  DeskSafe(d, e)
<1>1. DeskGood(DeskMoved(d, p))
  BY DeskMovedFacts
<1>. QED
  BY <1>1 DEF DeskTo, DeskSafe

\* click: the place is noted before the computer goes there.
LEMMA DeskClickSafe ==
    ASSUME NEW d, DeskGood(d), d.acted = FALSE, NEW b, NEW p \in DeskPoints,
           NEW e \in DeskClick(d, b, p)
    PROVE  DeskSafe(d, e)
<1>. DEFINE aimed == [d EXCEPT !.owned = p, !.parked = @ /\ d.pointer # p]
            moved == DeskMoved(aimed, p)
            clicked == [moved EXCEPT !.down = @ \ {b}, !.acted = TRUE]
<1>1. aimed = [f \in DeskFields |-> IF f = "owned" THEN p
                                   ELSE IF f = "parked" THEN d.parked /\ d.pointer # p
                                   ELSE d[f]]
  BY Zenon DEF DeskGood, DeskShape, DeskFields
<1>2. DeskGood(aimed) /\ aimed.acted = FALSE
  BY <1>1 DEF DeskGood, DeskShape, DeskFields
<1>. HIDE DEF aimed
<1>3. DeskGood(moved) /\ moved.parked = FALSE /\ p # DeskNone
  BY <1>2, DeskMovedFacts, DeskPointFacts, Zenon DEF DeskMoved, DeskGood, DeskShape, DeskFields
<1>4. DeskStopped(aimed) <=> DeskStopped(d)
  BY <1>1 DEF DeskStopped, DeskFields
<1>. HIDE DEF moved
<1>5. DeskGood(clicked)
  <2>1. clicked = [f \in DeskFields |-> IF f = "down" THEN moved.down \ {b}
                                       ELSE IF f = "acted" THEN TRUE ELSE moved[f]]
    BY <1>3, Zenon DEF DeskGood, DeskShape, DeskFields
  <2>. QED
    BY <1>3, <2>1 DEF DeskGood, DeskShape, DeskFields
<1>6. e = aimed \/ (~DeskStopped(d) /\ e \in DeskTo(aimed, p, clicked))
  BY DEF DeskClick, aimed, moved
<1>7. CASE e = aimed
  BY <1>2, <1>7 DEF DeskSafe
<1>8. CASE ~DeskStopped(d) /\ e \in DeskTo(aimed, p, clicked)
  BY <1>2, <1>3, <1>4, <1>5, <1>8, DeskToFacts, Zenon DEF DeskSafe
<1>. QED
  BY <1>6, <1>7, <1>8

\* move and mouse_down.
LEMMA DeskMoveSafe ==
    ASSUME NEW d, DeskGood(d), d.acted = FALSE, NEW b, NEW p \in DeskPoints,
           NEW e \in DeskMove(d, p) \cup DeskMouseDown(d, b, p)
    PROVE  DeskSafe(d, e)
<1>. DEFINE moved == DeskMoved(d, p)
            there == [moved EXCEPT !.owned = p, !.acted = TRUE]
            pressed == [moved EXCEPT !.owned = p, !.acted = TRUE,
                                     !.down = @ \cup {b}, !.held = @ \cup {b}]
<1>1. DeskGood(moved) /\ moved.parked = FALSE /\ p # DeskNone
  BY DeskMovedFacts, DeskPointFacts, Zenon DEF DeskMoved, DeskGood, DeskShape, DeskFields
<1>. HIDE DEF moved
<1>2. DeskGood(there)
  <2>1. there = [f \in DeskFields |-> IF f = "owned" THEN p
                                     ELSE IF f = "acted" THEN TRUE ELSE moved[f]]
    BY <1>1, Zenon DEF DeskGood, DeskShape, DeskFields
  <2>. QED
    BY <1>1, <2>1 DEF DeskGood, DeskShape, DeskFields
<1>3. DeskGood(pressed)
  <2>1. pressed = [f \in DeskFields |-> IF f = "owned" THEN p ELSE IF f = "acted" THEN TRUE
                                       ELSE IF f = "down" THEN moved.down \cup {b}
                                       ELSE IF f = "held" THEN moved.held \cup {b} ELSE moved[f]]
    BY <1>1, Zenon DEF DeskGood, DeskShape, DeskFields
  <2>. QED
    BY <1>1, <2>1 DEF DeskGood, DeskShape, DeskFields
<1>4. \/ e = d
      \/ ~DeskStopped(d) /\ (e \in DeskTo(d, p, there) \/ e \in DeskTo(d, p, pressed))
  BY DEF DeskMove, DeskMouseDown, moved
<1>. HIDE DEF there, pressed
<1>. QED
  BY <1>1, <1>2, <1>3, <1>4, DeskToFacts, Zenon DEF DeskSafe

\* mouse_up: the button is released in any case.
LEMMA DeskMouseUpSafe ==
    ASSUME NEW d, DeskGood(d), d.acted = FALSE, NEW b, NEW p \in DeskPoints,
           NEW e \in DeskMouseUp(d, b, p)
    PROVE  DeskSafe(d, e)
<1>. DEFINE moved == DeskMoved(d, p)
            up(x) == [x EXCEPT !.down = @ \ {b}, !.held = @ \ {b}]
            done == [up(moved) EXCEPT !.owned = p, !.acted = TRUE]
<1>1. DeskGood(moved) /\ moved.parked = FALSE /\ p # DeskNone
  BY DeskMovedFacts, DeskPointFacts, Zenon DEF DeskMoved, DeskGood, DeskShape, DeskFields
<1>2. ASSUME NEW x, DeskGood(x)
      PROVE  DeskGood(up(x)) /\ up(x).acted = x.acted /\ up(x).parked = x.parked
  <2>1. up(x) = [f \in DeskFields |-> IF f = "down" THEN x.down \ {b}
                                     ELSE IF f = "held" THEN x.held \ {b} ELSE x[f]]
    BY <1>2, Zenon DEF DeskGood, DeskShape, DeskFields
  <2>. QED
    BY <1>2, <2>1 DEF DeskGood, DeskShape, DeskFields
<1>3. /\ DeskGood(up(moved)) /\ up(moved).parked = FALSE
      /\ DeskGood(up(d)) /\ up(d).acted = FALSE
  BY <1>1, <1>2, Zenon
<1>. HIDE DEF up, moved
<1>4. DeskGood(done)
  <2>1. done = [f \in DeskFields |-> IF f = "owned" THEN p
                                    ELSE IF f = "acted" THEN TRUE ELSE up(moved)[f]]
    BY <1>3, Zenon DEF DeskGood, DeskShape, DeskFields
  <2>. QED
    BY <1>1, <1>3, <2>1, Zenon DEF DeskGood, DeskShape, DeskFields
<1>5. \/ e \in {d, up(d)}
      \/ ~DeskStopped(d) /\ (e \in {up(moved), done} \/ e \in DeskTo(d, p, done))
  <2>1. \A x \in DeskTo(d, p, moved) : x = moved
    BY DEF DeskTo, moved
  <2>. QED
    BY <2>1, Zenon DEF DeskMouseUp, up, moved
<1>. HIDE DEF done
<1>. QED
  BY <1>1, <1>3, <1>4, <1>5, DeskToFacts, Zenon DEF DeskSafe


\* drag: the button is released wherever the way ends.
LEMMA DeskDragSafe ==
    ASSUME NEW d, DeskGood(d), d.acted = FALSE, NEW b, NEW p \in DeskPoints,
           NEW q \in DeskPoints, NEW e \in DeskDrag(d, b, p, q)
    PROVE  DeskSafe(d, e)
<1>. DEFINE over(x) == [x EXCEPT !.down = @ \ {b}, !.acted = TRUE]
            at(x) == over(DeskMoved(d, x))
            done == [at(q) EXCEPT !.owned = q]
<1>1. ASSUME NEW x \in {p, q}
      PROVE  DeskGood(at(x)) /\ at(x).parked = FALSE /\ x # DeskNone
  <2>. DEFINE moved == DeskMoved(d, x)
  <2>1. DeskGood(moved) /\ moved.parked = FALSE /\ x # DeskNone
    BY DeskMovedFacts, DeskPointFacts, Zenon DEF DeskMoved, DeskGood, DeskShape, DeskFields
  <2>. HIDE DEF moved
  <2>2. over(moved) = [f \in DeskFields |-> IF f = "down" THEN moved.down \ {b}
                                           ELSE IF f = "acted" THEN TRUE ELSE moved[f]]
    BY <2>1, Zenon DEF DeskGood, DeskShape, DeskFields
  <2>. HIDE DEF over
  <2>3. DeskGood(over(moved)) /\ over(moved).parked = FALSE
    BY <2>1, <2>2, Zenon DEF DeskGood, DeskShape, DeskFields
  <2>. QED
    BY <2>1, <2>3 DEF moved
<1>2. e = d \/ (~DeskStopped(d) /\ (e \in DeskTo(d, p, done) \/ e \in {at(p), at(q)}))
  BY DEF DeskDrag
<1>. HIDE DEF at
<1>3. DeskGood(done)
  <2>1. done = [f \in DeskFields |-> IF f = "owned" THEN q ELSE at(q)[f]]
    BY <1>1 DEF DeskGood, DeskShape, DeskFields
  <2>. QED
    BY <1>1, <2>1, Zenon DEF DeskGood, DeskShape, DeskFields
<1>. HIDE DEF done
<1>. QED
  BY <1>1, <1>2, <1>3, DeskToFacts, Zenon DEF DeskSafe

\* type, key and hotkey.
LEMMA DeskTypeSafe ==
    ASSUME NEW d, DeskGood(d), d.acted = FALSE, d.saved = DeskNone,
           NEW e \in DeskType(d) \cup DeskKey(d)
    PROVE  DeskSafe(d, e)
<1>. DEFINE text == <<"agent", deskSteps>>
            failed == [d EXCEPT !.clip = text, !.refused = TRUE]
            typed == [d EXCEPT !.clip = text, !.saved = d.clip, !.acted = TRUE]
            pushed == [d EXCEPT !.acted = TRUE]
<1>1. text # DeskNone
  BY DEF DeskNone
<1>2. e \in {d, failed} \/ (~DeskStopped(d) /\ e \in {typed, pushed})
  BY DEF DeskType, DeskKey
<1>. HIDE DEF text
<1>3. DeskGood(failed) /\ failed.acted = FALSE
  <2>1. failed = [f \in DeskFields |-> IF f = "clip" THEN text
                                      ELSE IF f = "refused" THEN TRUE ELSE d[f]]
    BY Zenon DEF DeskGood, DeskShape, DeskFields
  <2>. QED
    BY <1>1, <2>1 DEF DeskGood, DeskShape, DeskFields
<1>4. ~DeskStopped(d) => DeskGood(typed)
  <2>1. typed = [f \in DeskFields |-> IF f = "clip" THEN text ELSE IF f = "saved" THEN d.clip
                                     ELSE IF f = "acted" THEN TRUE ELSE d[f]]
    BY Zenon DEF DeskGood, DeskShape, DeskFields
  <2>. QED
    BY <1>1, <2>1 DEF DeskGood, DeskShape, DeskFields, DeskStopped
<1>5. ~DeskStopped(d) => DeskGood(pushed)
  <2>1. pushed = [f \in DeskFields |-> IF f = "acted" THEN TRUE ELSE d[f]]
    BY Zenon DEF DeskGood, DeskShape, DeskFields
  <2>. QED
    BY <2>1, Zenon DEF DeskGood, DeskShape, DeskFields, DeskStopped
<1>. HIDE DEF failed, typed, pushed
<1>. QED
  BY <1>2, <1>3, <1>4, <1>5 DEF DeskSafe

\* A call of control keeps what every call keeps, and does nothing while the pointer
\* is parked (DesktopComputer.control).
LEMMA DeskControlSafe ==
    ASSUME DeskInv, DeskControl
    PROVE  DeskGood(desk') /\ (desk.parked = TRUE => desk'.acted = FALSE) /\ deskLife' = "open"
<1>. DEFINE quiet(d) == [d EXCEPT !.acted = FALSE]
<1>1. ASSUME NEW d, DeskGood(d)
      PROVE  DeskGood(quiet(d)) /\ quiet(d).acted = FALSE
  <2>1. quiet(d) = [f \in DeskFields |-> IF f = "acted" THEN FALSE ELSE d[f]]
    BY <1>1, Zenon DEF DeskGood, DeskShape, DeskFields
  <2>. QED
    BY <1>1, <2>1, Zenon DEF DeskGood, DeskShape, DeskFields
<1>2. DeskGood(desk) /\ DeskGood(DeskRestored(desk)) /\ DeskGood(DeskReady)
      /\ DeskReady.acted = FALSE /\ DeskReady.saved = DeskNone
      /\ (desk.parked = TRUE => DeskStopped(DeskReady))
  BY DeskReadyFacts, Zenon DEF DeskInv
<1>3. deskLife' = "open"
  BY DEF DeskControl
<1>4. CASE desk' \in {quiet(desk), quiet(DeskRestored(desk)), DeskReady}
  BY <1>1, <1>2, <1>3, <1>4, Zenon
<1>5. CASE \E b \in DeskButtons, p \in DeskPoints :
             \/ desk' \in DeskClick(DeskReady, b, p)
             \/ desk' \in DeskMove(DeskReady, p)
             \/ desk' \in DeskMouseDown(DeskReady, b, p)
             \/ desk' \in DeskMouseUp(DeskReady, b, p)
             \/ \E q \in DeskPoints : desk' \in DeskDrag(DeskReady, b, p, q)
  <2>1. DeskSafe(DeskReady, desk')
    BY <1>2, <1>5, DeskClickSafe, DeskMoveSafe, DeskMouseUpSafe, DeskDragSafe, Zenon
  <2>. QED
    BY <1>2, <1>3, <2>1 DEF DeskSafe
<1>6. CASE desk' \in DeskType(DeskReady) \cup DeskKey(DeskReady)
  <2>1. DeskSafe(DeskReady, desk')
    BY <1>2, <1>6, DeskTypeSafe, Zenon
  <2>. QED
    BY <1>2, <1>3, <2>1 DEF DeskSafe
<1>. QED
  BY <1>4, <1>5, <1>6, Zenon DEF DeskControl


\* The inductive invariant holds on the desktop as it is found (DeskInit).
LEMMA DeskInvInit == DeskInit => DeskInv
<1>. SUFFICES ASSUME DeskInit PROVE DeskInv
  OBVIOUS
<1>. DEFINE p == DeskInterior(CHOOSE q \in DeskPoints : DeskOnScreen(q))
<1>1. p # DeskNone /\ <<"user", 0>> # DeskNone
  BY DeskPointFacts DEF DeskNone
<1>2. /\ desk = [clip |-> <<"user", 0>>, saved |-> DeskNone, held |-> {}, down |-> {},
                 pointer |-> p, owned |-> DeskNone, parked |-> FALSE, acted |-> FALSE,
                 refused |-> FALSE]
      /\ deskLife = "unused"
  BY Zenon DEF DeskInit
<1>. HIDE DEF p
<1>3. DeskShape(desk)
  BY <1>2, Zenon DEF DeskShape, DeskFields
<1>. QED
  BY <1>1, <1>2, <1>3, Zenon DEF DeskInv, DeskGood

\* close releases what is held and gives the clipboard back, or notes that it refused
\* (DesktopCapability.close).
LEMMA DeskCloseSafe ==
    ASSUME DeskInv, DeskClose
    PROVE  DeskInv' /\ (desk.parked = TRUE => desk'.acted = FALSE)
<1>1. DeskGood(desk) /\ deskLife' = "closed"
  BY Zenon DEF DeskInv, DeskClose
<1>2. CASE UNCHANGED desk /\ deskLife = "unused"
  BY <1>1, <1>2, Zenon DEF DeskInv, DeskGood, DeskShape
<1>3. ASSUME NEW restored \in BOOLEAN, restored = FALSE => desk.saved # DeskNone,
             desk' = DeskReleased(desk, restored)
      PROVE  /\ DeskGood(desk') /\ desk'.down = {} /\ desk'.acted = FALSE
             /\ desk'.clip[1] = "user" \/ desk'.refused = TRUE
  <2>. DEFINE d == IF restored THEN DeskRestored(desk) ELSE [desk EXCEPT !.refused = TRUE]
  <2>1. /\ DeskGood(d) /\ d.down \subseteq desk.held
        /\ d.clip[1] = "user" \/ d.refused = TRUE
    <3>1. CASE restored
      <4>1. DeskGood(DeskRestored(desk)) /\ DeskRestored(desk).saved = DeskNone
        BY DeskReadyFacts
      <4>2. DeskRestored(desk).down = desk.down
        BY <1>1 DEF DeskRestored, DeskGood, DeskShape, DeskFields
      <4>. QED
        BY <1>1, <3>1, <4>1, <4>2 DEF DeskGood
    <3>2. CASE ~restored
      <4>1. d = [f \in DeskFields |-> IF f = "refused" THEN TRUE ELSE desk[f]]
        BY <1>1, <3>2, Zenon DEF DeskGood, DeskShape, DeskFields
      <4>. QED
        BY <1>1, <4>1, Zenon DEF DeskGood, DeskShape, DeskFields
    <3>. QED
      BY <3>1, <3>2, Zenon
  <2>2. desk' = [d EXCEPT !.down = @ \ desk.held, !.held = {}, !.acted = FALSE]
    BY <1>3 DEF DeskReleased
  <2>. HIDE DEF d
  <2>3. desk' = [f \in DeskFields |-> IF f = "down" THEN d.down \ desk.held
                                     ELSE IF f = "held" THEN {}
                                     ELSE IF f = "acted" THEN FALSE ELSE d[f]]
    BY <2>1, <2>2, Zenon DEF DeskGood, DeskShape, DeskFields
  <2>4. desk'.down = {}
    BY <2>1, <2>3 DEF DeskFields
  <2>. QED
    BY <2>1, <2>3, <2>4 DEF DeskGood, DeskShape, DeskFields
<1>4. CASE \E restored \in BOOLEAN : /\ restored = FALSE => desk.saved # DeskNone
                                     /\ desk' = DeskReleased(desk, restored)
  <2>1. /\ DeskGood(desk') /\ desk'.down = {} /\ desk'.acted = FALSE
        /\ desk'.clip[1] = "user" \/ desk'.refused = TRUE
    BY <1>3, <1>4, Zenon
  <2>. QED
    BY <1>1, <2>1, Zenon DEF DeskInv, DeskGood, DeskShape
<1>. QED
  BY <1>2, <1>4, Zenon DEF DeskClose

\* What the user does between two calls.
LEMMA DeskUserSafe ==
    ASSUME DeskInv, DeskUser
    PROVE  DeskInv' /\ (desk.parked = TRUE => desk'.acted = FALSE)
<1>1. DeskGood(desk) /\ UNCHANGED deskLife
  BY Zenon DEF DeskInv, DeskUser
<1>2. ASSUME NEW p \in DeskPoints,
             desk' = [desk EXCEPT !.pointer = p, !.acted = FALSE,
                                  !.parked = p \in DeskCorners /\ p # desk.owned]
      PROVE  DeskInv' /\ desk'.acted = FALSE
  <2>1. desk' = [f \in DeskFields |-> IF f = "pointer" THEN p ELSE IF f = "acted" THEN FALSE
                                     ELSE IF f = "parked" THEN p \in DeskCorners /\ p # desk.owned
                                     ELSE desk[f]]
    BY <1>1, <1>2, Zenon DEF DeskGood, DeskShape, DeskFields
  <2>2. p # DeskNone
    BY DeskPointFacts
  <2>3. DeskGood(desk')
    BY <1>1, <2>1, <2>2 DEF DeskGood, DeskShape, DeskFields
  <2>4. /\ desk'.saved = desk.saved /\ desk'.down = desk.down /\ desk'.clip = desk.clip
        /\ desk'.refused = desk.refused /\ desk'.acted = FALSE
    BY <2>1 DEF DeskFields
  <2>. QED
    BY <1>1, <2>3, <2>4, Zenon DEF DeskInv, DeskGood, DeskShape
<1>3. ASSUME desk' = [desk EXCEPT !.clip = <<"user", deskSteps + 1>>, !.acted = FALSE]
      PROVE  DeskInv' /\ desk'.acted = FALSE
  <2>. DEFINE text == <<"user", deskSteps + 1>>
  <2>1. text # DeskNone /\ text[1] = "user"
    BY DEF DeskNone
  <2>2. desk' = [f \in DeskFields |-> IF f = "clip" THEN text
                                     ELSE IF f = "acted" THEN FALSE ELSE desk[f]]
    BY <1>1, <1>3, Zenon DEF DeskGood, DeskShape, DeskFields
  <2>. HIDE DEF text
  <2>3. DeskGood(desk')
    BY <1>1, <2>1, <2>2 DEF DeskGood, DeskShape, DeskFields
  <2>4. /\ desk'.saved = desk.saved /\ desk'.down = desk.down /\ desk'.clip[1] = "user"
        /\ desk'.acted = FALSE
    BY <2>1, <2>2 DEF DeskFields
  <2>. QED
    BY <1>1, <2>3, <2>4, Zenon DEF DeskInv, DeskGood, DeskShape
<1>4. CASE UNCHANGED desk
  BY <1>1, <1>4, Zenon DEF DeskInv, DeskGood, DeskShape
<1>. QED
  BY <1>2, <1>3, <1>4, Zenon DEF DeskUser

\* Every step keeps the inductive invariant, and does nothing while the pointer is
\* parked (DeskNext).
LEMMA DeskInvStep ==
    ASSUME DeskInv, [DeskNext]_deskVars
    PROVE  DeskInv' /\ (desk.parked = TRUE => desk'.acted = FALSE)
<1>1. CASE DeskControl
  <2>1. DeskGood(desk') /\ (desk.parked = TRUE => desk'.acted = FALSE) /\ deskLife' = "open"
    BY <1>1, DeskControlSafe, Zenon
  <2>. QED
    BY <2>1, Zenon DEF DeskInv, DeskGood, DeskShape
<1>2. CASE DeskClose \/ DeskUser
  BY <1>2, DeskCloseSafe, DeskUserSafe, Zenon
<1>3. CASE UNCHANGED deskVars
  BY <1>3 DEF deskVars, DeskInv, DeskGood, DeskShape
<1>. QED
  BY <1>1, <1>2, <1>3, Zenon DEF DeskNext

\* The desktop is left clean after every step, whatever failed, and a user who parks
\* the pointer stops the computer (DesktopComputer.control and close).
THEOREM ComputerSound == DeskSpec => DeskSound
<1>1. DeskInv /\ [DeskNext]_deskVars => DeskInv'
  BY DeskInvStep, Zenon
<1>2. DeskSpec => []DeskInv
  BY <1>1, DeskInvInit, PTL DEF DeskSpec
<1>3. DeskInv /\ [DeskNext]_deskVars => [DeskLeftClean' /\ (desk.parked => ~desk'.acted)]_deskVars
  <2>. SUFFICES ASSUME DeskInv, [DeskNext]_deskVars
                PROVE  DeskLeftClean' /\ (desk.parked => ~desk'.acted)
    OBVIOUS
  <2>1. DeskInv' /\ (desk.parked = TRUE => desk'.acted = FALSE) /\ desk.parked \in BOOLEAN
    BY DeskInvStep, Zenon DEF DeskInv, DeskGood
  <2>2. DeskLeftClean'
    BY <2>1 DEF DeskInv, DeskGood, DeskLeftClean, DeskShape
  <2>. QED
    BY <2>1, <2>2
<1>. QED
  BY <1>2, <1>3, PTL DEF DeskSpec, DeskSound

=============================================================================
