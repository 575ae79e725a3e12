----------------------------- MODULE TurnSteps ------------------------------
(***************************************************************************)
(* The inductive invariant of TurnLoop and the proofs that its steps keep  *)
(* it, one lemma per part of the invariant and one step per action.  The   *)
(* part about pending steers, which counts, and the theorems are in        *)
(* TurnProofs.                                                             *)
(***************************************************************************)
EXTENDS TurnLoop, TLAPS

-----------------------------------------------------------------------------
(* The inductive invariant.                                                *)

TurnPlaces ==
    {"idle", "start", "begin", "input", "top", "request", "archive", "model", "tools", "drain",
     "drained", "append", "after", "waiting", "stophook", "done", "reconcile", "unwind",
     "unwound", "release"}

\* The types of the variables.
TurnRunnerOK ==
    /\ inbox \in Seq(Turns) /\ queued \in SUBSET Turns /\ pendingCancels \in SUBSET Turns
    /\ pendingSteers \in [Turns -> Seq(Steers)]
    /\ shutdown \in BOOLEAN
    /\ current \in Turns \cup {NoTurn}

TurnControlOK ==
    /\ mailbox \in Seq(Steers) /\ received \in SUBSET Steers
    /\ cancelled \in BOOLEAN /\ finished \in BOOLEAN

TurnLoopOK ==
    /\ pc \in TurnPlaces
    /\ site \in {"loop", "wait", "stop", "finish"}
    /\ taken \in Seq(Steers)
    /\ outcome \in {"none", "failed", "cancelled", "completed"}

TurnRecordOK ==
    /\ status \in [Turns -> {"none", "running", "failed", "cancelled", "completed"}]
    /\ result \in [Turns -> {"none", "failed", "cancelled", "completed"}]
    /\ candidates \in SUBSET Turns /\ remembered \in SUBSET Turns

TurnJobsOK ==
    /\ phase \in [Jobs -> {"new", "open", "settled", "delivered", "dropped"}]
    /\ turn \in [Turns -> {"open", "complete", "discarded"}]

TurnHistoryOK ==
    /\ accepted \in [Turns -> Seq(Steers)]
    /\ applied \in [Turns -> Seq(Steers)]
    /\ stopped \in SUBSET Turns

TurnTypeOK ==
    /\ TurnRunnerOK /\ TurnControlOK /\ TurnLoopOK /\ TurnRecordOK /\ TurnJobsOK /\ TurnHistoryOK

\* A turn that is neither the current one nor over: it is queued, or nobody asked for it.
TurnWaits(t) == t # current /\ result[t] = "none"

\* Turns come one after the other: those of the inbox are the queued ones, each once;
\* what waits has not begun, and what is over is not queued.
TurnLife ==
    /\ pc = "idle" <=> current = NoTurn
    /\ \A i \in 1..Len(inbox) : inbox[i] \in queued
    /\ \A i, j \in 1..Len(inbox) : inbox[i] = inbox[j] => i = j
    /\ \A t \in queued : TurnWaits(t)
    /\ \A t \in Turns : t = current => result[t] = "none"
    /\ \A t \in Turns : TurnWaits(t) => status[t] = "none" /\ turn[t] = "open"

\* Where the serving thread is, and what it has to have done to be there: a turn gets
\* to its end only through a mailbox it found empty and closed.
TurnFlow ==
    /\ taken # <<>> => pc \in {"drained", "append"}
    /\ pc = "append" => taken # <<>>
    /\ finished = TRUE =>
          /\ mailbox = <<>> /\ taken = <<>> /\ cancelled = FALSE /\ site = "finish"
          /\ pc \in {"drained", "done", "reconcile", "release"}
    /\ pc \in {"done", "reconcile"} => finished = TRUE
    /\ pc = "drained" /\ site = "finish" /\ taken = <<>> => finished = TRUE \/ cancelled = TRUE
    /\ pc \in {"unwind", "unwound"} => outcome \in {"failed", "cancelled"}
    /\ pc = "release" => outcome # "none" /\ (outcome = "completed" => finished = TRUE)
    /\ outcome = "cancelled" => cancelled = TRUE
    /\ pc \notin {"unwind", "unwound", "release"} => outcome = "none"
    /\ current = NoTurn => cancelled = FALSE

TurnPrefix(s, t) == Len(s) <= Len(t) /\ \A i \in 1..Len(s) : s[i] = t[i]

TurnIn(s, seq) == \E i \in 1..Len(seq) : seq[i] = s

\* Every rank is taken.
TurnRanked(F) == \A k \in 1..Cardinality(F) : OfRank(F, k) # {}

\* The steers of a turn that waits are pending.
TurnPending ==
    \A t \in Turns : TurnWaits(t) =>
        /\ applied[t] = <<>> /\ accepted[t] = EachOnce(pendingSteers[t])
        /\ \A s \in Steers : TurnIn(s, accepted[t]) <=> TurnIn(s, pendingSteers[t])
        /\ TurnRanked(FirstOnes(pendingSteers[t]))
        /\ t \notin queued => pendingSteers[t] = <<>>

\* Those of the current turn are in its transcript, drained or in the mailbox, until a
\* cancel empties it.
TurnSteers ==
    \A t \in Turns : t = current =>
        /\ \A s \in Steers : s \in received <=> TurnIn(s, accepted[t])
        /\ TurnPrefix(applied[t] \o taken, accepted[t])
        /\ pc \notin {"unwind", "unwound", "release"} /\ cancelled = FALSE =>
              accepted[t] = (applied[t] \o taken) \o mailbox

\* A steer is accepted once.
TurnAccepts ==
    \A t \in Turns : \A i, j \in 1..Len(accepted[t]) : accepted[t][i] = accepted[t][j] => i = j

\* Who was told to cancel in time.
TurnStops ==
    /\ \A t \in Turns : TurnWaits(t) => (t \in stopped <=> t \in pendingCancels)
    /\ \A t \in Turns : TurnWaits(t) /\ t \notin queued => t \notin pendingCancels
    /\ \A t \in Turns : t = current => (t \in stopped <=> cancelled = TRUE)

\* The record of the current turn agrees with the way it goes.
TurnRecords ==
    \A t \in Turns : t = current =>
        /\ pc \in {"start", "begin"} => status[t] = "none"
        /\ pc \notin {"start", "begin", "reconcile", "release"} => status[t] = "running"
        /\ pc = "reconcile" => status[t] = "completed"
        /\ pc = "release" => status[t] \in {"none", outcome}
        /\ pc = "release" /\ outcome = "completed" => status[t] = "completed"
        /\ status[t] = "completed" => applied[t] = accepted[t]

\* Candidates are those of the current turn, which has run tools to find them.
TurnCandidates ==
    /\ pc \in {"idle", "start", "begin", "release"} => candidates = {}
    /\ candidates \subseteq {current}

\* Behind a request whose answer is being dealt with there is nothing unseen, unless
\* the loop goes round again.
TurnSeen ==
    \/ pc \in {"model", "tools", "after", "waiting", "stophook", "done"}
    \/ pc \in {"drain", "drained"} /\ site # "loop"
    => unseen = {}

\* A turn that nears its end has all its results, and is open on the board until it is
\* completed or its jobs are discarded.
TurnJobs ==
    /\ \A t \in Turns : t = current /\ pc \notin {"reconcile", "unwound", "release"} =>
          turn[t] = "open"
    /\ \A j \in Jobs : phase[j] = "dropped" => turn[TurnOf[j]] = "discarded"
    /\ \/ pc \in {"stophook", "done"}
       \/ pc \in {"drain", "drained"} /\ site \in {"stop", "finish"}
       => \A j \in Jobs : TurnOf[j] = current => phase[j] \in {"new", "delivered"}

\* A turn that is over was sound.
TurnOver(t) ==
    /\ TurnPrefix(applied[t], accepted[t])
    /\ status[t] = "completed" => applied[t] = accepted[t]
    /\ t \in stopped => status[t] # "completed" /\ result[t] # "completed"
    /\ "cancelled" \in {status[t], result[t]} => t \in stopped

TurnEnded ==
    /\ \A t \in Turns : t # current /\ result[t] # "none" => TurnOver(t)
    /\ \A t \in remembered : status[t] = "completed"

TurnInv ==
    /\ TurnTypeOK /\ TurnLife /\ TurnFlow /\ TurnPending /\ TurnSteers /\ TurnAccepts
    /\ TurnStops /\ TurnRecords /\ TurnCandidates /\ TurnSeen /\ TurnJobs /\ TurnEnded


-----------------------------------------------------------------------------
(* The steps inside the agent loop, and what they leave alone.             *)

TurnInner ==
    \/ EnsurePlane \/ CheckInput \/ LoopTop \/ BuildRequest \/ Archive \/ ModelResponds
    \/ (\E j \in Jobs : ToolSubmits(j)) \/ ToolRemembers \/ ToolsDone
    \/ DrainSteering \/ Drained \/ AppendSteer
    \/ AfterResponse \/ WaitForJob \/ StopHook

TurnDelivers == phase' = [j \in Jobs |-> IF j \in Settled THEN "delivered" ELSE phase[j]]

\* Only apply_steering looks into the mailbox, only a steer is appended, and only a tool
\* finds candidates.
TurnStays ==
    /\ AgentFrame /\ received' = received /\ cancelled' = cancelled
    /\ ControlFrame \/ DrainSteering
    /\ \/ candidates' \in {candidates, {}}
       \/ pc = "tools" /\ candidates' = candidates \cup {current}
    /\ applied' = applied \/ AppendSteer
    /\ taken' = taken \/ (taken' = <<>> /\ pc' = "unwind") \/ DrainSteering \/ AppendSteer
    /\ phase' = phase \/ TurnDelivers \/ (\E j \in Jobs : ToolSubmits(j))
    /\ pc \notin {"idle", "begin", "done", "reconcile", "unwind", "unwound", "release"}
    /\ pc' \notin {"idle", "start", "reconcile", "unwound"}
    /\ pc' \in {"begin", "release"} <=> pc = "start"
    /\ pc' = "release" => outcome' # "completed"

\* Every step inside the agent loop leaves the rest of the turn's state alone.
LEMMA TurnInnerFrame ==
    ASSUME TurnInner
    PROVE  TurnStays
<1>. USE DEF TurnStays
<1>1. CASE EnsurePlane
  BY <1>1, Zenon DEF EnsurePlane, At, Go, ControlFrame, controlVars
<1>2. CASE CheckInput
  BY <1>2, Zenon DEF CheckInput, At, Go, Raise, RaiseIfCancelled, ControlFrame, controlVars
<1>3. CASE LoopTop
  BY <1>3, Zenon
     DEF LoopTop, At, Go, RaiseIfCancelled, ControlFrame, ApplyJobs, Raise, controlVars,
         TurnDelivers
<1>4. CASE BuildRequest
  BY <1>4, Zenon DEF BuildRequest, At, Go, Raise, ControlFrame, controlVars
<1>5. CASE Archive
  BY <1>5, Zenon DEF Archive, At, Raise, RaiseIfCancelled, ControlFrame, DrainAt, controlVars
<1>6. CASE ModelResponds
  BY <1>6, Zenon DEF ModelResponds, At, Go, Raise, RaiseIfCancelled, ControlFrame, controlVars
<1>7. ASSUME NEW j \in Jobs, ToolSubmits(j) PROVE TurnStays
  BY <1>7, Zenon DEF ToolSubmits, At, ControlFrame, loopVars, controlVars
<1>8. CASE ToolRemembers
  BY <1>8, Zenon DEF ToolRemembers, At, ControlFrame, loopVars, controlVars
<1>9. CASE ToolsDone
  BY <1>9, Zenon DEF ToolsDone, At, Raise, RaiseIfCancelled, ControlFrame, DrainAt, controlVars,
     TurnDelivers
<1>10. CASE DrainSteering
  BY <1>10, Zenon DEF DrainSteering, At, Go
<1>11. CASE Drained
  BY <1>11, Zenon
     DEF Drained, At, Go, RaiseIfCancelled, ControlFrame, Otherwise, Raise, controlVars
<1>12. CASE AppendSteer
  BY <1>12, Zenon DEF AppendSteer, At, Go, Raise, RaiseIfCancelled, ControlFrame, controlVars
<1>13. CASE AfterResponse
  BY <1>13, Zenon
     DEF AfterResponse, At, Go, RaiseIfCancelled, ControlFrame, DrainAt, ApplyJobs, Raise,
         controlVars, TurnDelivers
<1>14. CASE WaitForJob
  BY <1>14, Zenon DEF WaitForJob, At, Go, ControlFrame, controlVars
<1>15. CASE StopHook
  BY <1>15, Zenon DEF StopHook, At, Raise, RaiseIfCancelled, ControlFrame, DrainAt, controlVars
<1>. QED
  BY <1>1, <1>2, <1>3, <1>4, <1>5, <1>6, <1>7, <1>8, <1>9, <1>10, <1>11, <1>12, <1>13, <1>14,
     <1>15, Zenon DEF TurnInner

-----------------------------------------------------------------------------
(* Lemmas about sequences.                                                 *)

\* A steer appended to those of one turn.
LEMMA TurnAppended ==
    ASSUME NEW f \in [Turns -> Seq(Steers)], NEW t \in Turns, NEW s \in Steers
    PROVE  /\ [f EXCEPT ![t] = Append(@, s)] \in [Turns -> Seq(Steers)]
           /\ [f EXCEPT ![t] = Append(@, s)][t] = Append(f[t], s)
           /\ \A u \in Turns \ {t} : [f EXCEPT ![t] = Append(@, s)][u] = f[u]
<1>1. Append(f[t], s) \in Seq(Steers)
  OBVIOUS
<1>. QED
  BY <1>1, Zenon

\* The elements of a concatenation.
LEMMA TurnConcat ==
    ASSUME NEW a \in Seq(Steers), NEW d \in Seq(Steers)
    PROVE  /\ a \o d \in Seq(Steers) /\ Len(a \o d) = Len(a) + Len(d)
           /\ \A i \in 1..(Len(a) + Len(d)) :
                (a \o d)[i] = IF i <= Len(a) THEN a[i] ELSE d[i - Len(a)]
  OBVIOUS

\* A steer submitted last comes last.
LEMMA TurnAppendsLast ==
    ASSUME NEW a \in Seq(Steers), NEW m \in Seq(Steers), NEW s \in Steers
    PROVE  a \o Append(m, s) = Append(a \o m, s)
<1>1. Append(m, s) = m \o <<s>> /\ <<s>> \in Seq(Steers)
  OBVIOUS
<1>2. a \o m \in Seq(Steers)
  OBVIOUS
<1>3. Append(a \o m, s) = (a \o m) \o <<s>>
  BY <1>2
<1>4. (a \o m) \o <<s>> = a \o (m \o <<s>>)
  BY <1>1
<1>. QED
  BY <1>1, <1>3, <1>4, Zenon

\* Steers on their way from the mailbox to the transcript stay in their order.
LEMMA TurnMoves ==
    ASSUME NEW a \in Seq(Steers), NEW d \in Seq(Steers), NEW m \in Seq(Steers)
    PROVE  /\ d # <<>> => Append(a, Head(d)) \o Tail(d) = a \o d
           /\ (a \o <<>>) \o m = (a \o m) \o <<>>
           /\ \A s \in Steers : (a \o d) \o Append(m, s) = Append((a \o d) \o m, s)
           /\ (a \o d) \o <<>> = a \o d /\ (<<>> \o <<>>) \o m = m /\ a \o <<>> = a
<1>1. ASSUME d # <<>> PROVE Append(a, Head(d)) \o Tail(d) = a \o d
  <2>1. /\ Head(d) \in Steers /\ Tail(d) \in Seq(Steers) /\ Len(Tail(d)) = Len(d) - 1
        /\ \A i \in 1..Len(Tail(d)) : Tail(d)[i] = d[i + 1]
        /\ Head(d) = d[1] /\ Len(d) \in Nat /\ Len(d) > 0 /\ Len(a) \in Nat
    BY <1>1
  <2>. DEFINE b == Append(a, Head(d))
              e == Tail(d)
  <2>2. /\ b \in Seq(Steers) /\ Len(b) = Len(a) + 1 /\ b[Len(a) + 1] = d[1]
        /\ \A i \in 1..Len(a) : b[i] = a[i]
    BY <2>1
  <2>3. e \in Seq(Steers) /\ Len(e) = Len(d) - 1 /\ \A i \in 1..Len(e) : e[i] = d[i + 1]
    BY <2>1, Zenon
  <2>. HIDE DEF b, e
  <2>4. /\ b \o e \in Seq(Steers) /\ Len(b \o e) = Len(b) + Len(e)
        /\ \A i \in 1..(Len(b) + Len(e)) : (b \o e)[i] = IF i <= Len(b) THEN b[i] ELSE e[i - Len(b)]
    BY <2>2, <2>3, TurnConcat, Zenon
  <2>5. /\ a \o d \in Seq(Steers) /\ Len(a \o d) = Len(a) + Len(d)
        /\ \A i \in 1..(Len(a) + Len(d)) : (a \o d)[i] = IF i <= Len(a) THEN a[i] ELSE d[i - Len(a)]
    OBVIOUS
  <2>6. Len(b \o e) = Len(a \o d)
    BY <2>1, <2>2, <2>3, <2>4, <2>5
  <2>7. ASSUME NEW i \in 1..Len(b \o e) PROVE (b \o e)[i] = (a \o d)[i]
    <3>1. i \in 1..(Len(b) + Len(e)) /\ i \in 1..(Len(a) + Len(d))
      BY <2>4, <2>5, <2>6, <2>7, Zenon
    <3>2. CASE i <= Len(a)
      BY <2>1, <2>2, <2>4, <2>5, <3>1, <3>2
    <3>3. CASE i = Len(a) + 1
      BY <2>1, <2>2, <2>4, <2>5, <3>1, <3>3
    <3>4. CASE i > Len(a) + 1
      <4>1. (b \o e)[i] = e[i - Len(b)] /\ (a \o d)[i] = d[i - Len(a)]
        BY <2>1, <2>2, <2>4, <2>5, <3>1, <3>4
      <4>2. i - Len(b) \in 1..Len(e) /\ (i - Len(b)) + 1 = i - Len(a)
        BY <2>1, <2>2, <2>3, <3>1, <3>4
      <4>. QED
        BY <2>3, <4>1, <4>2, Zenon
    <3>. QED
      BY <2>1, <3>1, <3>2, <3>3, <3>4
  <2>8. b \o e = a \o d
    BY <2>4, <2>5, <2>6, <2>7
  <2>. QED
    BY <2>8, Zenon DEF b, e
<1>2. a \o <<>> = a /\ a \o m \in Seq(Steers) /\ (a \o m) \o <<>> = a \o m
  OBVIOUS
<1>3. a \o d \in Seq(Steers) /\ (a \o d) \o <<>> = a \o d
  OBVIOUS
<1>4. (<<>> \o <<>>) \o m = m
  <2>1. <<>> \o <<>> = <<>> /\ <<>> \o m = m
    OBVIOUS
  <2>. QED
    BY <2>1, Zenon
<1>5. ASSUME NEW s \in Steers PROVE (a \o d) \o Append(m, s) = Append((a \o d) \o m, s)
  BY <1>3, TurnAppendsLast, Zenon
<1>. QED
  BY <1>1, <1>2, <1>3, <1>4, <1>5, Zenon

\* What is a prefix of the accepted steers stays one.
LEMMA TurnPrefixes ==
    ASSUME NEW a \in Seq(Steers), NEW d \in Seq(Steers), NEW b \in Seq(Steers)
    PROVE  /\ TurnPrefix(a \o d, b) => TurnPrefix(a, b) /\ TurnPrefix(a \o <<>>, b)
           /\ \A s \in Steers : TurnPrefix(a \o d, b) => TurnPrefix(a \o d, Append(b, s))
           /\ TurnPrefix(a, a \o d)
           /\ TurnPrefix(a, b) => a = SubSeq(b, 1, Len(a))
<1>1. /\ a \o d \in Seq(Steers) /\ Len(a \o d) = Len(a) + Len(d)
      /\ Len(a) \in Nat /\ Len(d) \in Nat /\ Len(b) \in Nat
      /\ \A i \in 1..(Len(a) + Len(d)) : (a \o d)[i] = IF i <= Len(a) THEN a[i] ELSE d[i - Len(a)]
  OBVIOUS
<1>2. a \o <<>> = a
  OBVIOUS
<1>3. TurnPrefix(a, a \o d)
  BY <1>1 DEF TurnPrefix
<1>4. ASSUME TurnPrefix(a \o d, b) PROVE TurnPrefix(a, b)
  BY <1>1, <1>4 DEF TurnPrefix
<1>5. ASSUME NEW s \in Steers, TurnPrefix(a \o d, b) PROVE TurnPrefix(a \o d, Append(b, s))
  <2>1. Len(Append(b, s)) = Len(b) + 1 /\ \A i \in 1..Len(b) : Append(b, s)[i] = b[i]
    OBVIOUS
  <2>. HIDE DEF TurnPrefix
  <2>. QED
    BY <1>1, <1>5, <2>1 DEF TurnPrefix
<1>6. ASSUME TurnPrefix(a, b) PROVE a = SubSeq(b, 1, Len(a))
  BY <1>6 DEF TurnPrefix
<1>. QED
  BY <1>2, <1>3, <1>4, <1>5, <1>6, Zenon

\* The elements after an append.
LEMMA TurnInAppend ==
    ASSUME NEW p \in Seq(Steers), NEW s \in Steers
    PROVE  \A x : TurnIn(x, Append(p, s)) <=> TurnIn(x, p) \/ x = s
<1>1. /\ Len(Append(p, s)) = Len(p) + 1 /\ Append(p, s)[Len(p) + 1] = s /\ Len(p) \in Nat
      /\ \A i \in 1..Len(p) : Append(p, s)[i] = p[i]
  OBVIOUS
<1>2. \A k : k \in 1..(Len(p) + 1) <=> k \in 1..Len(p) \/ k = Len(p) + 1
  BY <1>1
<1>. QED
  BY <1>1, <1>2, Zenon DEF TurnIn

\* The range of a sequence is the set of its elements.
LEMMA TurnRange ==
    ASSUME NEW p \in Seq(Steers)
    PROVE  \A x : x \in Range(p) <=> TurnIn(x, p)
  BY DEF Range, TurnIn

-----------------------------------------------------------------------------
(* The types.                                                              *)

\* The runner's variables keep their types.
LEMMA TurnRunnerKept ==
    ASSUME TurnInv, Next
    PROVE  TurnRunnerOK'
<1>0. TurnRunnerOK
  BY Zenon DEF TurnInv, TurnTypeOK
<1>. USE DEF TurnRunnerOK
<1>1. ASSUME NEW t \in Turns, Enqueue(t) PROVE TurnRunnerOK'
  BY <1>0, <1>1 DEF Enqueue, controlVars, loopVars, recordVars, jobVars, historyVars
<1>2. ASSUME NEW t \in Turns, Cancel(t) PROVE TurnRunnerOK'
  BY <1>0, <1>2, Zenon DEF Cancel, ControlCancel, loopVars, recordVars, jobVars
<1>3. ASSUME NEW s \in Steers, Steer(s) PROVE TurnRunnerOK'
  <2>1. SteerTurn[s] \in Turns
    BY SteerTurnAssumption, Zenon
  <2>2. \/ pendingSteers' = pendingSteers
        \/ pendingSteers' = [pendingSteers EXCEPT ![SteerTurn[s]] = Append(@, s)]
    BY <1>3, Zenon DEF Steer
  <2>3. pendingSteers \in [Turns -> Seq(Steers)]
    BY <1>0, Zenon
  <2>4. pendingSteers' \in [Turns -> Seq(Steers)]
    <3>1. CASE pendingSteers' = pendingSteers
      BY <2>3, <3>1, Zenon
    <3>2. CASE pendingSteers' = [pendingSteers EXCEPT ![SteerTurn[s]] = Append(@, s)]
      BY <2>1, <2>3, <3>2, TurnAppended, Zenon
    <3>. QED
      BY <2>2, <3>1, <3>2, Zenon
  <2>. QED
    BY <1>0, <1>3, <2>4, Zenon DEF Steer
<1>4. CASE Shutdown
  BY <1>0, <1>4, Zenon DEF Shutdown, ControlCancel, loopVars, recordVars, jobVars
<1>5. ASSUME NEW j \in Jobs, JobSettles(j) PROVE TurnRunnerOK'
  BY <1>0, <1>5, Zenon
     DEF JobSettles, runnerVars, controlVars, loopVars, recordVars, historyVars
<1>6. CASE RunTurn
  BY <1>0, <1>6 DEF RunTurn, recordVars, jobVars
<1>7. CASE BeginTurn
  BY <1>0, <1>7, Zenon DEF BeginTurn, runnerVars, controlVars, jobVars, historyVars
<1>8. CASE Return
  BY <1>0, <1>8, Zenon DEF Return, runnerVars, controlVars, historyVars
<1>9. CASE Reconcile
  BY <1>0, <1>9, Zenon DEF Reconcile, runnerVars, controlVars, jobVars, historyVars
<1>10. CASE CancelJobs
  BY <1>0, <1>10, Zenon DEF CancelJobs, runnerVars, controlVars, recordVars, historyVars
<1>11. CASE FinishTurn
  BY <1>0, <1>11, Zenon DEF FinishTurn, runnerVars, controlVars, jobVars, historyVars
<1>12. CASE Release
  BY <1>0, <1>12, Zenon DEF Release, jobVars, historyVars
<1>13. CASE TurnInner
  BY <1>0, <1>13, TurnInnerFrame, Zenon DEF TurnStays, AgentFrame, runnerVars
<1>. QED
  BY <1>1, <1>2, <1>3, <1>4, <1>5, <1>6, <1>7, <1>8, <1>9, <1>10, <1>11, <1>12, <1>13, Zenon DEF
     Next, AgentStep, TurnInner

\* The control of the current turn keeps its types: what was pending for the turn that starts
\* is what it accepted.
LEMMA TurnControlKept ==
    ASSUME TurnInv, Next
    PROVE  TurnControlOK'
<1>0. TurnControlOK /\ TurnRunnerOK /\ TurnHistoryOK /\ TurnLife /\ TurnPending
  BY Zenon DEF TurnInv, TurnTypeOK
<1>. USE DEF TurnControlOK
<1>e. <<>> \in Seq(Steers)
  OBVIOUS
<1>1. ASSUME NEW t \in Turns, Enqueue(t) PROVE TurnControlOK'
  BY <1>0, <1>1, <1>e, Zenon
     DEF Enqueue, controlVars, loopVars, recordVars, jobVars, historyVars
<1>2. ASSUME NEW t \in Turns, Cancel(t) PROVE TurnControlOK'
  BY <1>0, <1>2, <1>e, Zenon DEF Cancel, ControlCancel, loopVars, recordVars, jobVars
<1>3. ASSUME NEW s \in Steers, Steer(s) PROVE TurnControlOK'
  BY <1>0, <1>3, <1>e DEF Steer, loopVars, recordVars, jobVars
<1>4. CASE Shutdown
  BY <1>0, <1>4, <1>e, Zenon DEF Shutdown, ControlCancel, loopVars, recordVars, jobVars
<1>5. ASSUME NEW j \in Jobs, JobSettles(j) PROVE TurnControlOK'
  BY <1>0, <1>5, <1>e, Zenon
     DEF JobSettles, runnerVars, controlVars, loopVars, recordVars, historyVars
<1>6. CASE RunTurn
  <2>. DEFINE t == Head(inbox)
  <2>1. t \in Turns /\ TurnWaits(t)
    BY <1>0, <1>6 DEF RunTurn, TurnRunnerOK, TurnLife
  <2>2. EachOnce(pendingSteers[t]) \in Seq(Steers)
    BY <1>0, <2>1, Zenon DEF TurnPending, TurnHistoryOK
  <2>3. Range(pendingSteers[t]) \in SUBSET Steers
    BY <1>0, <2>1 DEF TurnRunnerOK, Range
  <2>. QED
    BY <1>6, <1>e, <2>2, <2>3, Zenon DEF RunTurn
<1>7. CASE BeginTurn
  BY <1>0, <1>7, <1>e, Zenon DEF BeginTurn, runnerVars, controlVars, jobVars, historyVars
<1>8. CASE Return
  BY <1>0, <1>8, <1>e, Zenon DEF Return, runnerVars, controlVars, historyVars
<1>9. CASE Reconcile
  BY <1>0, <1>9, <1>e, Zenon DEF Reconcile, runnerVars, controlVars, jobVars, historyVars
<1>10. CASE CancelJobs
  BY <1>0, <1>10, <1>e, Zenon DEF CancelJobs, runnerVars, controlVars, recordVars, historyVars
<1>11. CASE FinishTurn
  BY <1>0, <1>11, <1>e, Zenon DEF FinishTurn, runnerVars, controlVars, jobVars, historyVars
<1>12. CASE Release
  BY <1>0, <1>12, <1>e, Zenon DEF Release, jobVars, historyVars
<1>13. CASE TurnInner
  <2>1. CASE DrainSteering
    BY <1>0, <2>1 DEF DrainSteering
  <2>2. CASE ControlFrame
    BY <1>0, <2>2, Zenon DEF ControlFrame, controlVars
  <2>. QED
    BY <1>13, <2>1, <2>2, TurnInnerFrame, Zenon DEF TurnStays
<1>. QED
  BY <1>1, <1>2, <1>3, <1>4, <1>5, <1>6, <1>7, <1>8, <1>9, <1>10, <1>11, <1>12, <1>13, Zenon DEF
     Next, AgentStep, TurnInner

\* The loop's variables keep their types.
LEMMA TurnLoopKept ==
    ASSUME TurnInv, Next
    PROVE  TurnLoopOK'
<1>0. TurnLoopOK /\ TurnControlOK /\ TurnFlow
  BY Zenon DEF TurnInv, TurnTypeOK
<1>. USE DEF TurnLoopOK, TurnPlaces
<1>e. <<>> \in Seq(Steers)
  OBVIOUS
<1>1. ASSUME NEW t \in Turns, Enqueue(t) PROVE TurnLoopOK'
  BY <1>0, <1>1, <1>e, Zenon
     DEF Enqueue, controlVars, loopVars, recordVars, jobVars, historyVars
<1>2. ASSUME NEW t \in Turns, Cancel(t) PROVE TurnLoopOK'
  BY <1>0, <1>2, <1>e, Zenon DEF Cancel, ControlCancel, loopVars, recordVars, jobVars
<1>3. ASSUME NEW s \in Steers, Steer(s) PROVE TurnLoopOK'
  BY <1>0, <1>3, <1>e, Zenon DEF Steer, loopVars, recordVars, jobVars
<1>4. CASE Shutdown
  BY <1>0, <1>4, <1>e, Zenon DEF Shutdown, ControlCancel, loopVars, recordVars, jobVars
<1>5. ASSUME NEW j \in Jobs, JobSettles(j) PROVE TurnLoopOK'
  BY <1>0, <1>5, <1>e, Zenon
     DEF JobSettles, runnerVars, controlVars, loopVars, recordVars, historyVars
<1>6. CASE RunTurn
  BY <1>0, <1>6, <1>e, Zenon DEF RunTurn, recordVars, jobVars
<1>7. CASE EnsurePlane
  BY <1>0, <1>7, <1>e, Zenon
     DEF EnsurePlane, At, Go, ControlFrame, AgentFrame, controlVars, runnerVars
<1>8. CASE BeginTurn
  BY <1>0, <1>8, <1>e, Zenon DEF BeginTurn, runnerVars, controlVars, jobVars, historyVars
<1>9. CASE CheckInput
  BY <1>0, <1>9, <1>e, Zenon
     DEF CheckInput, At, Go, Raise, RaiseIfCancelled, ControlFrame, AgentFrame, controlVars,
         runnerVars
<1>10. CASE LoopTop
  BY <1>0, <1>10, <1>e, Zenon DEF LoopTop, At, Go, RaiseIfCancelled, ControlFrame, ApplyJobs,
     AgentFrame, Raise, controlVars, runnerVars
<1>11. CASE BuildRequest
  BY <1>0, <1>11, <1>e, Zenon
     DEF BuildRequest, At, Go, Raise, ControlFrame, AgentFrame, controlVars, runnerVars
<1>12. CASE Archive
  BY <1>0, <1>12, <1>e, Zenon DEF Archive, At, Raise, RaiseIfCancelled, ControlFrame, DrainAt,
     AgentFrame, controlVars, runnerVars
<1>13. CASE ModelResponds
  BY <1>0, <1>13, <1>e, Zenon DEF ModelResponds, At, Go, Raise, RaiseIfCancelled, ControlFrame,
     AgentFrame, controlVars, runnerVars
<1>14. ASSUME NEW j \in Jobs, ToolSubmits(j) PROVE TurnLoopOK'
  BY <1>0, <1>14, <1>e, Zenon
     DEF ToolSubmits, At, ControlFrame, loopVars, AgentFrame, controlVars, runnerVars
<1>15. CASE ToolRemembers
  BY <1>0, <1>15, <1>e, Zenon
     DEF ToolRemembers, At, ControlFrame, loopVars, AgentFrame, controlVars, runnerVars
<1>16. CASE ToolsDone
  BY <1>0, <1>16, <1>e, Zenon DEF ToolsDone, At, Raise, RaiseIfCancelled, ControlFrame, DrainAt,
     AgentFrame, controlVars, runnerVars
<1>17. CASE DrainSteering
  BY <1>0, <1>17, <1>e, Zenon DEF DrainSteering, Go, TurnControlOK
<1>18. CASE Drained
  BY <1>0, <1>18, <1>e, Zenon DEF Drained, At, Go, RaiseIfCancelled, ControlFrame, Otherwise,
     AgentFrame, Raise, controlVars, runnerVars
<1>19. CASE AppendSteer
  <2>1. CASE taken' = <<>> /\ pc' = "unwind" /\ outcome' \in {"failed", "cancelled"} /\ site' = site
    BY <1>0, <1>e, <2>1, Zenon
  <2>2. CASE /\ taken' = Tail(taken) /\ taken # <<>> /\ pc' \in {"top", "append"}
             /\ UNCHANGED <<site, outcome>>
    BY <1>0, <2>2
  <2>. QED
    <3>1. taken # <<>>
      BY <1>0, <1>19, Zenon DEF TurnFlow, AppendSteer, At
    <3>. QED
      BY <1>19, <2>1, <2>2, <3>1, Zenon DEF AppendSteer, Go, Raise, RaiseIfCancelled
<1>20. CASE AfterResponse
  BY <1>0, <1>20, <1>e, Zenon
     DEF AfterResponse, At, Go, RaiseIfCancelled, ControlFrame, DrainAt, ApplyJobs, AgentFrame,
         Raise, controlVars, runnerVars
<1>21. CASE WaitForJob
  BY <1>0, <1>21, <1>e, Zenon
     DEF WaitForJob, At, Go, ControlFrame, AgentFrame, controlVars, runnerVars
<1>22. CASE StopHook
  BY <1>0, <1>22, <1>e, Zenon DEF StopHook, At, Raise, RaiseIfCancelled, ControlFrame, DrainAt,
     AgentFrame, controlVars, runnerVars
<1>23. CASE Return
  BY <1>0, <1>23, <1>e, Zenon DEF Return, runnerVars, controlVars, historyVars
<1>24. CASE Reconcile
  BY <1>0, <1>24, <1>e, Zenon DEF Reconcile, runnerVars, controlVars, jobVars, historyVars
<1>25. CASE CancelJobs
  BY <1>0, <1>25, <1>e, Zenon DEF CancelJobs, runnerVars, controlVars, recordVars, historyVars
<1>26. CASE FinishTurn
  BY <1>0, <1>26, <1>e, Zenon DEF FinishTurn, runnerVars, controlVars, jobVars, historyVars
<1>27. CASE Release
  BY <1>0, <1>27, <1>e, Zenon DEF Release, jobVars, historyVars
<1>. QED
  BY <1>1, <1>2, <1>3, <1>4, <1>5, <1>6, <1>7, <1>8, <1>9, <1>10, <1>11, <1>12, <1>13, <1>14,
     <1>15, <1>16, <1>17, <1>18, <1>19, <1>20, <1>21, <1>22, <1>23, <1>24, <1>25, <1>26, <1>27,
     Zenon DEF Next, AgentStep

\* The records keep their types.
LEMMA TurnRecordKept ==
    ASSUME TurnInv, Next
    PROVE  TurnRecordOK'
<1>0. TurnRecordOK /\ TurnRunnerOK /\ TurnLoopOK /\ TurnLife
  BY Zenon DEF TurnInv, TurnTypeOK
<1>. USE DEF TurnRecordOK
<1>c. pc # "idle" => current \in Turns
  BY <1>0, Zenon DEF TurnLife, TurnRunnerOK
<1>1. ASSUME NEW t \in Turns, Enqueue(t) PROVE TurnRecordOK'
  BY <1>0, <1>1, <1>c, Zenon
     DEF Enqueue, controlVars, loopVars, recordVars, jobVars, historyVars
<1>2. ASSUME NEW t \in Turns, Cancel(t) PROVE TurnRecordOK'
  BY <1>0, <1>2, <1>c, Zenon DEF Cancel, ControlCancel, loopVars, recordVars, jobVars
<1>3. ASSUME NEW s \in Steers, Steer(s) PROVE TurnRecordOK'
  BY <1>0, <1>3, <1>c, Zenon DEF Steer, loopVars, recordVars, jobVars
<1>4. CASE Shutdown
  BY <1>0, <1>4, <1>c, Zenon DEF Shutdown, ControlCancel, loopVars, recordVars, jobVars
<1>5. ASSUME NEW j \in Jobs, JobSettles(j) PROVE TurnRecordOK'
  BY <1>0, <1>5, <1>c, Zenon
     DEF JobSettles, runnerVars, controlVars, loopVars, recordVars, historyVars
<1>6. CASE RunTurn
  BY <1>0, <1>6, <1>c, Zenon DEF RunTurn, recordVars, jobVars
<1>7. CASE BeginTurn
  BY <1>0, <1>7, <1>c, Zenon DEF BeginTurn, runnerVars, controlVars, jobVars, historyVars
<1>8. CASE Return
  BY <1>0, <1>8, <1>c, Zenon DEF Return, runnerVars, controlVars, historyVars
<1>9. CASE Reconcile
  BY <1>0, <1>9, <1>c, Zenon DEF Reconcile, runnerVars, controlVars, jobVars, historyVars
<1>10. CASE CancelJobs
  BY <1>0, <1>10, <1>c, Zenon DEF CancelJobs, runnerVars, controlVars, recordVars, historyVars
<1>11. CASE FinishTurn
  BY <1>0, <1>c, <1>11, Zenon DEF FinishTurn, TurnLoopOK
<1>12. CASE Release
  BY <1>0, <1>c, <1>12, Zenon DEF Release, TurnLoopOK
<1>13. CASE TurnInner
  BY <1>0, <1>13, TurnInnerFrame, <1>c, Zenon DEF TurnStays, AgentFrame, runnerVars
<1>. QED
  BY <1>1, <1>2, <1>3, <1>4, <1>5, <1>6, <1>7, <1>8, <1>9, <1>10, <1>11, <1>12, <1>13, Zenon DEF
     Next, AgentStep, TurnInner

\* The jobs keep their types.
LEMMA TurnJobsKept ==
    ASSUME TurnInv, Next
    PROVE  TurnJobsOK'
<1>0. TurnJobsOK /\ TurnRunnerOK
  BY Zenon DEF TurnInv, TurnTypeOK
<1>. USE DEF TurnJobsOK
<1>1. ASSUME NEW t \in Turns, Enqueue(t) PROVE TurnJobsOK'
  BY <1>0, <1>1, Zenon DEF Enqueue, controlVars, loopVars, recordVars, jobVars, historyVars
<1>2. ASSUME NEW t \in Turns, Cancel(t) PROVE TurnJobsOK'
  BY <1>0, <1>2, Zenon DEF Cancel, ControlCancel, loopVars, recordVars, jobVars
<1>3. ASSUME NEW s \in Steers, Steer(s) PROVE TurnJobsOK'
  BY <1>0, <1>3, Zenon DEF Steer, loopVars, recordVars, jobVars
<1>4. CASE Shutdown
  BY <1>0, <1>4, Zenon DEF Shutdown, ControlCancel, loopVars, recordVars, jobVars
<1>5. ASSUME NEW j \in Jobs, JobSettles(j) PROVE TurnJobsOK'
  BY <1>0, <1>5, Zenon
     DEF JobSettles, runnerVars, controlVars, loopVars, recordVars, historyVars, Board!Settle,
         Board!Move
<1>6. CASE RunTurn
  BY <1>0, <1>6, Zenon DEF RunTurn, recordVars, jobVars
<1>7. CASE BeginTurn
  BY <1>0, <1>7, Zenon DEF BeginTurn, runnerVars, controlVars, jobVars, historyVars
<1>8. CASE Return
  BY <1>0, <1>8, Zenon DEF Return, runnerVars, controlVars, historyVars
<1>9. CASE Reconcile
  BY <1>0, <1>9, Zenon DEF Reconcile, runnerVars, controlVars, jobVars, historyVars
<1>10. CASE CancelJobs
  BY <1>0, <1>10, Zenon DEF CancelJobs, runnerVars, controlVars, recordVars, historyVars,
     Board!Discard, Board!Move
<1>11. CASE FinishTurn
  BY <1>0, <1>11, Zenon DEF FinishTurn, runnerVars, controlVars, jobVars, historyVars
<1>12. CASE Release
  BY <1>0, <1>12, Zenon DEF Release, jobVars, historyVars
<1>13. CASE TurnInner
  <2>1. phase' \in [Jobs -> {"new", "open", "settled", "delivered", "dropped"}]
    <3>1. CASE phase' = phase
      BY <1>0, <3>1, Zenon
    <3>2. CASE TurnDelivers
      BY <1>0, <3>2, Zenon DEF TurnDelivers
    <3>3. ASSUME NEW j \in Jobs, ToolSubmits(j)
          PROVE  phase' \in [Jobs -> {"new", "open", "settled", "delivered", "dropped"}]
      BY <1>0, <3>3, Zenon DEF ToolSubmits
    <3>. QED
      BY <1>13, <3>1, <3>2, <3>3, TurnInnerFrame, Zenon DEF TurnStays
  <2>. QED
    BY <1>0, <1>13, <2>1, TurnInnerFrame, Zenon DEF TurnStays, AgentFrame
<1>. QED
  BY <1>1, <1>2, <1>3, <1>4, <1>5, <1>6, <1>7, <1>8, <1>9, <1>10, <1>11, <1>12, <1>13, Zenon DEF
     Next, AgentStep, TurnInner

\* The histories keep their types.
LEMMA TurnHistoryKept ==
    ASSUME TurnInv, Next
    PROVE  TurnHistoryOK'
<1>0. TurnHistoryOK /\ TurnRunnerOK /\ TurnLoopOK /\ TurnLife /\ TurnFlow
  BY Zenon DEF TurnInv, TurnTypeOK
<1>. USE DEF TurnHistoryOK
<1>c. pc # "idle" => current \in Turns
  BY <1>0, Zenon DEF TurnLife, TurnRunnerOK
<1>1. ASSUME NEW t \in Turns, Enqueue(t) PROVE TurnHistoryOK'
  BY <1>0, <1>1, <1>c, Zenon
     DEF Enqueue, controlVars, loopVars, recordVars, jobVars, historyVars
<1>2. ASSUME NEW t \in Turns, Cancel(t) PROVE TurnHistoryOK'
  BY <1>0, <1>2, <1>c, Zenon DEF Cancel, ControlCancel, loopVars, recordVars, jobVars
<1>3. ASSUME NEW s \in Steers, Steer(s) PROVE TurnHistoryOK'
  <2>1. SteerTurn[s] \in Turns
    BY SteerTurnAssumption, Zenon
  <2>2. accepted' = accepted \/ accepted' = [accepted EXCEPT ![SteerTurn[s]] = Append(@, s)]
    BY <1>0, <1>3, <2>1, Zenon DEF Steer, Once
  <2>3. accepted \in [Turns -> Seq(Steers)]
    BY <1>0, Zenon
  <2>4. accepted' \in [Turns -> Seq(Steers)]
    <3>1. CASE accepted' = accepted
      BY <2>3, <3>1, Zenon
    <3>2. CASE accepted' = [accepted EXCEPT ![SteerTurn[s]] = Append(@, s)]
      BY <2>1, <2>3, <3>2, TurnAppended, Zenon
    <3>. QED
      BY <2>2, <3>1, <3>2, Zenon
  <2>. QED
    BY <1>0, <1>3, <2>4, Zenon DEF Steer
<1>4. CASE Shutdown
  <2>1. current # NoTurn => current \in Turns
    BY <1>0, Zenon DEF TurnRunnerOK
  <2>. QED
    BY <1>0, <1>4, <2>1, Zenon DEF Shutdown, ControlCancel
<1>5. ASSUME NEW j \in Jobs, JobSettles(j) PROVE TurnHistoryOK'
  BY <1>0, <1>5, <1>c, Zenon
     DEF JobSettles, runnerVars, controlVars, loopVars, recordVars, historyVars
<1>6. CASE RunTurn
  <2>1. Head(inbox) \in Turns
    BY <1>0, <1>6 DEF RunTurn, TurnRunnerOK
  <2>. QED
    BY <1>0, <1>6, <2>1, Zenon DEF RunTurn
<1>7. CASE BeginTurn
  BY <1>0, <1>7, <1>c, Zenon DEF BeginTurn, runnerVars, controlVars, jobVars, historyVars
<1>8. CASE Return
  BY <1>0, <1>8, <1>c, Zenon DEF Return, runnerVars, controlVars, historyVars
<1>9. CASE Reconcile
  BY <1>0, <1>9, <1>c, Zenon DEF Reconcile, runnerVars, controlVars, jobVars, historyVars
<1>10. CASE CancelJobs
  BY <1>0, <1>10, <1>c, Zenon DEF CancelJobs, runnerVars, controlVars, recordVars, historyVars
<1>11. CASE FinishTurn
  BY <1>0, <1>11, <1>c, Zenon DEF FinishTurn, runnerVars, controlVars, jobVars, historyVars
<1>12. CASE Release
  BY <1>0, <1>12, <1>c, Zenon DEF Release, jobVars, historyVars
<1>13. CASE TurnInner
  <2>1. CASE AppendSteer
    <3>1. current \in Turns /\ taken # <<>>
      BY <1>0, <1>c, <2>1, Zenon DEF AppendSteer, At, TurnFlow
    <3>2. Head(taken) \in Steers
      BY <1>0, <3>1 DEF TurnLoopOK
    <3>3. applied' = applied \/ applied' = [applied EXCEPT ![current] = Append(@, Head(taken))]
      BY <2>1, Zenon DEF AppendSteer, Raise, RaiseIfCancelled
    <3>4. applied \in [Turns -> Seq(Steers)]
      BY <1>0, Zenon
    <3>5. applied' \in [Turns -> Seq(Steers)]
      <4>1. CASE applied' = applied
        BY <3>4, <4>1, Zenon
      <4>2. CASE applied' = [applied EXCEPT ![current] = Append(@, Head(taken))]
        BY <3>1, <3>2, <3>4, <4>2, TurnAppended, Zenon
      <4>. QED
        BY <3>3, <4>1, <4>2, Zenon
    <3>. QED
      BY <1>0, <2>1, <3>5, Zenon DEF AppendSteer, At, AgentFrame
  <2>2. CASE applied' = applied
    BY <1>0, <1>13, <2>2, TurnInnerFrame, Zenon DEF TurnStays, AgentFrame
  <2>. QED
    BY <1>13, <2>1, <2>2, TurnInnerFrame, Zenon DEF TurnStays
<1>. QED
  BY <1>1, <1>2, <1>3, <1>4, <1>5, <1>6, <1>7, <1>8, <1>9, <1>10, <1>11, <1>12, <1>13, Zenon DEF
     Next, AgentStep, TurnInner

-----------------------------------------------------------------------------
(* What the steps of the runner do to the turns.                           *)

\* A steer is accepted at most once, by the turn it addresses.
LEMMA TurnSteered ==
    ASSUME TurnInv, NEW s \in Steers, Steer(s)
    PROVE  \/ accepted' = accepted
           \/ /\ accepted' = [accepted EXCEPT ![SteerTurn[s]] = Append(@, s)]
              /\ ~TurnIn(s, accepted[SteerTurn[s]])
<1>. DEFINE t == SteerTurn[s]
<1>1. t \in Turns /\ accepted \in [Turns -> Seq(Steers)]
  BY SteerTurnAssumption, Zenon DEF TurnInv, TurnTypeOK, TurnHistoryOK
<1>2. s \in Range(accepted[t]) <=> TurnIn(s, accepted[t])
  BY <1>1, TurnRange, Zenon
<1>3. accepted' \in {accepted, [accepted EXCEPT ![t] = Once(@, s)]}
  BY Zenon DEF Steer
<1>4. CASE TurnIn(s, accepted[t])
  BY <1>1, <1>2, <1>3, <1>4, Zenon DEF Once
<1>5. CASE ~TurnIn(s, accepted[t])
  BY <1>1, <1>2, <1>3, <1>5, Zenon DEF Once
<1>. QED
  BY <1>4, <1>5, Zenon

\* A turn that waits has waited before.
LEMMA TurnWaitsBefore ==
    ASSUME TurnInv, Next
    PROVE  \A t \in Turns : TurnWaits(t)' => TurnWaits(t)
<1>0. TurnLife /\ TurnFlow /\ TurnRunnerOK /\ TurnRecordOK
  BY Zenon DEF TurnInv, TurnTypeOK
<1>1. ASSUME NEW v \in Turns, Enqueue(v) PROVE \A t \in Turns : TurnWaits(t)' => TurnWaits(t)
  BY <1>1, Zenon DEF Enqueue, recordVars, TurnWaits
<1>2. ASSUME NEW v \in Turns, Cancel(v) PROVE \A t \in Turns : TurnWaits(t)' => TurnWaits(t)
  BY <1>2, Zenon DEF Cancel, recordVars, TurnWaits
<1>3. ASSUME NEW u \in Steers, Steer(u) PROVE \A t \in Turns : TurnWaits(t)' => TurnWaits(t)
  BY <1>3, Zenon DEF Steer, recordVars, TurnWaits
<1>4. CASE Shutdown
  BY <1>4, Zenon DEF Shutdown, recordVars, TurnWaits
<1>5. ASSUME NEW u \in Jobs, JobSettles(u) PROVE \A t \in Turns : TurnWaits(t)' => TurnWaits(t)
  BY <1>5, Zenon DEF JobSettles, runnerVars, recordVars, TurnWaits
<1>6. CASE RunTurn
  BY <1>0, <1>6, NoTurnAssumption, Zenon DEF RunTurn, recordVars, TurnWaits, TurnLife
<1>7. CASE BeginTurn
  BY <1>7, Zenon DEF BeginTurn, runnerVars, TurnWaits
<1>8. CASE Return
  BY <1>8, Zenon DEF Return, runnerVars, TurnWaits
<1>9. CASE Reconcile
  BY <1>9, Zenon DEF Reconcile, runnerVars, TurnWaits
<1>10. CASE CancelJobs
  BY <1>10, Zenon DEF CancelJobs, runnerVars, recordVars, TurnWaits
<1>11. CASE FinishTurn
  BY <1>11, Zenon DEF FinishTurn, runnerVars, TurnWaits
<1>12. CASE Release
  <2>1. outcome # "none" /\ result \in [Turns -> {"none", "failed", "cancelled", "completed"}]
    BY <1>0, <1>12, Zenon DEF Release, TurnFlow, TurnRecordOK
  <2>. QED
    BY <1>12, <2>1, NoTurnAssumption, Zenon DEF Release, TurnWaits
<1>13. CASE TurnInner
  BY <1>13, TurnInnerFrame, Zenon DEF TurnStays, AgentFrame, runnerVars, TurnWaits
<1>. QED
  BY <1>1, <1>2, <1>3, <1>4, <1>5, <1>6, <1>7, <1>8, <1>9, <1>10, <1>11, <1>12, <1>13, Zenon DEF
     Next, AgentStep, TurnInner

\* The turn that run_turn takes has waited.
LEMMA TurnTaken ==
    ASSUME TurnInv, RunTurn
    PROVE  /\ current = NoTurn
           /\ Head(inbox) \in Turns /\ TurnWaits(Head(inbox))
           /\ status[Head(inbox)] = "none" /\ turn[Head(inbox)] = "open"
<1>1. TurnLife /\ inbox \in Seq(Turns) /\ inbox # <<>> /\ pc = "idle"
  BY Zenon DEF TurnInv, TurnTypeOK, TurnRunnerOK, RunTurn
<1>2. Head(inbox) \in Turns /\ Head(inbox) \in queued
  BY <1>1 DEF TurnLife
<1>. QED
  BY <1>1, <1>2, Zenon DEF TurnLife

-----------------------------------------------------------------------------
(* The rest of the invariant, part by part.                                *)

\* Turns come one after the other.
LEMMA TurnLifeKept ==
    ASSUME TurnInv, Next
    PROVE  TurnLife'
<1>0. TurnLife /\ TurnFlow /\ TurnRunnerOK /\ TurnRecordOK /\ TurnJobsOK
  BY Zenon DEF TurnInv, TurnTypeOK
<1>. USE DEF TurnLife, TurnWaits
<1>1. ASSUME NEW t \in Turns, Enqueue(t) PROVE TurnLife'
  BY <1>0, <1>1, NoTurnAssumption DEF Enqueue, controlVars, loopVars, recordVars, jobVars,
     historyVars
<1>2. ASSUME NEW t \in Turns, Cancel(t) PROVE TurnLife'
  BY <1>0, <1>2, Zenon DEF Cancel, ControlCancel, loopVars, recordVars, jobVars
<1>3. ASSUME NEW s \in Steers, Steer(s) PROVE TurnLife'
  BY <1>0, <1>3, Zenon DEF Steer, loopVars, recordVars, jobVars
<1>4. CASE Shutdown
  BY <1>0, <1>4, Zenon DEF Shutdown, ControlCancel, loopVars, recordVars, jobVars
<1>5. ASSUME NEW j \in Jobs, JobSettles(j) PROVE TurnLife'
  BY <1>0, <1>5, Zenon
     DEF JobSettles, runnerVars, controlVars, loopVars, recordVars, historyVars, Board!Settle,
         Board!Move
<1>6. CASE RunTurn
  BY <1>0, <1>6, NoTurnAssumption DEF RunTurn, recordVars, jobVars
<1>7. CASE BeginTurn
  BY <1>0, <1>7 DEF BeginTurn, runnerVars, controlVars, jobVars, historyVars
<1>8. CASE Return
  BY <1>0, <1>8 DEF Return, runnerVars, controlVars, historyVars
<1>9. CASE Reconcile
  BY <1>0, <1>9, Zenon DEF Reconcile, runnerVars, controlVars, jobVars, historyVars
<1>10. CASE CancelJobs
  BY <1>0, <1>10 DEF CancelJobs, runnerVars, controlVars, recordVars, historyVars,
     Board!Discard, Board!Move
<1>11. CASE FinishTurn
  BY <1>0, <1>11 DEF FinishTurn, runnerVars, controlVars, jobVars, historyVars
<1>12. CASE Release
  <2>1. outcome # "none" /\ result \in [Turns -> {"none", "failed", "cancelled", "completed"}]
    BY <1>0, <1>12, Zenon DEF Release, TurnFlow, TurnRecordOK
  <2>2. queued \subseteq Turns
    BY <1>0, Zenon DEF TurnRunnerOK
  <2>. QED
    BY <1>0, <1>12, <2>1, <2>2, NoTurnAssumption DEF Release, jobVars
<1>13. CASE TurnInner
  BY <1>0, <1>13, TurnInnerFrame, Zenon DEF TurnStays, AgentFrame, runnerVars
<1>. QED
  BY <1>1, <1>2, <1>3, <1>4, <1>5, <1>6, <1>7, <1>8, <1>9, <1>10, <1>11, <1>12, <1>13, Zenon DEF
     Next, AgentStep, TurnInner

\* The way through the loop.
LEMMA TurnFlowKept ==
    ASSUME TurnInv, Next
    PROVE  TurnFlow'
<1>0. TurnFlow /\ TurnLife /\ TurnRunnerOK /\ TurnControlOK
  BY Zenon DEF TurnInv, TurnTypeOK
<1>. USE DEF TurnFlow
<1>1. ASSUME NEW t \in Turns, Enqueue(t) PROVE TurnFlow'
  BY <1>0, <1>1, Zenon DEF Enqueue, controlVars, loopVars, recordVars, jobVars, historyVars
<1>2. ASSUME NEW t \in Turns, Cancel(t) PROVE TurnFlow'
  <2>1. current = t => current # NoTurn
    BY NoTurnAssumption, Zenon
  <2>. QED
    BY <1>0, <1>2, <2>1, Zenon DEF Cancel, ControlCancel, loopVars
<1>3. ASSUME NEW s \in Steers, Steer(s) PROVE TurnFlow'
  BY <1>0, <1>3, Zenon DEF Steer, loopVars, recordVars, jobVars
<1>4. CASE Shutdown
  BY <1>0, <1>4, Zenon DEF Shutdown, ControlCancel, loopVars, recordVars, jobVars
<1>5. ASSUME NEW j \in Jobs, JobSettles(j) PROVE TurnFlow'
  BY <1>0, <1>5, Zenon
     DEF JobSettles, runnerVars, controlVars, loopVars, recordVars, historyVars
<1>6. CASE RunTurn
  <2>1. Head(inbox) # NoTurn
    BY <1>6, NoTurnAssumption, TurnTaken, Zenon
  <2>. QED
    BY <1>0, <1>6, <2>1, Zenon DEF RunTurn
<1>7. CASE EnsurePlane
  BY <1>0, <1>7, Zenon
     DEF EnsurePlane, At, Go, ControlFrame, AgentFrame, controlVars, runnerVars
<1>8. CASE BeginTurn
  BY <1>0, <1>8, Zenon DEF BeginTurn, runnerVars, controlVars, jobVars, historyVars
<1>9. CASE CheckInput
  BY <1>0, <1>9, Zenon
     DEF CheckInput, At, Go, Raise, RaiseIfCancelled, ControlFrame, AgentFrame, controlVars,
         runnerVars
<1>10. CASE LoopTop
  BY <1>0, <1>10, Zenon
     DEF LoopTop, At, Go, RaiseIfCancelled, ControlFrame, ApplyJobs, AgentFrame, Raise,
         controlVars, runnerVars
<1>11. CASE BuildRequest
  BY <1>0, <1>11, Zenon DEF BuildRequest, At, Go, Raise, ControlFrame, AgentFrame, controlVars,
     runnerVars
<1>12. CASE Archive
  BY <1>0, <1>12, Zenon
     DEF Archive, At, Raise, RaiseIfCancelled, ControlFrame, DrainAt, AgentFrame, controlVars,
         runnerVars
<1>13. CASE ModelResponds
  BY <1>0, <1>13, Zenon
     DEF ModelResponds, At, Go, Raise, RaiseIfCancelled, ControlFrame, AgentFrame, controlVars,
         runnerVars
<1>14. ASSUME NEW j \in Jobs, ToolSubmits(j) PROVE TurnFlow'
  BY <1>0, <1>14, Zenon DEF ToolSubmits, At, ControlFrame, loopVars, AgentFrame, controlVars,
     runnerVars
<1>15. CASE ToolRemembers
  BY <1>0, <1>15, Zenon DEF ToolRemembers, At, ControlFrame, loopVars, AgentFrame, controlVars,
     runnerVars
<1>16. CASE ToolsDone
  BY <1>0, <1>16, Zenon
     DEF ToolsDone, At, Raise, RaiseIfCancelled, ControlFrame, DrainAt, AgentFrame, controlVars,
         runnerVars
<1>17. CASE DrainSteering
  BY <1>0, <1>17, Zenon DEF DrainSteering, At, Go, AgentFrame, runnerVars, TurnControlOK
<1>18. CASE Drained
  BY <1>0, <1>18, Zenon
     DEF Drained, At, Go, RaiseIfCancelled, ControlFrame, Otherwise, AgentFrame, Raise,
         controlVars, runnerVars
<1>19. CASE AppendSteer
  BY <1>0, <1>19, Zenon
     DEF AppendSteer, At, Go, Raise, RaiseIfCancelled, ControlFrame, AgentFrame, controlVars,
         runnerVars
<1>20. CASE AfterResponse
  BY <1>0, <1>20, Zenon
     DEF AfterResponse, At, Go, RaiseIfCancelled, ControlFrame, DrainAt, ApplyJobs, AgentFrame,
         Raise, controlVars, runnerVars
<1>21. CASE WaitForJob
  BY <1>0, <1>21, Zenon
     DEF WaitForJob, At, Go, ControlFrame, AgentFrame, controlVars, runnerVars
<1>22. CASE StopHook
  BY <1>0, <1>22, Zenon
     DEF StopHook, At, Raise, RaiseIfCancelled, ControlFrame, DrainAt, AgentFrame, controlVars,
         runnerVars
<1>23. CASE Return
  BY <1>0, <1>23, Zenon DEF Return, runnerVars, controlVars, historyVars
<1>24. CASE Reconcile
  BY <1>0, <1>24, Zenon DEF Reconcile, runnerVars, controlVars, jobVars, historyVars
<1>25. CASE CancelJobs
  BY <1>0, <1>25, Zenon DEF CancelJobs, runnerVars, controlVars, recordVars, historyVars
<1>26. CASE FinishTurn
  BY <1>0, <1>26, Zenon DEF FinishTurn, runnerVars, controlVars, jobVars, historyVars
<1>27. CASE Release
  BY <1>0, <1>27, Zenon DEF Release, jobVars, historyVars
<1>. QED
  BY <1>1, <1>2, <1>3, <1>4, <1>5, <1>6, <1>7, <1>8, <1>9, <1>10, <1>11, <1>12, <1>13, <1>14,
     <1>15, <1>16, <1>17, <1>18, <1>19, <1>20, <1>21, <1>22, <1>23, <1>24, <1>25, <1>26, <1>27,
     Zenon DEF Next, AgentStep

\* The steers of the current turn are in its transcript, drained or in the mailbox.
LEMMA TurnSteersKept ==
    ASSUME TurnInv, Next
    PROVE  TurnSteers'
<1>0. /\ TurnSteers /\ TurnPending /\ TurnLife /\ TurnFlow
      /\ TurnRunnerOK /\ TurnControlOK /\ TurnLoopOK /\ TurnHistoryOK
  BY Zenon DEF TurnInv, TurnTypeOK
<1>. USE DEF TurnSteers
<1>c. pc # "idle" => current \in Turns
  BY <1>0, Zenon DEF TurnLife, TurnRunnerOK
<1>1. ASSUME NEW t \in Turns, Enqueue(t) PROVE TurnSteers'
  <2>1. UNCHANGED <<current, received, accepted, applied, taken, mailbox, cancelled>>
    BY <1>1, Zenon DEF Enqueue, controlVars, loopVars, historyVars
  <2>. QED
    BY <1>0, <1>1, <2>1, Zenon DEF Enqueue, loopVars
<1>2. ASSUME NEW t \in Turns, Cancel(t) PROVE TurnSteers'
  <2>1. /\ UNCHANGED <<current, received, accepted, applied, taken, pc>>
        /\ UNCHANGED <<mailbox, cancelled>> \/ cancelled' = TRUE
    BY <1>2, Zenon DEF Cancel, ControlCancel, loopVars
  <2>. QED
    BY <1>0, <2>1, Zenon
<1>3. ASSUME NEW s \in Steers, Steer(s) PROVE TurnSteers'
  <2>1. UNCHANGED <<current, applied, taken, pc, cancelled>>
    BY <1>3, Zenon DEF Steer, loopVars
  <2>2. CASE UNCHANGED <<accepted, received, mailbox>>
    BY <1>0, <2>1, <2>2, Zenon
  <2>3. SteerTurn[s] \in Turns /\ accepted \in [Turns -> Seq(Steers)]
    BY <1>0, SteerTurnAssumption, Zenon DEF TurnHistoryOK
  <2>4. CASE /\ SteerTurn[s] # current /\ UNCHANGED <<received, mailbox>>
             /\ accepted' = [accepted EXCEPT ![SteerTurn[s]] = Once(@, s)]
    <3>1. \A t \in Turns : t = current => accepted'[t] = accepted[t]
      BY <2>3, <2>4, Zenon
    <3>. QED
      BY <1>0, <2>1, <2>4, <3>1, Zenon
  <2>5. CASE /\ SteerTurn[s] = current
             /\ accepted' = [accepted EXCEPT ![SteerTurn[s]] = Once(@, s)]
             /\ received' = received \cup {s}
             /\ mailbox' = IF s \in received THEN mailbox ELSE Append(mailbox, s)
    <3>. DEFINE a == accepted[current]
                d == applied[current] \o taken
    <3>1. /\ current \in Turns /\ a \in Seq(Steers) /\ applied[current] \in Seq(Steers)
          /\ taken \in Seq(Steers) /\ mailbox \in Seq(Steers) /\ d \in Seq(Steers)
      BY <1>0, <2>3, <2>5 DEF TurnHistoryOK, TurnLoopOK, TurnControlOK
    <3>2. /\ \A x \in Steers : x \in received <=> TurnIn(x, a)
          /\ TurnPrefix(d, a)
          /\ pc \notin {"unwind", "unwound", "release"} /\ cancelled = FALSE => a = d \o mailbox
      BY <1>0, <3>1, Zenon
    <3>3. accepted'[current] = Once(a, s) /\ (s \in Range(a) <=> TurnIn(s, a))
      BY <2>3, <2>5, <3>1, TurnRange, Zenon
    <3>4. CASE s \in received
      <4>1. accepted'[current] = a /\ received' = received /\ mailbox' = mailbox
        BY <2>5, <3>2, <3>3, <3>4, Zenon DEF Once
      <4>. QED
        BY <2>1, <3>2, <4>1, Zenon
    <3>5. CASE s \notin received
      <4>1. accepted'[current] = Append(a, s) /\ mailbox' = Append(mailbox, s)
        BY <2>5, <3>2, <3>3, <3>5, Zenon DEF Once
      <4>2. \A x \in Steers : x \in received' <=> TurnIn(x, Append(a, s))
        BY <2>5, <3>1, <3>2, TurnInAppend, Zenon
      <4>3. TurnPrefix(d, Append(a, s))
        BY <3>1, <3>2, TurnPrefixes, Zenon
      <4>4. d \o Append(mailbox, s) = Append(d \o mailbox, s)
        BY <3>1, TurnAppendsLast, Zenon
      <4>. QED
        BY <2>1, <3>2, <4>1, <4>2, <4>3, <4>4, Zenon
    <3>. QED
      BY <3>4, <3>5, Zenon
  <2>. QED
    BY <1>3, <2>2, <2>4, <2>5, Zenon DEF Steer
<1>4. CASE Shutdown
  <2>1. /\ UNCHANGED <<current, received, accepted, applied, taken, pc>>
        /\ UNCHANGED <<mailbox, cancelled>> \/ cancelled' = TRUE
    BY <1>4, Zenon DEF Shutdown, ControlCancel, loopVars
  <2>. QED
    BY <1>0, <2>1, Zenon
<1>5. ASSUME NEW j \in Jobs, JobSettles(j) PROVE TurnSteers'
  <2>1. UNCHANGED <<current, received, accepted, applied, taken, mailbox, cancelled>>
    BY <1>5, Zenon DEF JobSettles, runnerVars, controlVars, loopVars, historyVars
  <2>. QED
    BY <1>0, <1>5, <2>1, Zenon DEF JobSettles, loopVars
<1>6. CASE RunTurn
  <2>. DEFINE h == Head(inbox)
  <2>1. h \in Turns /\ TurnWaits(h)
    BY <1>6, TurnTaken, Zenon
  <2>2. /\ pendingSteers[h] \in Seq(Steers) /\ accepted[h] \in Seq(Steers) /\ taken = <<>>
    BY <1>0, <1>6, <2>1, Zenon DEF RunTurn, TurnRunnerOK, TurnHistoryOK, TurnFlow
  <2>3. /\ applied[h] = <<>> /\ accepted[h] = EachOnce(pendingSteers[h])
        /\ \A s \in Steers : TurnIn(s, accepted[h]) <=> TurnIn(s, pendingSteers[h])
    BY <1>0, <2>1, Zenon DEF TurnPending
  <2>4. /\ UNCHANGED <<accepted, applied, taken>> /\ received' = Range(pendingSteers[h])
        /\ cancelled' = FALSE => mailbox' = EachOnce(pendingSteers[h])
        /\ current' = h
    BY <1>6, Zenon DEF RunTurn
  <2>. HIDE DEF h
  <2>5. \A s \in Steers : s \in received' <=> TurnIn(s, accepted'[h])
    BY <2>2, <2>3, <2>4, TurnRange, Zenon
  <2>6. applied'[h] = <<>> /\ taken' = <<>>
    BY <2>2, <2>3, <2>4, Zenon
  <2>7. <<>> \o <<>> = <<>> /\ (<<>> \o <<>>) \o accepted[h] = accepted[h]
    BY <2>2, TurnMoves
  <2>8. TurnPrefix(<<>>, accepted[h])
    BY <2>2 DEF TurnPrefix
  <2>9. TurnPrefix(applied'[h] \o taken', accepted'[h])
    BY <2>4, <2>6, <2>7, <2>8, Zenon
  <2>10. cancelled' = FALSE => accepted'[h] = (applied'[h] \o taken') \o mailbox'
    BY <2>3, <2>4, <2>6, <2>7, Zenon
  <2>. QED
    BY <2>4, <2>5, <2>9, <2>10, Zenon
<1>7. CASE BeginTurn
  <2>1. UNCHANGED <<current, received, accepted, applied, taken, mailbox, cancelled>>
    BY <1>7, Zenon DEF BeginTurn, runnerVars, controlVars, historyVars
  <2>. QED
    BY <1>0, <1>7, <2>1, Zenon DEF BeginTurn
<1>8. CASE Return
  <2>1. UNCHANGED <<current, received, accepted, applied, taken, mailbox, cancelled>>
    BY <1>8, Zenon DEF Return, runnerVars, controlVars, historyVars
  <2>. QED
    BY <1>0, <1>8, <2>1, Zenon DEF Return
<1>9. CASE Reconcile
  <2>1. UNCHANGED <<current, received, accepted, applied, taken, mailbox, cancelled>>
    BY <1>9, Zenon DEF Reconcile, runnerVars, controlVars, historyVars
  <2>. QED
    BY <1>0, <1>9, <2>1, Zenon DEF Reconcile
<1>10. CASE CancelJobs
  <2>1. UNCHANGED <<current, received, accepted, applied, taken, mailbox, cancelled>>
    BY <1>10, Zenon DEF CancelJobs, runnerVars, controlVars, historyVars
  <2>. QED
    BY <1>0, <1>10, <2>1, Zenon DEF CancelJobs
<1>11. CASE FinishTurn
  <2>1. UNCHANGED <<current, received, accepted, applied, taken, mailbox, cancelled>>
    BY <1>11, Zenon DEF FinishTurn, runnerVars, controlVars, historyVars
  <2>. QED
    BY <1>0, <1>11, <2>1, Zenon DEF FinishTurn
<1>12. CASE Release
  BY <1>12, NoTurnAssumption, Zenon DEF Release
<1>13. CASE TurnInner
  <2>. DEFINE c == current
  <2>1. /\ UNCHANGED <<current, received, accepted, cancelled>> /\ c \in Turns
        /\ pc \notin {"unwind", "unwound", "release"}
    BY <1>c, <1>13, TurnInnerFrame, Zenon DEF TurnStays, AgentFrame, runnerVars
  <2>2. /\ applied[c] \in Seq(Steers) /\ accepted[c] \in Seq(Steers) /\ taken \in Seq(Steers)
        /\ mailbox \in Seq(Steers)
    BY <1>0, <2>1, Zenon DEF TurnHistoryOK, TurnLoopOK, TurnControlOK
  <2>3. /\ \A s \in Steers : s \in received <=> TurnIn(s, accepted[c])
        /\ TurnPrefix(applied[c] \o taken, accepted[c])
        /\ cancelled = FALSE => accepted[c] = (applied[c] \o taken) \o mailbox
    BY <1>0, <2>1, Zenon
  <2>4. CASE applied' = applied /\ taken' = taken /\ mailbox' = mailbox
    BY <2>1, <2>3, <2>4, Zenon
  <2>5. CASE applied' = applied /\ taken' = <<>> /\ pc' = "unwind"
    <3>1. TurnPrefix(applied[c] \o <<>>, accepted[c])
      BY <2>2, <2>3, TurnPrefixes, Zenon
    <3>. QED
      BY <2>1, <2>3, <2>5, <3>1, Zenon
  <2>6. CASE DrainSteering
    <3>1. taken = <<>> /\ applied' = applied
      BY <1>0, <2>6, Zenon DEF DrainSteering, At, TurnFlow
    <3>2. CASE cancelled = FALSE /\ finished = FALSE
      <4>1. taken' = mailbox /\ mailbox' = <<>>
        BY <2>6, <3>2, Zenon DEF DrainSteering
      <4>2. accepted[c] = (applied[c] \o mailbox) \o <<>> /\ accepted[c] = applied[c] \o mailbox
        BY <2>2, <2>3, <3>1, <3>2, TurnMoves
      <4>3. TurnPrefix(applied[c] \o mailbox, accepted[c])
        BY <4>2 DEF TurnPrefix
      <4>. QED
        BY <2>1, <2>3, <3>1, <4>1, <4>2, <4>3, Zenon
    <3>3. CASE ~(cancelled = FALSE /\ finished = FALSE)
      <4>1. taken' = taken /\ mailbox' = mailbox
        BY <1>0, <2>6, <3>1, <3>3, Zenon DEF DrainSteering, TurnControlOK
      <4>. QED
        BY <2>1, <2>3, <3>1, <4>1, Zenon
    <3>. QED
      BY <3>2, <3>3, Zenon
  <2>7. CASE /\ AppendSteer /\ taken' = Tail(taken) /\ mailbox' = mailbox
             /\ applied' = [applied EXCEPT ![current] = Append(@, Head(taken))]
    <3>1. taken # <<>>
      BY <1>0, <2>7, Zenon DEF AppendSteer, At, TurnFlow
    <3>2. applied'[c] = Append(applied[c], Head(taken))
      BY <1>0, <2>1, <2>7, Zenon DEF TurnHistoryOK
    <3>3. applied'[c] \o taken' = applied[c] \o taken
      BY <2>2, <2>7, <3>1, <3>2, TurnMoves
    <3>. QED
      BY <2>1, <2>3, <2>7, <3>3, Zenon
  <2>8. CASE AppendSteer
    BY <2>5, <2>7, <2>8, Zenon
       DEF AppendSteer, Raise, RaiseIfCancelled, ControlFrame, controlVars
  <2>9. ControlFrame => mailbox' = mailbox
    BY Zenon DEF ControlFrame, controlVars
  <2>. QED
    BY <1>13, <2>4, <2>5, <2>6, <2>8, <2>9, TurnInnerFrame, Zenon DEF TurnStays
<1>. QED
  BY <1>1, <1>2, <1>3, <1>4, <1>5, <1>6, <1>7, <1>8, <1>9, <1>10, <1>11, <1>12, <1>13, Zenon DEF
     Next, AgentStep, TurnInner

\* A steer that is sent again is not accepted again.
LEMMA TurnAcceptsKept ==
    ASSUME TurnInv, Next
    PROVE  TurnAccepts'
<1>0. TurnAccepts /\ TurnHistoryOK
  BY Zenon DEF TurnInv, TurnTypeOK
<1>. USE DEF TurnAccepts
<1>1. ASSUME NEW t \in Turns, Enqueue(t) PROVE TurnAccepts'
  BY <1>0, <1>1, Zenon DEF Enqueue, controlVars, loopVars, recordVars, jobVars, historyVars
<1>2. ASSUME NEW t \in Turns, Cancel(t) PROVE TurnAccepts'
  BY <1>0, <1>2, Zenon DEF Cancel, ControlCancel, loopVars, recordVars, jobVars
<1>3. ASSUME NEW s \in Steers, Steer(s) PROVE TurnAccepts'
  <2>1. SteerTurn[s] \in Turns /\ accepted \in [Turns -> Seq(Steers)]
    BY <1>0, SteerTurnAssumption, Zenon DEF TurnHistoryOK
  <2>2. CASE accepted' = accepted
    BY <1>0, <2>2, Zenon
  <2>3. CASE /\ accepted' = [accepted EXCEPT ![SteerTurn[s]] = Append(@, s)]
             /\ ~TurnIn(s, accepted[SteerTurn[s]])
    <3>. DEFINE u == SteerTurn[s]
                a == accepted[u]
    <3>1. a \in Seq(Steers) /\ \A i \in 1..Len(a) : a[i] # s
      BY <2>1, <2>3, Zenon DEF TurnIn
    <3>2. Len(Append(a, s)) = Len(a) + 1 /\ Append(a, s)[Len(a) + 1] = s /\ Len(a) \in Nat
      BY <3>1
    <3>3. \A i \in 1..Len(a) : Append(a, s)[i] = a[i]
      BY <3>1
    <3>4. \A i, j \in 1..Len(a) : a[i] = a[j] => i = j
      BY <1>0, <2>1, Zenon
    <3>5. ASSUME NEW i \in 1..Len(Append(a, s)), NEW j \in 1..Len(Append(a, s)),
                 Append(a, s)[i] = Append(a, s)[j]
          PROVE  i = j
      <4>1. \A k \in 1..(Len(a) + 1) : k \in 1..Len(a) \/ k = Len(a) + 1
        BY <3>2
      <4>. HIDE DEF a
      <4>. QED
        BY <3>1, <3>2, <3>3, <3>4, <3>5, <4>1, Zenon
    <3>6. accepted'[u] = Append(a, s) /\ \A t \in Turns \ {u} : accepted'[t] = accepted[t]
      BY <2>1, <2>3, Zenon
    <3>. HIDE DEF a, u
    <3>7. ASSUME NEW t \in Turns, NEW i \in 1..Len(accepted'[t]), NEW j \in 1..Len(accepted'[t]),
                 accepted'[t][i] = accepted'[t][j]
          PROVE  i = j
      <4>1. CASE t = u
        BY <3>5, <3>6, <3>7, <4>1, Zenon
      <4>2. CASE t # u
        BY <1>0, <3>6, <3>7, <4>2, Zenon
      <4>. QED
        BY <4>1, <4>2, Zenon
    <3>. QED
      BY <3>7, Zenon
  <2>. QED
    BY <1>3, <2>1, <2>2, <2>3, TurnSteered, Zenon
<1>4. CASE Shutdown
  BY <1>0, <1>4, Zenon DEF Shutdown, ControlCancel, loopVars, recordVars, jobVars
<1>5. ASSUME NEW j \in Jobs, JobSettles(j) PROVE TurnAccepts'
  BY <1>0, <1>5, Zenon
     DEF JobSettles, runnerVars, controlVars, loopVars, recordVars, historyVars
<1>6. CASE RunTurn
  BY <1>0, <1>6, Zenon DEF RunTurn, recordVars, jobVars
<1>7. CASE BeginTurn
  BY <1>0, <1>7, Zenon DEF BeginTurn, runnerVars, controlVars, jobVars, historyVars
<1>8. CASE Return
  BY <1>0, <1>8, Zenon DEF Return, runnerVars, controlVars, historyVars
<1>9. CASE Reconcile
  BY <1>0, <1>9, Zenon DEF Reconcile, runnerVars, controlVars, jobVars, historyVars
<1>10. CASE CancelJobs
  BY <1>0, <1>10, Zenon DEF CancelJobs, runnerVars, controlVars, recordVars, historyVars
<1>11. CASE FinishTurn
  BY <1>0, <1>11, Zenon DEF FinishTurn, runnerVars, controlVars, jobVars, historyVars
<1>12. CASE Release
  BY <1>0, <1>12, Zenon DEF Release, jobVars, historyVars
<1>13. CASE TurnInner
  BY <1>0, <1>13, TurnInnerFrame, Zenon DEF TurnStays, AgentFrame, runnerVars
<1>. QED
  BY <1>1, <1>2, <1>3, <1>4, <1>5, <1>6, <1>7, <1>8, <1>9, <1>10, <1>11, <1>12, <1>13, Zenon DEF
     Next, AgentStep, TurnInner

\* Who was told to cancel in time.
LEMMA TurnStopsKept ==
    ASSUME TurnInv, Next
    PROVE  TurnStops'
<1>0. /\ TurnStops /\ TurnLife /\ TurnFlow
      /\ TurnRunnerOK /\ TurnRecordOK /\ TurnHistoryOK /\ TurnControlOK
  BY Zenon DEF TurnInv, TurnTypeOK
<1>. USE DEF TurnStops
<1>w. NoTurn \notin Turns /\ \A t \in Turns : TurnWaits(t)' => TurnWaits(t)
  BY NoTurnAssumption, TurnWaitsBefore, Zenon
<1>1. ASSUME NEW t \in Turns, Enqueue(t) PROVE TurnStops'
  BY <1>0, <1>w, <1>1, Zenon DEF Enqueue, controlVars, historyVars
<1>2. ASSUME NEW t \in Turns, Cancel(t) PROVE TurnStops'
  <2>1. t \in queued => TurnWaits(t)
    BY <1>0, Zenon DEF TurnLife
  <2>. QED
    BY <1>0, <1>w, <1>2, <2>1, Zenon
       DEF Cancel, ControlCancel, TurnControlOK, TurnFlow, TurnWaits
<1>3. ASSUME NEW s \in Steers, Steer(s) PROVE TurnStops'
  BY <1>0, <1>w, <1>3, Zenon DEF Steer
<1>4. CASE Shutdown
  BY <1>0, <1>w, <1>4, Zenon
     DEF Shutdown, ControlCancel, TurnControlOK, TurnFlow, TurnRunnerOK, TurnWaits
<1>5. ASSUME NEW j \in Jobs, JobSettles(j) PROVE TurnStops'
  BY <1>0, <1>5, <1>w, Zenon
     DEF JobSettles, runnerVars, controlVars, loopVars, recordVars, historyVars
<1>6. CASE RunTurn
  <2>1. current = NoTurn /\ Head(inbox) \in Turns /\ TurnWaits(Head(inbox))
    BY <1>6, TurnTaken, Zenon
  <2>2. \A t \in Turns : TurnWaits(t)' => t # Head(inbox)
    BY <1>6, Zenon DEF RunTurn, TurnWaits
  <2>. QED
    BY <1>0, <1>w, <1>6, <2>1, <2>2, Zenon DEF RunTurn, TurnControlOK
<1>7. CASE BeginTurn
  BY <1>0, <1>7, <1>w, Zenon DEF BeginTurn, runnerVars, controlVars, jobVars, historyVars
<1>8. CASE Return
  BY <1>0, <1>8, <1>w, Zenon DEF Return, runnerVars, controlVars, historyVars
<1>9. CASE Reconcile
  BY <1>0, <1>9, <1>w, Zenon DEF Reconcile, runnerVars, controlVars, jobVars, historyVars
<1>10. CASE CancelJobs
  BY <1>0, <1>10, <1>w, Zenon DEF CancelJobs, runnerVars, controlVars, recordVars, historyVars
<1>11. CASE FinishTurn
  BY <1>0, <1>11, <1>w, Zenon DEF FinishTurn, runnerVars, controlVars, jobVars, historyVars
<1>12. CASE Release
  BY <1>0, <1>12, <1>w, Zenon DEF Release, jobVars, historyVars
<1>13. CASE TurnInner
  BY <1>0, <1>13, TurnInnerFrame, <1>w, Zenon DEF TurnStays, AgentFrame, runnerVars
<1>. QED
  BY <1>1, <1>2, <1>3, <1>4, <1>5, <1>6, <1>7, <1>8, <1>9, <1>10, <1>11, <1>12, <1>13, Zenon DEF
     Next, AgentStep, TurnInner

\* The record of the current turn.
LEMMA TurnRecordsKept ==
    ASSUME TurnInv, Next
    PROVE  TurnRecords'
<1>0. /\ TurnRecords /\ TurnLife /\ TurnFlow /\ TurnSteers
      /\ TurnRunnerOK /\ TurnControlOK /\ TurnLoopOK /\ TurnRecordOK /\ TurnHistoryOK
  BY Zenon DEF TurnInv, TurnTypeOK
<1>. USE DEF TurnRecords
<1>c. pc # "idle" => current \in Turns
  BY <1>0, Zenon DEF TurnLife, TurnRunnerOK
<1>n. NoTurn \notin Turns
  BY NoTurnAssumption, Zenon
<1>1. ASSUME NEW t \in Turns, Enqueue(t) PROVE TurnRecords'
  BY <1>0, <1>1, <1>n, Zenon
     DEF Enqueue, controlVars, loopVars, recordVars, jobVars, historyVars
<1>2. ASSUME NEW t \in Turns, Cancel(t) PROVE TurnRecords'
  BY <1>0, <1>2, <1>n, Zenon DEF Cancel, ControlCancel, loopVars, recordVars, jobVars
<1>3. ASSUME NEW s \in Steers, Steer(s) PROVE TurnRecords'
  <2>1. ASSUME current \in Turns, status[current] = "completed" PROVE finished = TRUE
    BY <1>0, <2>1, Zenon DEF TurnFlow
  <2>2. ASSUME current \in Turns, finished = TRUE PROVE accepted'[current] = accepted[current]
    BY <1>0, <1>3, <2>2, SteerTurnAssumption, Zenon DEF Steer, TurnHistoryOK
  <2>3. UNCHANGED <<pc, outcome, status, applied, current>>
    BY <1>3, Zenon DEF Steer, loopVars, recordVars
  <2>. QED
    BY <1>0, <2>1, <2>2, <2>3, Zenon
<1>4. CASE Shutdown
  BY <1>0, <1>4, <1>n, Zenon DEF Shutdown, ControlCancel, loopVars, recordVars, jobVars
<1>5. ASSUME NEW j \in Jobs, JobSettles(j) PROVE TurnRecords'
  BY <1>0, <1>5, <1>n, Zenon
     DEF JobSettles, runnerVars, controlVars, loopVars, recordVars, historyVars
<1>6. CASE RunTurn
  <2>1. Head(inbox) \in Turns /\ status[Head(inbox)] = "none"
    BY <1>6, TurnTaken, Zenon
  <2>. QED
    BY <1>6, <2>1, Zenon DEF RunTurn, recordVars
<1>7. CASE BeginTurn
  <2>1. current \in Turns /\ status'[current] = "running"
    BY <1>0, <1>c, <1>7, Zenon DEF BeginTurn, TurnRecordOK
  <2>. QED
    BY <1>7, <2>1, Zenon DEF BeginTurn, runnerVars
<1>8. CASE Return
  <2>1. current \in Turns /\ status'[current] = "completed"
    BY <1>0, <1>c, <1>8, Zenon DEF Return, TurnRecordOK
  <2>2. applied[current] \in Seq(Steers)
    BY <1>0, <2>1, Zenon DEF TurnHistoryOK
  <2>3. accepted[current] = (applied[current] \o <<>>) \o <<>>
    BY <1>0, <1>8, <2>1, Zenon DEF Return, TurnFlow, TurnSteers
  <2>4. applied[current] = accepted[current]
    BY <2>2, <2>3
  <2>. QED
    BY <1>8, <2>1, <2>4, Zenon DEF Return, runnerVars, historyVars
<1>9. CASE Reconcile
  BY <1>0, <1>9, <1>n, Zenon DEF Reconcile, runnerVars, controlVars, jobVars, historyVars
<1>10. CASE CancelJobs
  BY <1>0, <1>10, <1>n, Zenon DEF CancelJobs, runnerVars, controlVars, recordVars, historyVars
<1>11. CASE FinishTurn
  <2>1. current \in Turns /\ status'[current] = outcome /\ outcome \in {"failed", "cancelled"}
    BY <1>0, <1>c, <1>11, Zenon DEF FinishTurn, TurnRecordOK, TurnFlow
  <2>. QED
    BY <1>11, <2>1, Zenon DEF FinishTurn, runnerVars
<1>12. CASE Release
  BY <1>0, <1>12, <1>n, Zenon DEF Release, jobVars, historyVars
<1>13. CASE TurnInner
  <2>1. /\ UNCHANGED <<status, current>>
        /\ pc \notin {"begin", "reconcile", "unwind", "unwound", "release"}
        /\ pc' \notin {"start", "reconcile", "unwound"}
        /\ pc' \in {"begin", "release"} <=> pc = "start"
        /\ pc' = "release" => outcome' # "completed"
    BY <1>13, TurnInnerFrame, Zenon DEF TurnStays, AgentFrame, runnerVars
  <2>2. \A t \in Turns : t = current => status[t] = IF pc = "start" THEN "none" ELSE "running"
    BY <1>0, <2>1, Zenon
  <2>. QED
    BY <2>1, <2>2, Zenon
<1>. QED
  BY <1>1, <1>2, <1>3, <1>4, <1>5, <1>6, <1>7, <1>8, <1>9, <1>10, <1>11, <1>12, <1>13, Zenon DEF
     Next, AgentStep, TurnInner

\* Candidates are those of the current turn.
LEMMA TurnCandidatesKept ==
    ASSUME TurnInv, Next
    PROVE  TurnCandidates'
<1>0. TurnCandidates /\ TurnRunnerOK
  BY Zenon DEF TurnInv, TurnTypeOK
<1>. USE DEF TurnCandidates
<1>1. ASSUME NEW t \in Turns, Enqueue(t) PROVE TurnCandidates'
  BY <1>0, <1>1, Zenon DEF Enqueue, controlVars, loopVars, recordVars, jobVars, historyVars
<1>2. ASSUME NEW t \in Turns, Cancel(t) PROVE TurnCandidates'
  BY <1>0, <1>2, Zenon DEF Cancel, ControlCancel, loopVars, recordVars, jobVars
<1>3. ASSUME NEW s \in Steers, Steer(s) PROVE TurnCandidates'
  BY <1>0, <1>3, Zenon DEF Steer, loopVars, recordVars, jobVars
<1>4. CASE Shutdown
  BY <1>0, <1>4, Zenon DEF Shutdown, ControlCancel, loopVars, recordVars, jobVars
<1>5. ASSUME NEW j \in Jobs, JobSettles(j) PROVE TurnCandidates'
  BY <1>0, <1>5, Zenon
     DEF JobSettles, runnerVars, controlVars, loopVars, recordVars, historyVars
<1>6. CASE RunTurn
  BY <1>0, <1>6, Zenon DEF RunTurn, recordVars, jobVars
<1>7. CASE BeginTurn
  BY <1>0, <1>7, Zenon DEF BeginTurn, runnerVars, controlVars, jobVars, historyVars
<1>8. CASE Return
  BY <1>0, <1>8, Zenon DEF Return, runnerVars, controlVars, historyVars
<1>9. CASE Reconcile
  BY <1>0, <1>9, Zenon DEF Reconcile, runnerVars, controlVars, jobVars, historyVars
<1>10. CASE CancelJobs
  BY <1>0, <1>10, Zenon DEF CancelJobs, runnerVars, controlVars, recordVars, historyVars
<1>11. CASE FinishTurn
  BY <1>0, <1>11, Zenon DEF FinishTurn, runnerVars, controlVars, jobVars, historyVars
<1>12. CASE Release
  BY <1>0, <1>12, Zenon DEF Release, jobVars, historyVars
<1>13. CASE TurnInner
  BY <1>0, <1>13, TurnInnerFrame, Zenon DEF TurnStays, AgentFrame, runnerVars
<1>. QED
  BY <1>1, <1>2, <1>3, <1>4, <1>5, <1>6, <1>7, <1>8, <1>9, <1>10, <1>11, <1>12, <1>13, Zenon DEF
     Next, AgentStep, TurnInner

\* Nothing is unseen behind the last request.
LEMMA TurnSeenKept ==
    ASSUME TurnInv, Next
    PROVE  TurnSeen'
<1>0. TurnSeen /\ TurnFlow
  BY Zenon DEF TurnInv, TurnTypeOK
<1>. USE DEF TurnSeen
<1>1. ASSUME NEW t \in Turns, Enqueue(t) PROVE TurnSeen'
  BY <1>0, <1>1, Zenon DEF Enqueue, controlVars, loopVars, recordVars, jobVars, historyVars
<1>2. ASSUME NEW t \in Turns, Cancel(t) PROVE TurnSeen'
  BY <1>0, <1>2, Zenon DEF Cancel, ControlCancel, loopVars, recordVars, jobVars
<1>3. ASSUME NEW s \in Steers, Steer(s) PROVE TurnSeen'
  BY <1>0, <1>3, Zenon DEF Steer, loopVars, recordVars, jobVars
<1>4. CASE Shutdown
  BY <1>0, <1>4, Zenon DEF Shutdown, ControlCancel, loopVars, recordVars, jobVars
<1>5. ASSUME NEW j \in Jobs, JobSettles(j) PROVE TurnSeen'
  BY <1>0, <1>5, Zenon
     DEF JobSettles, runnerVars, controlVars, loopVars, recordVars, historyVars
<1>6. CASE RunTurn
  BY <1>0, <1>6, Zenon DEF RunTurn, recordVars, jobVars
<1>7. CASE EnsurePlane
  BY <1>0, <1>7, Zenon
     DEF EnsurePlane, At, Go, ControlFrame, AgentFrame, controlVars, runnerVars
<1>8. CASE BeginTurn
  BY <1>0, <1>8, Zenon DEF BeginTurn, runnerVars, controlVars, jobVars, historyVars
<1>9. CASE CheckInput
  BY <1>0, <1>9, Zenon
     DEF CheckInput, At, Go, Raise, RaiseIfCancelled, ControlFrame, AgentFrame, controlVars,
         runnerVars
<1>10. CASE LoopTop
  BY <1>0, <1>10, Zenon
     DEF LoopTop, At, Go, RaiseIfCancelled, ControlFrame, ApplyJobs, AgentFrame, Raise,
         controlVars, runnerVars
<1>11. CASE BuildRequest
  BY <1>0, <1>11, Zenon DEF BuildRequest, At, Go, Raise, ControlFrame, AgentFrame, controlVars,
     runnerVars
<1>12. CASE Archive
  BY <1>0, <1>12, Zenon
     DEF Archive, At, Raise, RaiseIfCancelled, ControlFrame, DrainAt, AgentFrame, controlVars,
         runnerVars
<1>13. CASE ModelResponds
  BY <1>0, <1>13, Zenon
     DEF ModelResponds, At, Go, Raise, RaiseIfCancelled, ControlFrame, AgentFrame, controlVars,
         runnerVars
<1>14. ASSUME NEW j \in Jobs, ToolSubmits(j) PROVE TurnSeen'
  BY <1>0, <1>14, Zenon DEF ToolSubmits, At, ControlFrame, loopVars, AgentFrame, controlVars,
     runnerVars
<1>15. CASE ToolRemembers
  BY <1>0, <1>15, Zenon DEF ToolRemembers, At, ControlFrame, loopVars, AgentFrame, controlVars,
     runnerVars
<1>16. CASE ToolsDone
  BY <1>0, <1>16, Zenon
     DEF ToolsDone, At, Raise, RaiseIfCancelled, ControlFrame, DrainAt, AgentFrame, controlVars,
         runnerVars
<1>17. CASE DrainSteering
  BY <1>0, <1>17, Zenon DEF DrainSteering, At, Go, AgentFrame, runnerVars
<1>18. CASE Drained
  BY <1>0, <1>18, Zenon
     DEF Drained, At, Go, RaiseIfCancelled, ControlFrame, Otherwise, AgentFrame, Raise,
         controlVars, runnerVars
<1>19. CASE AppendSteer
  BY <1>0, <1>19, Zenon
     DEF AppendSteer, At, Go, Raise, RaiseIfCancelled, ControlFrame, AgentFrame, controlVars,
         runnerVars
<1>20. CASE AfterResponse
  BY <1>0, <1>20, Zenon
     DEF AfterResponse, At, Go, RaiseIfCancelled, ControlFrame, DrainAt, ApplyJobs, AgentFrame,
         Raise, controlVars, runnerVars
<1>21. CASE WaitForJob
  BY <1>0, <1>21, Zenon
     DEF WaitForJob, At, Go, ControlFrame, AgentFrame, controlVars, runnerVars
<1>22. CASE StopHook
  BY <1>0, <1>22, Zenon
     DEF StopHook, At, Raise, RaiseIfCancelled, ControlFrame, DrainAt, AgentFrame, controlVars,
         runnerVars
<1>23. CASE Return
  BY <1>0, <1>23, Zenon DEF Return, runnerVars, controlVars, historyVars
<1>24. CASE Reconcile
  BY <1>0, <1>24, Zenon DEF Reconcile, runnerVars, controlVars, jobVars, historyVars
<1>25. CASE CancelJobs
  BY <1>0, <1>25, Zenon DEF CancelJobs, runnerVars, controlVars, recordVars, historyVars
<1>26. CASE FinishTurn
  BY <1>0, <1>26, Zenon DEF FinishTurn, runnerVars, controlVars, jobVars, historyVars
<1>27. CASE Release
  BY <1>0, <1>27, Zenon DEF Release, jobVars, historyVars
<1>. QED
  BY <1>1, <1>2, <1>3, <1>4, <1>5, <1>6, <1>7, <1>8, <1>9, <1>10, <1>11, <1>12, <1>13, <1>14,
     <1>15, <1>16, <1>17, <1>18, <1>19, <1>20, <1>21, <1>22, <1>23, <1>24, <1>25, <1>26, <1>27,
     Zenon DEF Next, AgentStep

\* A turn that nears its end has all its results.
LEMMA TurnJobsPhased ==
    ASSUME TurnInv, Next
    PROVE  TurnJobs'
<1>0. TurnJobs /\ TurnLife /\ TurnFlow /\ TurnRunnerOK /\ TurnJobsOK /\ TurnLoopOK
  BY Zenon DEF TurnInv, TurnTypeOK
<1>. USE DEF TurnJobs
<1>c. pc # "idle" => current \in Turns
  BY <1>0, Zenon DEF TurnLife, TurnRunnerOK
<1>1. ASSUME NEW t \in Turns, Enqueue(t) PROVE TurnJobs'
  BY <1>0, <1>1, <1>c, Zenon
     DEF Enqueue, controlVars, loopVars, recordVars, jobVars, historyVars
<1>2. ASSUME NEW t \in Turns, Cancel(t) PROVE TurnJobs'
  BY <1>0, <1>2, <1>c, Zenon DEF Cancel, ControlCancel, loopVars, recordVars, jobVars
<1>3. ASSUME NEW s \in Steers, Steer(s) PROVE TurnJobs'
  BY <1>0, <1>3, <1>c, Zenon DEF Steer, loopVars, recordVars, jobVars
<1>4. CASE Shutdown
  BY <1>0, <1>4, <1>c, Zenon DEF Shutdown, ControlCancel, loopVars, recordVars, jobVars
<1>5. ASSUME NEW j \in Jobs, JobSettles(j) PROVE TurnJobs'
  BY <1>0, <1>5, <1>c, Zenon DEF JobSettles, runnerVars, controlVars, loopVars, recordVars,
     historyVars, Board!Settle, Board!Move
<1>6. CASE RunTurn
  <2>1. Head(inbox) \in Turns /\ turn[Head(inbox)] = "open"
    BY <1>6, TurnTaken, Zenon
  <2>. QED
    BY <1>0, <1>6, <2>1 DEF RunTurn, jobVars
<1>7. CASE EnsurePlane
  BY <1>0, <1>7, <1>c, Zenon
     DEF EnsurePlane, At, Go, ControlFrame, AgentFrame, controlVars, runnerVars
<1>8. CASE BeginTurn
  BY <1>0, <1>8, <1>c, Zenon DEF BeginTurn, runnerVars, controlVars, jobVars, historyVars
<1>9. CASE CheckInput
  BY <1>0, <1>9, <1>c, Zenon
     DEF CheckInput, At, Go, Raise, RaiseIfCancelled, ControlFrame, AgentFrame, controlVars,
         runnerVars
<1>10. CASE LoopTop
  BY <1>0, <1>10, <1>c, Zenon DEF LoopTop, At, Go, RaiseIfCancelled, ControlFrame, ApplyJobs,
     AgentFrame, Raise, controlVars, Settled, runnerVars
<1>11. CASE BuildRequest
  BY <1>0, <1>11, <1>c, Zenon
     DEF BuildRequest, At, Go, Raise, ControlFrame, AgentFrame, controlVars, runnerVars
<1>12. CASE Archive
  BY <1>0, <1>12, <1>c, Zenon DEF Archive, At, Raise, RaiseIfCancelled, ControlFrame, DrainAt,
     AgentFrame, controlVars, runnerVars
<1>13. CASE ModelResponds
  BY <1>0, <1>13, <1>c, Zenon DEF ModelResponds, At, Go, Raise, RaiseIfCancelled, ControlFrame,
     AgentFrame, controlVars, runnerVars
<1>14. ASSUME NEW j \in Jobs, ToolSubmits(j) PROVE TurnJobs'
  <2>1. \A i \in Jobs : phase'[i] = IF i = j THEN "open" ELSE phase[i]
    BY <1>0, <1>14, Zenon DEF ToolSubmits, TurnJobsOK
  <2>2. UNCHANGED <<pc, site, turn, current>> /\ pc = "tools"
    BY <1>14, Zenon DEF ToolSubmits, At, AgentFrame, runnerVars, loopVars
  <2>. QED
    BY <1>0, <2>1, <2>2, Zenon
<1>15. CASE ToolRemembers
  BY <1>0, <1>15, <1>c, Zenon
     DEF ToolRemembers, At, ControlFrame, loopVars, AgentFrame, controlVars, runnerVars
<1>16. CASE ToolsDone
  BY <1>0, <1>16, <1>c DEF ToolsDone, At, Raise, RaiseIfCancelled, ControlFrame, DrainAt,
     Settled, AgentFrame, controlVars, runnerVars
<1>17. CASE DrainSteering
  BY <1>0, <1>17, <1>c, Zenon DEF DrainSteering, At, Go, AgentFrame, runnerVars
<1>18. CASE Drained
  BY <1>0, <1>18, <1>c, Zenon DEF Drained, At, Go, RaiseIfCancelled, ControlFrame, Otherwise,
     AgentFrame, Raise, controlVars, runnerVars
<1>19. CASE AppendSteer
  BY <1>0, <1>19, <1>c, Zenon DEF AppendSteer, At, Go, Raise, RaiseIfCancelled, ControlFrame,
     AgentFrame, controlVars, runnerVars
<1>20. CASE AfterResponse
  <2>1. current \in Turns /\ turn[current] = "open"
    BY <1>0, <1>c, <1>20, Zenon DEF AfterResponse, At
  <2>2. UNCHANGED <<turn, current>> /\ \A j \in Jobs : phase'[j] \in {phase[j], "delivered"}
    BY <1>0, <1>20
       DEF AfterResponse, At, AgentFrame, runnerVars, ApplyJobs, RaiseIfCancelled, Raise,
           TurnJobsOK
  <2>3. CASE pc' = "drain" /\ site' = "stop"
    <3>1. Settled = {} /\ Pending = {}
      BY <1>20, <2>3, Zenon DEF AfterResponse, Go, DrainAt, RaiseIfCancelled, Raise
    <3>2. ASSUME NEW j \in Jobs, TurnOf[j] = current PROVE phase[j] \in {"new", "delivered"}
      BY <1>0, <2>1, <3>1, <3>2 DEF Settled, Pending, Board!In, Board!Owned, TurnJobsOK
    <3>. QED
      BY <1>0, <2>1, <2>2, <2>3, <3>2
  <2>4. CASE pc' \in {"top", "unwind"} \/ (pc' = "drain" /\ site' = "wait")
    BY <1>0, <2>1, <2>2, <2>4, Zenon
  <2>. QED
    BY <1>20, <2>3, <2>4, Zenon DEF AfterResponse, Go, DrainAt, RaiseIfCancelled, Raise
<1>21. CASE WaitForJob
  BY <1>0, <1>21, <1>c, Zenon
     DEF WaitForJob, At, Go, ControlFrame, AgentFrame, controlVars, runnerVars
<1>22. CASE StopHook
  BY <1>0, <1>22, <1>c, Zenon DEF StopHook, At, Raise, RaiseIfCancelled, ControlFrame, DrainAt,
     AgentFrame, controlVars, runnerVars
<1>23. CASE Return
  BY <1>0, <1>23, <1>c DEF Return, runnerVars, controlVars, historyVars
<1>24. CASE Reconcile
  BY <1>0, <1>24, <1>c, Zenon DEF Reconcile, runnerVars, controlVars, jobVars, historyVars
<1>25. CASE CancelJobs
  <2>1. current \in Turns /\ current' = current /\ pc' = "unwound"
    BY <1>0, <1>c, <1>25, Zenon DEF CancelJobs, runnerVars
  <2>2. /\ turn'[current] = "discarded" /\ \A t \in Turns \ {current} : turn'[t] = turn[t]
        /\ \A j \in Jobs : phase'[j] = phase[j] \/ TurnOf[j] = current
    BY <1>0, <1>25, <2>1, Zenon
       DEF CancelJobs, Board!Discard, Board!Move, Board!In, Board!Owned, TurnJobsOK
  <2>. QED
    BY <1>0, <2>1, <2>2, TurnOfAssumption
<1>26. CASE FinishTurn
  BY <1>0, <1>26, <1>c, Zenon DEF FinishTurn, runnerVars, controlVars, jobVars, historyVars
<1>27. CASE Release
  BY <1>0, <1>27, <1>c, NoTurnAssumption, Zenon DEF Release, jobVars, historyVars
<1>. QED
  BY <1>1, <1>2, <1>3, <1>4, <1>5, <1>6, <1>7, <1>8, <1>9, <1>10, <1>11, <1>12, <1>13, <1>14,
     <1>15, <1>16, <1>17, <1>18, <1>19, <1>20, <1>21, <1>22, <1>23, <1>24, <1>25, <1>26, <1>27,
     Zenon DEF Next, AgentStep

\* What is over was sound, and stays so.
LEMMA TurnEndedKept ==
    ASSUME TurnInv, Next
    PROVE  TurnEnded'
<1>0. /\ TurnEnded /\ TurnLife /\ TurnFlow /\ TurnSteers /\ TurnStops /\ TurnRecords
      /\ TurnCandidates /\ TurnRunnerOK /\ TurnControlOK /\ TurnRecordOK /\ TurnLoopOK
      /\ TurnHistoryOK
  BY Zenon DEF TurnInv, TurnTypeOK
<1>. USE DEF TurnEnded
<1>c. pc # "idle" => current \in Turns
  BY <1>0, Zenon DEF TurnLife, TurnRunnerOK
<1>1. ASSUME NEW t \in Turns, Enqueue(t) PROVE TurnEnded'
  <2>1. UNCHANGED <<current, status, result, applied, accepted, stopped, remembered>>
    BY <1>1, Zenon DEF Enqueue, recordVars, historyVars
  <2>. QED
    BY <1>0, <2>1, Zenon DEF TurnOver
<1>2. ASSUME NEW t \in Turns, Cancel(t) PROVE TurnEnded'
  <2>1. UNCHANGED <<current, status, result, applied, accepted, remembered>>
    BY <1>2, Zenon DEF Cancel, recordVars
  <2>2. /\ stopped \subseteq stopped'
        /\ \A u \in Turns :
             u # current /\ result[u] # "none" => (u \in stopped' <=> u \in stopped)
    BY <1>0, <1>2 DEF Cancel, ControlCancel, TurnLife, TurnWaits
  <2>. QED
    BY <1>0, <2>1, <2>2, Zenon DEF TurnOver
<1>3. ASSUME NEW s \in Steers, Steer(s) PROVE TurnEnded'
  <2>1. UNCHANGED <<current, status, result, applied, stopped, remembered>>
    BY <1>3, Zenon DEF Steer, recordVars
  <2>2. \A u \in Turns : u # current /\ result[u] # "none" => accepted'[u] = accepted[u]
    BY <1>0, <1>3, SteerTurnAssumption, Zenon DEF Steer, TurnLife, TurnWaits, TurnHistoryOK
  <2>. QED
    BY <1>0, <2>1, <2>2, Zenon DEF TurnOver
<1>4. CASE Shutdown
  <2>1. UNCHANGED <<current, status, result, applied, accepted, remembered>>
    BY <1>4, Zenon DEF Shutdown, recordVars
  <2>2. \A u \in Turns : u # current => (u \in stopped' <=> u \in stopped)
    BY <1>4, Zenon DEF Shutdown, ControlCancel
  <2>. QED
    BY <1>0, <2>1, <2>2, Zenon DEF TurnOver
<1>5. ASSUME NEW j \in Jobs, JobSettles(j) PROVE TurnEnded'
  <2>1. UNCHANGED <<current, status, result, applied, accepted, stopped, remembered>>
    BY <1>5, Zenon DEF JobSettles, runnerVars, recordVars, historyVars
  <2>. QED
    BY <1>0, <2>1, Zenon DEF TurnOver
<1>6. CASE RunTurn
  <2>1. UNCHANGED <<status, result, applied, accepted, remembered>> /\ current = NoTurn
    BY <1>0, <1>6, Zenon DEF RunTurn, recordVars, TurnLife
  <2>2. \A u \in Turns : u # current' => (u \in stopped' <=> u \in stopped)
    BY <1>6, Zenon DEF RunTurn
  <2>. QED
    BY <1>0, <2>1, <2>2, NoTurnAssumption, Zenon DEF TurnOver
<1>7. CASE BeginTurn
  <2>1. UNCHANGED <<current, result, applied, accepted, stopped, remembered>>
    BY <1>7, Zenon DEF BeginTurn, runnerVars, historyVars
  <2>2. \A u \in Turns : u # current => status'[u] = status[u]
    BY <1>0, <1>7, Zenon DEF BeginTurn, TurnRecordOK
  <2>3. current \notin remembered
    BY <1>0, <1>c, <1>7, Zenon DEF BeginTurn, TurnRecords
  <2>. QED
    BY <1>0, <2>1, <2>2, <2>3, Zenon DEF TurnOver, TurnRecordOK
<1>8. CASE Return
  <2>1. UNCHANGED <<current, result, applied, accepted, stopped, remembered>>
    BY <1>8, Zenon DEF Return, runnerVars, historyVars
  <2>2. \A u \in Turns : status'[u] = IF u = current THEN "completed" ELSE status[u]
    BY <1>0, <1>8, Zenon DEF Return, TurnRecordOK
  <2>. QED
    BY <1>0, <2>1, <2>2, Zenon DEF TurnOver, TurnRecordOK
<1>9. CASE Reconcile
  <2>1. UNCHANGED <<current, status, result, applied, accepted, stopped>>
    BY <1>9, Zenon DEF Reconcile, runnerVars, historyVars
  <2>2. \A u \in remembered' : status[u] = "completed"
    BY <1>0, <1>c, <1>9 DEF Reconcile, TurnCandidates, TurnRecords
  <2>. QED
    BY <1>0, <2>1, <2>2, Zenon DEF TurnOver
<1>10. CASE CancelJobs
  <2>1. UNCHANGED <<current, status, result, applied, accepted, stopped, remembered>>
    BY <1>10, Zenon DEF CancelJobs, runnerVars, recordVars, historyVars
  <2>. QED
    BY <1>0, <2>1, Zenon DEF TurnOver
<1>11. CASE FinishTurn
  <2>1. UNCHANGED <<current, result, applied, accepted, stopped, remembered>>
    BY <1>11, Zenon DEF FinishTurn, runnerVars, historyVars
  <2>2. \A u \in Turns : u # current => status'[u] = status[u]
    BY <1>0, <1>11, Zenon DEF FinishTurn, TurnRecordOK
  <2>3. current \notin remembered
    BY <1>0, <1>c, <1>11, Zenon DEF FinishTurn, TurnRecords
  <2>. QED
    BY <1>0, <2>1, <2>2, <2>3, Zenon DEF TurnOver, TurnRecordOK
<1>12. CASE Release
  <2>1. UNCHANGED <<status, applied, accepted, stopped, remembered>> /\ current \in Turns
    BY <1>0, <1>c, <1>12, Zenon DEF Release, historyVars
  <2>2. \A u \in Turns : result'[u] = IF u = current THEN outcome ELSE result[u]
    BY <1>0, <1>12, Zenon DEF Release, TurnRecordOK
  <2>3. /\ applied[current] \in Seq(Steers) /\ accepted[current] \in Seq(Steers)
        /\ taken \in Seq(Steers) /\ TurnPrefix(applied[current] \o taken, accepted[current])
    BY <1>0, <2>1, Zenon DEF TurnHistoryOK, TurnLoopOK, TurnSteers
  <2>4. TurnPrefix(applied[current], accepted[current])
    BY <2>3, TurnPrefixes, Zenon
  <2>5. /\ status[current] \in {"none", outcome} /\ outcome # "none"
        /\ status[current] = "completed" => applied[current] = accepted[current]
    BY <1>0, <1>12, <2>1, Zenon DEF Release, TurnRecords, TurnFlow
  <2>6. /\ current \in stopped => outcome # "completed"
        /\ outcome = "cancelled" => current \in stopped
    BY <1>0, <1>12, <2>1, Zenon DEF Release, TurnStops, TurnFlow
  <2>7. ASSUME NEW u \in Turns, u = current PROVE TurnOver(u)'
    BY <2>7, <2>1, <2>2, <2>4, <2>5, <2>6, Zenon DEF TurnOver
  <2>8. \A u \in Turns : u # current /\ result[u] # "none" => TurnOver(u)'
    BY <1>0, <2>1, <2>2, Zenon DEF TurnOver
  <2>. QED
    BY <1>0, <2>1, <2>2, <2>7, <2>8, Zenon
<1>13. CASE TurnInner
  <2>1. UNCHANGED <<current, status, result, accepted, stopped, remembered>>
    BY <1>13, TurnInnerFrame, Zenon DEF TurnStays, AgentFrame, runnerVars
  <2>2. \A u \in Turns : u # current => applied'[u] = applied[u]
    <3>1. CASE applied' = applied
      BY <3>1, Zenon
    <3>2. CASE AppendSteer
      BY <1>0, <3>2, Zenon DEF AppendSteer, Raise, RaiseIfCancelled, TurnHistoryOK
    <3>. QED
      BY <1>13, <3>1, <3>2, TurnInnerFrame, Zenon DEF TurnStays
  <2>. QED
    BY <1>0, <2>1, <2>2, Zenon DEF TurnOver
<1>. QED
  BY <1>1, <1>2, <1>3, <1>4, <1>5, <1>6, <1>7, <1>8, <1>9, <1>10, <1>11, <1>12, <1>13, Zenon DEF
     Next, AgentStep, TurnInner
=============================================================================
