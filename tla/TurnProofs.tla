----------------------------- MODULE TurnProofs -----------------------------
(***************************************************************************)
(* Proofs about TurnLoop for every set of turns, steers and jobs and every *)
(* bound: TurnSound, AnswersEverything and KeepsBoard.                     *)
(***************************************************************************)
EXTENDS TurnSteps, FiniteSetTheorems

-----------------------------------------------------------------------------
(* What a mailbox holds to which steers were submitted one by one.         *)

\* What is chosen from a set that is not empty is in it.
LEMMA TurnOnly ==
    ASSUME NEW S, S # {}
    PROVE  Only(S) \in S
  BY Zenon DEF Only

\* The first ones are finitely many.
LEMMA TurnFirstOnes ==
    ASSUME NEW p \in Seq(Steers)
    PROVE  /\ FirstOnes(p) \subseteq 1..Len(p) /\ IsFiniteSet(FirstOnes(p))
           /\ Cardinality(FirstOnes(p)) \in Nat
<1>1. FirstOnes(p) \subseteq 1..Len(p)
  BY DEF FirstOnes
<1>2. IsFiniteSet(1..Len(p))
  BY FS_Interval
<1>3. IsFiniteSet(FirstOnes(p))
  BY <1>1, <1>2, FS_Subset, Zenon
<1>. QED
  BY <1>1, <1>3, FS_CardinalityType, Zenon

\* A repeated steer changes nothing.
LEMMA TurnAgain ==
    ASSUME NEW p \in Seq(Steers), NEW s \in Steers, TurnIn(s, p), TurnRanked(FirstOnes(p))
    PROVE  /\ TurnRanked(FirstOnes(Append(p, s)))
           /\ EachOnce(Append(p, s)) = EachOnce(p)
<1>. DEFINE q == Append(p, s)
            F == FirstOnes(p)
<1>1. /\ q \in Seq(Steers) /\ Len(q) = Len(p) + 1 /\ q[Len(p) + 1] = s
      /\ \A i \in 1..Len(p) : q[i] = p[i]
  OBVIOUS
<1>. HIDE DEF q
<1>2. FirstOnes(q) = F
  <2>1. PICK i \in 1..Len(p) : p[i] = s
    BY Zenon DEF TurnIn
  <2>2. Len(p) + 1 \notin FirstOnes(q)
    BY <1>1, <2>1 DEF FirstOnes
  <2>3. ASSUME NEW k \in 1..Len(p) PROVE k \in FirstOnes(q) <=> k \in F
    BY <1>1 DEF FirstOnes
  <2>4. FirstOnes(q) \subseteq 1..(Len(p) + 1) /\ F \subseteq 1..Len(p)
    BY <1>1, TurnFirstOnes, Zenon
  <2>. QED
    BY <2>2, <2>3, <2>4
<1>3. ASSUME NEW k \in 1..Cardinality(F) PROVE q[Only(OfRank(F, k))] = p[Only(OfRank(F, k))]
  <2>1. Only(OfRank(F, k)) \in OfRank(F, k)
    BY <1>3, TurnOnly, Zenon DEF TurnRanked
  <2>2. Only(OfRank(F, k)) \in F
    BY <2>1, Zenon DEF OfRank
  <2>3. Only(OfRank(F, k)) \in 1..Len(p)
    BY <2>2, TurnFirstOnes, Zenon
  <2>. QED
    BY <1>1, <2>3, Zenon
<1>4. EachOnce(q) = EachOnce(p)
  BY <1>2, <1>3, Zenon DEF EachOnce
<1>. QED
  BY <1>2, <1>4, Zenon DEF q

\* A new one comes last.
LEMMA TurnAnother ==
    ASSUME NEW p \in Seq(Steers), NEW s \in Steers, ~TurnIn(s, p), TurnRanked(FirstOnes(p)),
           EachOnce(p) \in Seq(Steers)
    PROVE  /\ TurnRanked(FirstOnes(Append(p, s)))
           /\ EachOnce(Append(p, s)) = Append(EachOnce(p), s)
<1>. DEFINE q == Append(p, s)
            F == FirstOnes(p)
            n == Len(p) + 1
            c == Cardinality(F)
<1>1. q \in Seq(Steers) /\ Len(q) = n /\ q[n] = s /\ \A i \in 1..Len(p) : q[i] = p[i]
  OBVIOUS
<1>. HIDE DEF q
<1>2. F \subseteq 1..Len(p) /\ IsFiniteSet(F) /\ c \in Nat /\ n \notin F /\ Len(p) \in Nat
  BY TurnFirstOnes
<1>3. FirstOnes(q) = F \cup {n}
  <2>1. \A i \in 1..Len(p) : p[i] # s
    BY Zenon DEF TurnIn
  <2>2. n \in FirstOnes(q)
    BY <1>1, <2>1 DEF FirstOnes
  <2>3. ASSUME NEW k \in 1..Len(p) PROVE k \in FirstOnes(q) <=> k \in F
    BY <1>1 DEF FirstOnes
  <2>4. FirstOnes(q) \subseteq 1..n
    BY <1>1, TurnFirstOnes, Zenon
  <2>. QED
    BY <1>2, <2>2, <2>3, <2>4
<1>4. Cardinality(F \cup {n}) = c + 1
  BY <1>2, FS_AddElement, Zenon
<1>5. ASSUME NEW i \in F
      PROVE  /\ {j \in F \cup {n} : j <= i} = {j \in F : j <= i}
             /\ Cardinality({j \in F : j <= i}) \in Nat
             /\ Cardinality({j \in F : j <= i}) <= c
  <2>1. {j \in F \cup {n} : j <= i} = {j \in F : j <= i}
    BY <1>2
  <2>2. {j \in F : j <= i} \in SUBSET F
    BY Zenon
  <2>3. IsFiniteSet({j \in F : j <= i}) /\ Cardinality({j \in F : j <= i}) <= c
    BY <1>2, <2>2, FS_Subset, Zenon
  <2>. QED
    BY <2>1, <2>3, FS_CardinalityType, Zenon
<1>6. {j \in F \cup {n} : j <= n} = F \cup {n}
  BY <1>2
<1>7. ASSUME NEW i \in F, NEW k PROVE i \in OfRank(F \cup {n}, k) <=> i \in OfRank(F, k)
  BY <1>5, Zenon DEF OfRank
<1>8. ASSUME NEW k PROVE n \in OfRank(F \cup {n}, k) <=> k = c + 1
  BY <1>4, <1>6, Zenon DEF OfRank
<1>9. ASSUME NEW k \in 1..c PROVE OfRank(F \cup {n}, k) = OfRank(F, k)
  <2>1. OfRank(F \cup {n}, k) \subseteq F \cup {n} /\ OfRank(F, k) \subseteq F
    BY Zenon DEF OfRank
  <2>2. k # c + 1
    BY <1>2
  <2>. QED
    BY <1>7, <1>8, <2>1, <2>2, Zenon
<1>10. OfRank(F \cup {n}, c + 1) = {n}
  <2>1. OfRank(F \cup {n}, c + 1) \subseteq F \cup {n}
    BY Zenon DEF OfRank
  <2>2. ASSUME NEW i \in F PROVE i \notin OfRank(F, c + 1)
    BY <1>2, <1>5 DEF OfRank
  <2>. QED
    BY <1>7, <1>8, <2>1, <2>2, Zenon
<1>11. Only({n}) = n
  BY TurnOnly, Zenon
<1>12. ASSUME NEW k \in 1..c PROVE q[Only(OfRank(F, k))] = p[Only(OfRank(F, k))]
  <2>1. Only(OfRank(F, k)) \in OfRank(F, k)
    BY <1>12, TurnOnly, Zenon DEF TurnRanked
  <2>2. Only(OfRank(F, k)) \in F
    BY <2>1, Zenon DEF OfRank
  <2>3. Only(OfRank(F, k)) \in 1..Len(p)
    BY <1>2, <2>2, Zenon
  <2>. QED
    BY <1>1, <2>3, Zenon
<1>13. TurnRanked(FirstOnes(q))
  <2>1. ASSUME NEW k \in 1..(c + 1) PROVE OfRank(F \cup {n}, k) # {}
    <3>1. CASE k \in 1..c
      BY <1>9, <3>1, Zenon DEF TurnRanked
    <3>2. CASE k = c + 1
      BY <1>10, <3>2, Zenon
    <3>3. k \in 1..c \/ k = c + 1
      BY <1>2
    <3>. QED
      BY <3>1, <3>2, <3>3, Zenon
  <2>. QED
    BY <1>3, <1>4, <2>1, Zenon DEF TurnRanked
<1>14. EachOnce(q) = Append(EachOnce(p), s)
  <2>. DEFINE e == EachOnce(p)
  <2>1. e = [k \in 1..c |-> p[Only(OfRank(F, k))]]
    BY Zenon DEF EachOnce
  <2>2. e \in Seq(Steers) /\ Len(e) = c
    BY <1>2, <2>1
  <2>3. EachOnce(q) = [k \in 1..(c + 1) |-> q[Only(OfRank(F \cup {n}, k))]]
    BY <1>3, <1>4, Zenon DEF EachOnce
  <2>. HIDE DEF e
  <2>. DEFINE w == Append(e, s)
  <2>4. /\ w \in Seq(Steers) /\ Len(w) = c + 1 /\ w[c + 1] = s
        /\ \A k \in 1..c : w[k] = e[k]
    BY <2>2
  <2>. HIDE DEF w
  <2>5. ASSUME NEW k \in 1..(c + 1)
        PROVE  q[Only(OfRank(F \cup {n}, k))] = w[k]
    <3>1. CASE k \in 1..c
      <4>1. q[Only(OfRank(F \cup {n}, k))] = q[Only(OfRank(F, k))]
        BY <1>9, <3>1, Zenon
      <4>2. e[k] = p[Only(OfRank(F, k))]
        BY <2>1, <3>1, Zenon
      <4>. QED
        BY <1>12, <2>4, <3>1, <4>1, <4>2, Zenon
    <3>2. CASE k = c + 1
      BY <1>1, <1>10, <1>11, <2>4, <3>2, Zenon
    <3>3. k \in 1..c \/ k = c + 1
      BY <1>2
    <3>. QED
      BY <3>1, <3>2, <3>3, Zenon
  <2>6. w = [k \in 1..(c + 1) |-> w[k]]
    BY <1>2, <2>4
  <2>7. EachOnce(q) = w
    BY <2>3, <2>5, <2>6, Zenon
  <2>. QED
    BY <2>7, Zenon DEF e, w
<1>. QED
  BY <1>13, <1>14, Zenon DEF q

-----------------------------------------------------------------------------
(* The pending steers.                                                     *)

\* The steers of a turn that waits are pending.
LEMMA TurnPendingKept ==
    ASSUME TurnInv, Next
    PROVE  TurnPending'
<1>0. TurnPending /\ TurnLife /\ TurnRunnerOK /\ TurnHistoryOK
  BY Zenon DEF TurnInv, TurnTypeOK
<1>. USE DEF TurnPending
<1>w. \A t \in Turns : TurnWaits(t)' => TurnWaits(t)
  BY TurnWaitsBefore, Zenon
<1>1. ASSUME NEW t \in Turns, Enqueue(t) PROVE TurnPending'
  BY <1>0, <1>w, <1>1, Zenon DEF Enqueue, historyVars
<1>2. ASSUME NEW t \in Turns, Cancel(t) PROVE TurnPending'
  <2>1. UNCHANGED <<queued, pendingSteers, accepted, applied>>
    BY <1>2, Zenon DEF Cancel
  <2>. QED
    BY <1>0, <1>w, <2>1, Zenon
<1>3. ASSUME NEW s \in Steers, Steer(s) PROVE TurnPending'
  <2>. DEFINE u == SteerTurn[s]
              p == pendingSteers[u]
  <2>1. /\ u \in Turns /\ p \in Seq(Steers) /\ accepted[u] \in Seq(Steers)
        /\ pendingSteers \in [Turns -> Seq(Steers)] /\ accepted \in [Turns -> Seq(Steers)]
    BY <1>0, SteerTurnAssumption, Zenon DEF TurnRunnerOK, TurnHistoryOK
  <2>2. UNCHANGED <<queued, applied>>
    BY <1>3, Zenon DEF Steer
  <2>3. CASE UNCHANGED <<accepted, pendingSteers>>
    BY <1>0, <1>w, <2>2, <2>3, Zenon
  <2>4. CASE /\ u = current /\ pendingSteers' = pendingSteers
             /\ accepted' = [accepted EXCEPT ![u] = Once(@, s)]
    <3>1. \A t \in Turns : TurnWaits(t) => accepted'[t] = accepted[t]
      BY <2>1, <2>4, Zenon DEF TurnWaits
    <3>. QED
      BY <1>0, <1>w, <2>2, <2>4, <3>1, Zenon
  <2>5. CASE /\ u \in queued /\ pendingSteers' = [pendingSteers EXCEPT ![u] = Append(@, s)]
             /\ accepted' = [accepted EXCEPT ![u] = Once(@, s)]
    <3>1. /\ applied[u] = <<>> /\ accepted[u] = EachOnce(p) /\ TurnRanked(FirstOnes(p))
          /\ \A x \in Steers : TurnIn(x, accepted[u]) <=> TurnIn(x, p)
      BY <1>0, <2>1, <2>5, Zenon DEF TurnLife
    <3>2. accepted'[u] = Once(accepted[u], s) /\ pendingSteers'[u] = Append(p, s)
      BY <2>1, <2>5, Zenon
    <3>3. \A t \in Turns :
            t # u => accepted'[t] = accepted[t] /\ pendingSteers'[t] = pendingSteers[t]
      BY <2>1, <2>5, Zenon
    <3>4. s \in Range(accepted[u]) <=> TurnIn(s, accepted[u])
      BY <2>1, TurnRange, Zenon
    <3>. HIDE DEF u, p
    <3>5. /\ accepted'[u] = EachOnce(Append(p, s)) /\ TurnRanked(FirstOnes(Append(p, s)))
          /\ \A x \in Steers : TurnIn(x, accepted'[u]) <=> TurnIn(x, Append(p, s))
      <4>1. CASE TurnIn(s, p)
        <5>1. accepted'[u] = accepted[u]
          BY <3>1, <3>2, <3>4, <4>1, Zenon DEF Once
        <5>2. EachOnce(Append(p, s)) = EachOnce(p) /\ TurnRanked(FirstOnes(Append(p, s)))
          BY <2>1, <3>1, <4>1, TurnAgain, Zenon
        <5>. QED
          BY <2>1, <3>1, <4>1, <5>1, <5>2, TurnInAppend, Zenon
      <4>2. CASE ~TurnIn(s, p)
        <5>1. accepted'[u] = Append(accepted[u], s)
          BY <3>1, <3>2, <3>4, <4>2, Zenon DEF Once
        <5>2. EachOnce(Append(p, s)) = Append(EachOnce(p), s) /\ TurnRanked(FirstOnes(Append(p, s)))
          BY <2>1, <3>1, <4>2, TurnAnother, Zenon
        <5>. QED
          BY <2>1, <3>1, <5>1, <5>2, TurnInAppend
      <4>. QED
        BY <4>1, <4>2, Zenon
    <3>6. ASSUME NEW t \in Turns, TurnWaits(t)'
          PROVE  /\ applied'[t] = <<>> /\ accepted'[t] = EachOnce(pendingSteers'[t])
                 /\ \A x \in Steers : TurnIn(x, accepted'[t]) <=> TurnIn(x, pendingSteers'[t])
                 /\ TurnRanked(FirstOnes(pendingSteers'[t]))
                 /\ t \notin queued' => pendingSteers'[t] = <<>>
      <4>1. CASE t = u
        BY <2>2, <2>5, <3>1, <3>2, <3>5, <4>1, Zenon
      <4>2. CASE t # u
        BY <1>0, <1>w, <2>2, <3>3, <3>6, <4>2, Zenon
      <4>. QED
        BY <4>1, <4>2, Zenon
    <3>. QED
      BY <3>6, Zenon
  <2>. QED
    BY <1>3, <2>3, <2>4, <2>5, Zenon DEF Steer
<1>4. CASE Shutdown
  <2>1. UNCHANGED <<queued, pendingSteers, accepted, applied>>
    BY <1>4, Zenon DEF Shutdown
  <2>. QED
    BY <1>0, <1>w, <2>1, Zenon
<1>5. ASSUME NEW j \in Jobs, JobSettles(j) PROVE TurnPending'
  <2>1. UNCHANGED <<queued, pendingSteers, accepted, applied>>
    BY <1>5, Zenon DEF JobSettles, runnerVars, historyVars
  <2>. QED
    BY <1>0, <1>w, <2>1, Zenon
<1>6. CASE RunTurn
  <2>1. UNCHANGED <<accepted, applied>> /\ queued' = queued \ {Head(inbox)}
    BY <1>6, Zenon DEF RunTurn
  <2>2. \A t \in Turns : TurnWaits(t)' => t # Head(inbox)
    BY <1>6, Zenon DEF RunTurn, TurnWaits
  <2>3. \A t \in Turns : t # Head(inbox) => pendingSteers'[t] = pendingSteers[t]
    BY <1>0, <1>6, Zenon DEF RunTurn, TurnRunnerOK
  <2>. QED
    BY <1>0, <1>w, <2>1, <2>2, <2>3, Zenon
<1>7. CASE BeginTurn
  <2>1. UNCHANGED <<queued, pendingSteers, accepted, applied>>
    BY <1>7, Zenon DEF BeginTurn, runnerVars, historyVars
  <2>. QED
    BY <1>0, <1>w, <2>1, Zenon
<1>8. CASE Return
  <2>1. UNCHANGED <<queued, pendingSteers, accepted, applied>>
    BY <1>8, Zenon DEF Return, runnerVars, historyVars
  <2>. QED
    BY <1>0, <1>w, <2>1, Zenon
<1>9. CASE Reconcile
  <2>1. UNCHANGED <<queued, pendingSteers, accepted, applied>>
    BY <1>9, Zenon DEF Reconcile, runnerVars, historyVars
  <2>. QED
    BY <1>0, <1>w, <2>1, Zenon
<1>10. CASE CancelJobs
  <2>1. UNCHANGED <<queued, pendingSteers, accepted, applied>>
    BY <1>10, Zenon DEF CancelJobs, runnerVars, historyVars
  <2>. QED
    BY <1>0, <1>w, <2>1, Zenon
<1>11. CASE FinishTurn
  <2>1. UNCHANGED <<queued, pendingSteers, accepted, applied>>
    BY <1>11, Zenon DEF FinishTurn, runnerVars, historyVars
  <2>. QED
    BY <1>0, <1>w, <2>1, Zenon
<1>12. CASE Release
  <2>1. UNCHANGED <<queued, pendingSteers, accepted, applied>>
    BY <1>12, Zenon DEF Release, historyVars
  <2>. QED
    BY <1>0, <1>w, <2>1, Zenon
<1>13. CASE TurnInner
  <2>1. UNCHANGED <<queued, pendingSteers, accepted, current>>
    BY <1>13, TurnInnerFrame, Zenon DEF TurnStays, AgentFrame, runnerVars
  <2>2. \A t \in Turns : TurnWaits(t) => applied'[t] = applied[t]
    <3>1. CASE applied' = applied
      BY <3>1, Zenon
    <3>2. CASE AppendSteer
      BY <1>0, <3>2, Zenon DEF AppendSteer, Raise, RaiseIfCancelled, TurnHistoryOK, TurnWaits
    <3>. QED
      BY <1>13, <3>1, <3>2, TurnInnerFrame, Zenon DEF TurnStays
  <2>. QED
    BY <1>0, <1>w, <2>1, <2>2, Zenon
<1>. QED
  BY <1>1, <1>2, <1>3, <1>4, <1>5, <1>6, <1>7, <1>8, <1>9, <1>10, <1>11, <1>12, <1>13, Zenon DEF
     Next, AgentStep, TurnInner

-----------------------------------------------------------------------------
(* The theorems.                                                           *)

\* The invariant holds before the first turn.
LEMMA TurnInit == Init => TurnInv
<1>. SUFFICES ASSUME Init PROVE TurnInv
  BY Zenon
<1>. USE DEF Init, Board!Init
<1>1. TurnTypeOK
  <2>1. <<>> \in Seq(Steers) /\ <<>> \in Seq(Turns)
    OBVIOUS
  <2>2. TurnRunnerOK /\ TurnHistoryOK
    BY <2>1, Zenon DEF TurnRunnerOK, TurnHistoryOK
  <2>3. TurnControlOK /\ TurnLoopOK
    BY <2>1, Zenon DEF TurnControlOK, TurnLoopOK, TurnPlaces
  <2>4. TurnRecordOK /\ TurnJobsOK
    BY Zenon DEF TurnRecordOK, TurnJobsOK
  <2>. QED
    BY <2>2, <2>3, <2>4, Zenon DEF TurnTypeOK
<1>2. TurnLife /\ TurnStops
  BY NoTurnAssumption DEF TurnLife, TurnStops, TurnWaits
<1>3. TurnFlow /\ TurnCandidates /\ TurnSeen
  BY Zenon DEF TurnFlow, TurnCandidates, TurnSeen
<1>4. TurnRecords /\ TurnSteers /\ TurnAccepts
  BY NoTurnAssumption DEF TurnRecords, TurnSteers, TurnAccepts
<1>5. TurnJobs /\ TurnEnded
  BY NoTurnAssumption, Zenon DEF TurnJobs, TurnEnded
<1>6. TurnPending
  <2>1. FirstOnes(<<>>) = {}
    BY DEF FirstOnes
  <2>2. Cardinality({}) = 0
    BY FS_EmptySet, Zenon
  <2>3. 1..Cardinality(FirstOnes(<<>>)) = {}
    <3>1. 1..0 = {}
      OBVIOUS
    <3>. QED
      BY <2>1, <2>2, <3>1, Zenon
  <2>4. TurnRanked(FirstOnes(<<>>))
    BY <2>3, Zenon DEF TurnRanked
  <2>5. EachOnce(<<>>) = [k \in {} |-> <<>>[Only(OfRank(FirstOnes(<<>>), k))]]
    BY <2>3, Zenon DEF EachOnce
  <2>6. EachOnce(<<>>) = <<>>
    BY <2>5
  <2>. QED
    BY <2>4, <2>6, Zenon DEF TurnPending, TurnIn
<1>. QED
  BY <1>1, <1>2, <1>3, <1>4, <1>5, <1>6, Zenon DEF TurnInv

\* The invariant is inductive.
LEMMA TurnStep == TurnInv /\ [Next]_vars => TurnInv'
<1>. SUFFICES ASSUME TurnInv, [Next]_vars PROVE TurnInv'
  BY Zenon
<1>1. CASE Next
  <2>1. TurnTypeOK'
    BY <1>1, TurnRunnerKept, TurnControlKept, TurnLoopKept, TurnRecordKept, TurnJobsKept,
       TurnHistoryKept, Zenon DEF TurnTypeOK
  <2>. QED
    BY <1>1, <2>1, TurnLifeKept, TurnFlowKept, TurnPendingKept, TurnSteersKept, TurnAcceptsKept,
       TurnStopsKept, TurnRecordsKept, TurnCandidatesKept, TurnSeenKept, TurnJobsPhased,
       TurnEndedKept, Zenon DEF TurnInv
<1>2. CASE UNCHANGED vars
  <2>. USE <1>2 DEF vars, runnerVars, controlVars, loopVars, recordVars, jobVars,
                    historyVars, TurnInv
  <2>1. TurnTypeOK'
    BY Zenon DEF TurnTypeOK, TurnRunnerOK, TurnControlOK, TurnLoopOK, TurnRecordOK, TurnJobsOK,
       TurnHistoryOK
  <2>2. TurnLife' /\ TurnStops'
    BY Zenon DEF TurnLife, TurnStops, TurnWaits
  <2>3. TurnFlow' /\ TurnCandidates' /\ TurnSeen'
    BY Zenon DEF TurnFlow, TurnCandidates, TurnSeen
  <2>4. TurnRecords' /\ TurnJobs'
    BY Zenon DEF TurnRecords, TurnJobs
  <2>5. TurnAccepts' /\ TurnEnded'
    BY Zenon DEF TurnAccepts, TurnEnded, TurnOver
  <2>6. TurnPending'
    BY Zenon DEF TurnPending, TurnWaits
  <2>7. TurnSteers'
    BY Zenon DEF TurnSteers
  <2>. QED
    BY <2>1, <2>2, <2>3, <2>4, <2>5, <2>6, <2>7, Zenon DEF TurnInv
<1>. QED
  BY <1>1, <1>2, Zenon

\* So it holds at every time.
LEMMA TurnInductive == Spec => []TurnInv
  BY TurnInit, TurnStep, PTL DEF Spec

\* What the invariant says of one turn: its steers and its end.
LEMMA TurnInvSound ==
    ASSUME TurnInv, NEW t \in Turns
    PROVE  /\ TurnPrefix(applied[t], accepted[t])
           /\ status[t] = "completed" => applied[t] = accepted[t]
           /\ t \in stopped => status[t] # "completed" /\ result[t] # "completed"
           /\ "cancelled" \in {status[t], result[t]} => t \in stopped
<1>0. /\ TurnLife /\ TurnFlow /\ TurnPending /\ TurnSteers /\ TurnStops /\ TurnRecords
      /\ TurnEnded /\ TurnHistoryOK /\ TurnLoopOK
  BY Zenon DEF TurnInv, TurnTypeOK
<1>1. applied[t] \in Seq(Steers) /\ accepted[t] \in Seq(Steers) /\ taken \in Seq(Steers)
  BY <1>0, Zenon DEF TurnHistoryOK, TurnLoopOK
<1>2. CASE TurnWaits(t)
  <2>1. applied[t] = <<>> /\ status[t] = "none" /\ result[t] = "none"
    BY <1>0, <1>2, Zenon DEF TurnPending, TurnLife, TurnWaits
  <2>2. TurnPrefix(applied[t], accepted[t])
    BY <1>1, <2>1 DEF TurnPrefix
  <2>. QED
    BY <2>1, <2>2, Zenon
<1>3. CASE t = current
  <2>1. TurnPrefix(applied[t], accepted[t])
    BY <1>0, <1>1, <1>3, TurnPrefixes, Zenon DEF TurnSteers
  <2>2. /\ result[t] = "none" /\ (t \in stopped <=> cancelled = TRUE)
        /\ status[t] = "completed" => applied[t] = accepted[t]
    BY <1>0, <1>3, Zenon DEF TurnLife, TurnStops, TurnRecords
  <2>3. status[t] = "completed" => cancelled = FALSE
    BY <1>0, <1>3, Zenon DEF TurnRecords, TurnFlow
  <2>4. status[t] = "cancelled" => cancelled = TRUE
    BY <1>0, <1>3, Zenon DEF TurnRecords, TurnFlow
  <2>. QED
    BY <2>1, <2>2, <2>3, <2>4, Zenon
<1>4. CASE t # current /\ result[t] # "none"
  BY <1>0, <1>4, Zenon DEF TurnEnded, TurnOver
<1>. QED
  BY <1>2, <1>3, <1>4, Zenon DEF TurnWaits

\* Turns are sound for every number of turns, steers, jobs and rounds: accepted steers are
\* applied once and in order, a cancel in time wins, only completed turns are remembered.
THEOREM TurnsSound == Spec => []TurnSound
<1>1. TurnInv => TurnSound
  <2>. SUFFICES ASSUME TurnInv PROVE TurnSound
    BY Zenon
  <2>1. ASSUME NEW t \in Turns
        PROVE  /\ Len(applied[t]) <= Len(accepted[t])
               /\ applied[t] = SubSeq(accepted[t], 1, Len(applied[t]))
               /\ \A i, j \in DOMAIN applied[t] : applied[t][i] = applied[t][j] => i = j
    <3>1. applied[t] \in Seq(Steers) /\ accepted[t] \in Seq(Steers)
      BY Zenon DEF TurnInv, TurnTypeOK, TurnHistoryOK
    <3>2. TurnPrefix(applied[t], accepted[t])
      BY TurnInvSound, Zenon
    <3>3. \A i, j \in 1..Len(accepted[t]) : accepted[t][i] = accepted[t][j] => i = j
      BY Zenon DEF TurnInv, TurnAccepts
    <3>4. applied[t] = SubSeq(accepted[t], 1, Len(applied[t]))
      BY <3>1, <3>2, TurnPrefixes, Zenon
    <3>5. \A i, j \in DOMAIN applied[t] : applied[t][i] = applied[t][j] => i = j
      BY <3>1, <3>2, <3>3 DEF TurnPrefix
    <3>. QED
      BY <3>2, <3>4, <3>5, Zenon DEF TurnPrefix
  <2>2. SteersApplied
    BY <2>1, TurnInvSound, Zenon DEF SteersApplied
  <2>3. CancelWins
    BY TurnInvSound, Zenon DEF CancelWins
  <2>4. MemoryOfCompleted
    BY Zenon DEF TurnInv, TurnEnded, TurnCandidates, MemoryOfCompleted
  <2>. QED
    BY <2>2, <2>3, <2>4, Zenon DEF TurnSound
<1>. QED
  BY <1>1, TurnInductive, PTL

\* A turn completes only with nothing unseen: the final answer knows of all input.
THEOREM AnswersKnowEverything == Spec => AnswersEverything
<1>. DEFINE Seen ==
       \A t \in Turns : status[t] # "completed" /\ status'[t] = "completed" => unseen = {}
<1>1. ASSUME TurnInv, Next PROVE Seen
  <2>0. TurnFlow /\ TurnSeen /\ TurnRecordOK
    BY <1>1, Zenon DEF TurnInv, TurnTypeOK
  <2>1. CASE status' = status
    BY <2>1, Zenon
  <2>2. CASE BeginTurn
    BY <2>0, <2>2, Zenon DEF BeginTurn, TurnRecordOK
  <2>3. CASE Return
    BY <2>0, <2>3, Zenon DEF Return, TurnSeen
  <2>4. CASE FinishTurn
    BY <2>0, <2>4, Zenon DEF FinishTurn, TurnFlow, TurnRecordOK
  <2>5. ASSUME NEW t \in Turns, Enqueue(t) PROVE status' = status
    BY <2>5, Zenon DEF Enqueue, recordVars
  <2>6. ASSUME NEW t \in Turns, Cancel(t) PROVE status' = status
    BY <2>6, Zenon DEF Cancel, recordVars
  <2>7. ASSUME NEW s \in Steers, Steer(s) PROVE status' = status
    BY <2>7, Zenon DEF Steer, recordVars
  <2>8. ASSUME Shutdown PROVE status' = status
    BY <2>8, Zenon DEF Shutdown, recordVars
  <2>9. ASSUME NEW j \in Jobs, JobSettles(j) PROVE status' = status
    BY <2>9, Zenon DEF JobSettles, recordVars
  <2>10. ASSUME RunTurn PROVE status' = status
    BY <2>10, Zenon DEF RunTurn, recordVars
  <2>11. ASSUME Reconcile PROVE status' = status
    BY <2>11, Zenon DEF Reconcile
  <2>12. ASSUME CancelJobs PROVE status' = status
    BY <2>12, Zenon DEF CancelJobs, recordVars
  <2>13. ASSUME Release PROVE status' = status
    BY <2>13, Zenon DEF Release
  <2>14. ASSUME TurnInner PROVE status' = status
    BY <2>14, TurnInnerFrame, Zenon DEF TurnStays, AgentFrame
  <2>. QED
    BY <1>1, <2>1, <2>2, <2>3, <2>4, <2>5, <2>6, <2>7, <2>8, <2>9, <2>10, <2>11, <2>12, <2>13,
       <2>14, Zenon DEF Next, AgentStep, TurnInner
<1>2. TurnInv /\ [Next]_vars => [Seen]_vars
  BY <1>1, Zenon
<1>. QED
  BY <1>2, TurnInductive, PTL DEF Spec, AnswersEverything

\* Every step of the loop is a step of the board, or leaves it alone.
LEMMA TurnBoardStep ==
    ASSUME TurnInv, Next
    PROVE  Board!Next \/ UNCHANGED Board!boardVars
<1>0. TurnJobs /\ TurnLife /\ TurnRunnerOK /\ TurnJobsOK
  BY Zenon DEF TurnInv, TurnTypeOK
<1>1. CASE phase' = phase /\ turn' = turn
  BY <1>1, Zenon DEF Board!boardVars
<1>2. ASSUME NEW j \in Jobs, JobSettles(j) PROVE Board!Next
  <2>1. Board!Settle({j}) /\ {j} \in SUBSET Jobs
    BY <1>2, Zenon DEF JobSettles
  <2>. QED
    BY <2>1, Zenon DEF Board!Next
<1>3. ASSUME pc \notin {"idle", "reconcile", "unwound", "release"}
      PROVE  current \in Turns /\ turn[current] = "open"
  BY <1>0, <1>3, Zenon DEF TurnLife, TurnRunnerOK, TurnJobs
<1>4. CASE Return
  <2>1. current \in Turns /\ turn[current] = "open" /\ pc = "done"
    BY <1>3, <1>4, Zenon DEF Return
  <2>2. \A j \in Board!Owned(current) : phase[j] \in {"new", "delivered"}
    BY <1>0, <2>1, Zenon DEF TurnJobs, Board!Owned
  <2>3. Board!Complete(current)
    BY <1>4, <2>1, <2>2, Zenon DEF Return, Board!Complete
  <2>. QED
    BY <2>1, <2>3, Zenon DEF Board!Next
<1>5. CASE CancelJobs
  <2>1. current \in Turns /\ Board!Discard(current)
    BY <1>3, <1>5, Zenon DEF CancelJobs
  <2>. QED
    BY <2>1, Zenon DEF Board!Next
<1>6. CASE TurnInner
  <2>1. current \in Turns /\ turn[current] = "open" /\ turn' = turn
    BY <1>3, <1>6, TurnInnerFrame, Zenon DEF TurnStays, AgentFrame
  <2>2. CASE TurnDelivers
    <3>1. CASE Settled = {}
      BY <1>0, <1>1, <2>1, <2>2, <3>1, Zenon DEF TurnDelivers, TurnJobsOK
    <3>2. CASE Settled # {}
      <4>1. Board!Deliver(current)
        BY <2>1, <2>2, <3>2, Zenon DEF TurnDelivers, Settled, Board!Deliver, Board!Move
      <4>. QED
        BY <2>1, <4>1, Zenon DEF Board!Next
    <3>. QED
      BY <3>1, <3>2, Zenon
  <2>3. ASSUME NEW j \in Jobs, ToolSubmits(j) PROVE Board!Next
    <3>1. turn[TurnOf[j]] = "open" /\ phase[j] = "new" /\ phase' = [phase EXCEPT ![j] = "open"]
      BY <2>1, <2>3, Zenon DEF ToolSubmits
    <3>2. phase' = [i \in Jobs |-> IF i \in {j} THEN "open" ELSE phase[i]]
      BY <1>0, <3>1, Zenon DEF TurnJobsOK
    <3>3. Board!Accept(j)
      BY <2>1, <3>1, <3>2, Zenon DEF Board!Accept, Board!Move
    <3>. QED
      BY <3>3, Zenon DEF Board!Next
  <2>. QED
    BY <1>1, <1>6, <2>1, <2>2, <2>3, TurnInnerFrame, Zenon DEF TurnStays
<1>7. ASSUME NEW t \in Turns, Enqueue(t) PROVE phase' = phase /\ turn' = turn
  BY <1>7, Zenon DEF Enqueue, jobVars
<1>8. ASSUME NEW t \in Turns, Cancel(t) PROVE phase' = phase /\ turn' = turn
  BY <1>8, Zenon DEF Cancel, jobVars
<1>9. ASSUME NEW s \in Steers, Steer(s) PROVE phase' = phase /\ turn' = turn
  BY <1>9, Zenon DEF Steer, jobVars
<1>10. ASSUME Shutdown PROVE phase' = phase /\ turn' = turn
  BY <1>10, Zenon DEF Shutdown, jobVars
<1>11. ASSUME RunTurn PROVE phase' = phase /\ turn' = turn
  BY <1>11, Zenon DEF RunTurn, jobVars
<1>12. ASSUME BeginTurn PROVE phase' = phase /\ turn' = turn
  BY <1>12, Zenon DEF BeginTurn, jobVars
<1>13. ASSUME Reconcile PROVE phase' = phase /\ turn' = turn
  BY <1>13, Zenon DEF Reconcile, jobVars
<1>14. ASSUME FinishTurn PROVE phase' = phase /\ turn' = turn
  BY <1>14, Zenon DEF FinishTurn, jobVars
<1>15. ASSUME Release PROVE phase' = phase /\ turn' = turn
  BY <1>15, Zenon DEF Release, jobVars
<1>. QED
  BY <1>1, <1>2, <1>4, <1>5, <1>6, <1>7, <1>8, <1>9, <1>10, <1>11, <1>12, <1>13, <1>14, <1>15,
     Zenon DEF Next, AgentStep, TurnInner

\* The loop keeps the rules of JobBoard: a turn ends with no job open and no result
\* undelivered, unless all of its jobs are discarded.
THEOREM LoopKeepsBoard == Spec => KeepsBoard
<1>1. Init => Board!Init
  BY Zenon DEF Init
<1>2. TurnInv /\ [Next]_vars => [Board!Next \/ FALSE']_(Board!boardVars)
  <2>1. ASSUME UNCHANGED vars PROVE UNCHANGED Board!boardVars
    BY <2>1, Zenon DEF vars, jobVars, Board!boardVars
  <2>. QED
    BY <2>1, TurnBoardStep, Zenon
<1>. QED
  BY <1>1, <1>2, TurnInductive, PTL DEF Spec, KeepsBoard, Board!Spec
=============================================================================
