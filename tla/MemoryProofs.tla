------------------------------ MODULE MemoryProofs ------------------------------
(***************************************************************************)
(* Proof about Memory for every set of turns, processes and workspaces and *)
(* any number of candidates.                                               *)
(***************************************************************************)
EXTENDS Memory, TLAPS

MemCandidates == [file : MemFiles, id : Nat]

MemTypes ==
    /\ memDoc \in [MemFiles -> SUBSET MemCandidates]
    /\ memPending \in [MemManagers -> SUBSET MemCandidates]
    /\ DOMAIN memAt = MemManagers
    /\ memFacts \in Nat
    /\ memSaved \in SUBSET MemCandidates

\* What a reconciliation of m holds in its hands at the place `at': candidates from
\* its start on, and once merged, for exactly their files, the loaded document with
\* them.
MemCarries(m, at) ==
    /\ at.step \in {"locking", "loaded", "merged"} =>
          /\ at.taken \in SUBSET MemCandidates
          /\ \A c \in at.taken : c.file \in MemRead(m)
    /\ at.step \in {"loaded", "merged"} =>
          \A f \in MemRead(m) : at.base[f] \in SUBSET MemCandidates
    /\ at.step = "merged" => at.updates = MemMerged(at)

MemAtInv == \A m \in MemManagers : MemCarries(m, memAt[m])

MemPendingInv == \A m \in MemManagers : \A c \in memPending[m] : c.file \in MemRead(m)

MemIInv == MemTypes /\ MemPendingInv /\ MemAtInv /\ MemKeepsSaved

\* The files a manager reads are files.
LEMMA ReadIsFile == \A m \in MemManagers : MemRead(m) \subseteq MemFiles
  BY DEF MemRead, MemFiles

\* A fresh store holds nothing.
LEMMA MemoryInit == MemInit => MemIInv
  BY DEF MemInit, MemIInv, MemTypes, MemPendingInv, MemAtInv, MemKeepsSaved,
         MemCarries, MemIdle, MemCandidates

\* A turn that reconciles nothing holds nothing.
LEMMA IdleCarries == \A m \in MemManagers : MemCarries(m, MemIdle)
  BY DEF MemCarries, MemIdle

\* Only the manager that moves holds something else than before.
LEMMA OneMoves ==
    ASSUME MemTypes, MemAtInv, NEW m \in MemManagers, NEW at, MemCarries(m, at),
           memAt' = [memAt EXCEPT ![m] = at]
    PROVE  MemAtInv' /\ DOMAIN memAt' = MemManagers
<1>1. DOMAIN memAt' = MemManagers /\ memAt'[m] = at
  BY DEF MemTypes
<1>2. ASSUME NEW n \in MemManagers
      PROVE  MemCarries(n, memAt'[n])
  <2>1. CASE n = m
    BY <1>1, <2>1
  <2>2. CASE n # m
    <3>1. memAt'[n] = memAt[n]
      BY <2>2 DEF MemTypes
    <3>. QED
      BY <3>1 DEF MemAtInv
  <2>. QED
    BY <2>1, <2>2
<1>. QED
  BY <1>1, <1>2, Zenon DEF MemAtInv, MemCarries, MemMerged, MemRead, MemCandidates, MemFiles

\* What write_updates is about to write is a document that carries the loaded
\* one and the candidates of its file.
LEMMA MergedCarries ==
    ASSUME MemIInv, NEW m \in MemManagers, memAt[m].step = "merged"
    PROVE  /\ DOMAIN memAt[m].updates = {c.file : c \in memAt[m].taken}
           /\ DOMAIN memAt[m].updates \subseteq MemFiles
           /\ \A f \in DOMAIN memAt[m].updates :
                /\ memAt[m].updates[f] \in SUBSET MemCandidates
                /\ memAt[m].base[f] \subseteq memAt[m].updates[f]
                /\ \A c \in memAt[m].taken : c.file = f => c \in memAt[m].updates[f]
<1> DEFINE at == memAt[m]
<1>1. at.updates = MemMerged(at)
  BY DEF MemIInv, MemAtInv, MemCarries
<1>2. DOMAIN at.updates = {c.file : c \in at.taken}
  BY <1>1 DEF MemMerged
<1>3. /\ at.taken \in SUBSET MemCandidates
      /\ \A c \in at.taken : c.file \in MemRead(m)
      /\ \A f \in MemRead(m) : at.base[f] \in SUBSET MemCandidates
  BY DEF MemIInv, MemAtInv, MemCarries
<1>4. \A f \in DOMAIN at.updates :
         at.updates[f] = at.base[f] \cup {c \in at.taken : c.file = f}
  BY <1>1 DEF MemMerged
<1>5. DOMAIN at.updates \subseteq MemRead(m)
  BY <1>2, <1>3
<1>. QED
  BY <1>2, <1>3, <1>4, <1>5, ReadIsFile

\* Every step of a turn, of another process's turn or of a crash keeps the
\* invariant.
LEMMA MemoryStep == MemIInv /\ [MemNext]_memVars => MemIInv'
<1> SUFFICES ASSUME MemIInv, [MemNext]_memVars PROVE MemIInv'
  OBVIOUS
<1> USE DEF MemIInv
<1>1. ASSUME NEW m \in MemManagers, NEW scope \in {"global", "workspace"},
             MemRemember(m, scope)
      PROVE  MemIInv'
  <2>1. MemFile(m, scope) \in MemRead(m) /\ MemFile(m, scope) \in MemFiles
    BY DEF MemFile, MemRead, MemFiles
  <2>2. MemTypes'
    BY <1>1, <2>1 DEF MemRemember, MemTypes, MemCandidates
  <2>3. MemPendingInv'
    BY <1>1, <2>1 DEF MemRemember, MemTypes, MemPendingInv
  <2>4. MemAtInv' /\ MemKeepsSaved'
    BY <1>1 DEF MemRemember, MemAtInv, MemCarries, MemKeepsSaved, MemMerged
  <2>. QED
    BY <2>2, <2>3, <2>4
<1>2. ASSUME NEW m \in MemManagers, MemDiscard(m)
      PROVE  MemIInv'
  <2>1. MemTypes' /\ MemPendingInv' /\ MemKeepsSaved'
    BY <1>2 DEF MemDiscard, MemTypes, MemPendingInv, MemKeepsSaved
  <2>2. MemAtInv'
    BY <1>2 DEF MemDiscard, MemAtInv, MemCarries, MemMerged
  <2>. QED
    BY <2>1, <2>2
<1>3. ASSUME NEW m \in MemManagers, MemTake(m)
      PROVE  MemIInv'
  <2> DEFINE at == [step |-> "locking", taken |-> memPending[m]]
  <2>1. MemCarries(m, at)
    BY DEF MemCarries, MemTypes, MemPendingInv
  <2>2. MemAtInv' /\ DOMAIN memAt' = MemManagers
    BY <1>3, <2>1, OneMoves, Zenon DEF MemTake
  <2>. QED
    BY <1>3, <2>2 DEF MemTake, MemTypes, MemPendingInv, MemKeepsSaved
<1>4. ASSUME NEW m \in MemManagers, MemLoad(m)
      PROVE  MemIInv'
  <2> DEFINE at == [step |-> "loaded", taken |-> memAt[m].taken,
                    base |-> [f \in MemRead(m) |-> memDoc[f]]]
  <2>1. MemCarries(m, memAt[m]) /\ memAt[m].step = "locking"
    BY <1>4 DEF MemLoad, MemAtInv
  <2>2. MemCarries(m, at)
    BY <2>1, ReadIsFile DEF MemCarries, MemTypes
  <2>3. memAt' = [memAt EXCEPT ![m] = at]
    BY <1>4 DEF MemLoad, MemTypes
  <2>4. MemAtInv' /\ DOMAIN memAt' = MemManagers
    BY <2>2, <2>3, OneMoves
  <2>. QED
    BY <1>4, <2>4 DEF MemLoad, MemTypes, MemPendingInv, MemKeepsSaved
<1>5. ASSUME NEW m \in MemManagers, MemReconcile(m)
      PROVE  MemIInv'
  <2> DEFINE at == [step |-> "merged", taken |-> memAt[m].taken,
                    base |-> memAt[m].base, updates |-> MemMerged(memAt[m])]
  <2>1. MemCarries(m, memAt[m]) /\ memAt[m].step = "loaded"
    BY <1>5 DEF MemReconcile, MemAtInv
  <2>2. at.updates = MemMerged(at)
    BY DEF MemMerged
  <2>3. MemCarries(m, at)
    <3> HIDE DEF at
    <3>1. at.taken = memAt[m].taken /\ at.base = memAt[m].base /\ at.step = "merged"
      BY DEF at
    <3>. QED
      BY <2>1, <2>2, <3>1 DEF MemCarries
  <2>4. memAt' = [memAt EXCEPT ![m] = at]
    BY <1>5 DEF MemReconcile, MemTypes
  <2>5. MemAtInv' /\ DOMAIN memAt' = MemManagers
    BY <2>3, <2>4, OneMoves, Zenon
  <2>. QED
    BY <1>5, <2>5 DEF MemReconcile, MemTypes, MemPendingInv, MemKeepsSaved
<1>6. ASSUME NEW m \in MemManagers, memAt' = [memAt EXCEPT ![m] = MemIdle]
      PROVE  MemAtInv' /\ DOMAIN memAt' = MemManagers
  BY <1>6, IdleCarries, OneMoves, Zenon
<1>7. ASSUME NEW m \in MemManagers, MemRaises(m)
      PROVE  MemIInv'
  BY <1>6, <1>7, Zenon DEF MemRaises, MemTypes, MemPendingInv, MemKeepsSaved
<1>8. ASSUME NEW m \in MemManagers, MemWrite(m)
      PROVE  MemIInv'
  <2>1. MemAtInv' /\ DOMAIN memAt' = MemManagers /\ MemPendingInv'
    BY <1>6, <1>8, Zenon DEF MemWrite, MemPendingInv
  <2>2. CASE MemStale(memAt[m])
    BY <1>8, <2>1, <2>2 DEF MemWrite, MemTypes, MemKeepsSaved
  <2>3. CASE ~MemStale(memAt[m])
    <3>1. /\ memAt[m].step = "merged"
          /\ memDoc' = [f \in MemFiles |->
                IF f \in DOMAIN memAt[m].updates THEN memAt[m].updates[f] ELSE memDoc[f]]
          /\ memSaved' = memSaved \cup memAt[m].taken
          /\ UNCHANGED <<memPending, memFacts>>
      BY <1>8, <2>3 DEF MemWrite
    <3>2. memAt[m].taken \in SUBSET MemCandidates
      BY <3>1 DEF MemAtInv, MemCarries
    <3>3. MemTypes'
      BY <2>1, <3>1, <3>2, MergedCarries DEF MemTypes
    <3>4. \A f \in MemFiles : memDoc[f] \subseteq memDoc'[f]
      BY <2>3, <3>1, MergedCarries DEF MemStale
    <3>5. \A c \in memAt[m].taken : c \in memDoc'[c.file]
      BY <3>1, MergedCarries
    <3>6. \A c \in memSaved : c.file \in MemFiles
      BY DEF MemTypes, MemCandidates
    <3>7. MemKeepsSaved'
      BY <3>1, <3>4, <3>5, <3>6 DEF MemKeepsSaved
    <3>. QED
      BY <2>1, <3>3, <3>7
  <2>. QED
    BY <2>2, <2>3
<1>9. ASSUME NEW m \in MemManagers, MemWriteFails(m)
      PROVE  MemIInv'
  <2>1. MemAtInv' /\ DOMAIN memAt' = MemManagers /\ MemPendingInv'
    BY <1>6, <1>9, Zenon DEF MemWriteFails, MemPendingInv
  <2>2. /\ memAt[m].step = "merged" /\ "global" \in DOMAIN memAt[m].updates
        /\ memDoc' = [memDoc EXCEPT !["global"] = memAt[m].updates["global"]]
        /\ memDoc["global"] = memAt[m].base["global"]
        /\ UNCHANGED <<memPending, memFacts, memSaved>>
    BY <1>9 DEF MemWriteFails, MemStale
  <2>3. MemTypes'
    BY <2>1, <2>2, MergedCarries DEF MemTypes
  <2>4. \A f \in MemFiles : memDoc[f] \subseteq memDoc'[f]
    BY <2>2, MergedCarries DEF MemTypes
  <2>5. MemKeepsSaved'
    BY <2>2, <2>4 DEF MemKeepsSaved, MemTypes, MemCandidates
  <2>. QED
    BY <2>1, <2>3, <2>5
<1>10. ASSUME NEW s, MemCrash(s)
       PROVE  MemIInv'
  <2>1. MemTypes' /\ MemPendingInv' /\ MemKeepsSaved'
    BY <1>10 DEF MemCrash, MemTypes, MemPendingInv, MemKeepsSaved
  <2>2. ASSUME NEW n \in MemManagers PROVE memAt'[n] = memAt[n] \/ memAt'[n] = MemIdle
    BY <1>10 DEF MemCrash
  <2>3. \A n \in MemManagers : MemCarries(n, memAt'[n])
    BY <2>2, IdleCarries DEF MemAtInv
  <2>4. MemAtInv'
    BY <2>3, Zenon DEF MemAtInv, MemCarries, MemMerged, MemRead, MemCandidates, MemFiles
  <2>. QED
    BY <2>1, <2>4
<1>11. CASE UNCHANGED memVars
  BY <1>11 DEF memVars, MemTypes, MemPendingInv, MemAtInv, MemCarries, MemKeepsSaved,
               MemMerged
<1>12. CASE MemNext
  BY <1>1, <1>2, <1>3, <1>4, <1>5, <1>7, <1>8, <1>9, <1>10, <1>12, Zenon DEF MemNext
<1>. QED
  BY <1>11, <1>12

\* A candidate whose reconciliation succeeded is never lost from its document,
\* for any number of turns and processes that reconcile, fail half-way or die
\* (memory.py: reconcile_pending, write_updates).
THEOREM MemorySaves == MemSpec => []MemKeepsSaved
<1>1. MemIInv => MemKeepsSaved
  BY DEF MemIInv
<1>. QED
  BY <1>1, MemoryInit, MemoryStep, PTL DEF MemSpec
=============================================================================
