-------------------------------- MODULE Memory --------------------------------
(***************************************************************************)
(* Long-term memory (agent_core/memory.py): what several turns, in one     *)
(* process or in several, do to the shared MEMORY.md files.                *)
(*                                                                         *)
(* A turn collects candidates with the remember tool and reconciles them   *)
(* once it has completed: it takes the candidates, loads both documents    *)
(* under the file lock, asks a model to merge each scope that has          *)
(* candidates, and writes under the file lock if neither document it       *)
(* merged has changed since.  The managers of one binding, an agent's and  *)
(* its subagents', share a store and its reconciliation lock; processes    *)
(* share only the file lock.  A document is reduced to the candidates that *)
(* the documents it was merged from carried.                               *)
(***************************************************************************)
EXTENDS Naturals

CONSTANTS
    MemManagers,    \* the turns' memory managers
    MemStoreOf,     \* MemStoreOf[m]: the store of manager m
    MemWorkspaceOf, \* MemWorkspaceOf[m]: the workspace of manager m
    MemMaxFacts     \* bound on the candidates remembered

ASSUME MemAssumption ==
    /\ DOMAIN MemStoreOf = MemManagers
    /\ DOMAIN MemWorkspaceOf = MemManagers
    /\ \A m \in MemManagers : MemWorkspaceOf[m] # "global"
    /\ MemMaxFacts \in Nat

VARIABLES
    memDoc,      \* memDoc[f]: the document in file f
    memPending,  \* memPending[m]: the candidates of m's turn
    memAt,       \* memAt[m]: where m's reconciliation stands
    memFacts,    \* the number of candidates remembered so far
    memSaved     \* the candidates whose reconciliation returned True

memVars == <<memDoc, memPending, memAt, memFacts, memSaved>>

MemFiles == {"global"} \cup {MemWorkspaceOf[m] : m \in MemManagers}

\* The file of a scope, and the files manager m reads.
MemFile(m, scope) == IF scope = "global" THEN "global" ELSE MemWorkspaceOf[m]

MemRead(m) == {"global", MemWorkspaceOf[m]}

MemIdle == [step |-> "turn"]

\* m holds its store's reconciliation lock.
MemHolds(m) == memAt[m].step \in {"loaded", "merged"}

\* The remember tool appends a candidate to the turn's list.
MemRemember(m, scope) ==
    /\ memAt[m] = MemIdle
    /\ memFacts < MemMaxFacts
    /\ memFacts' = memFacts + 1
    /\ memPending' = [memPending EXCEPT
            ![m] = @ \cup {[file |-> MemFile(m, scope), id |-> memFacts']}]
    /\ UNCHANGED <<memDoc, memAt, memSaved>>

\* A turn fails, is cancelled or begins: its candidates are discarded.
MemDiscard(m) ==
    /\ memAt[m] = MemIdle
    /\ memPending[m] # {}
    /\ memPending' = [memPending EXCEPT ![m] = {}]
    /\ UNCHANGED <<memDoc, memAt, memFacts, memSaved>>

\* A completed turn takes its candidates and clears the list.
MemTake(m) ==
    /\ memAt[m] = MemIdle
    /\ memPending[m] # {}
    /\ memAt' = [memAt EXCEPT ![m] = [step |-> "locking", taken |-> memPending[m]]]
    /\ memPending' = [memPending EXCEPT ![m] = {}]
    /\ UNCHANGED <<memDoc, memFacts, memSaved>>

\* The store's reconciliation lock is taken and both documents are loaded.
MemLoad(m) ==
    /\ memAt[m].step = "locking"
    /\ \A n \in MemManagers : MemStoreOf[n] = MemStoreOf[m] => ~MemHolds(n)
    /\ memAt' = [memAt EXCEPT ![m] =
            [step |-> "loaded", taken |-> @.taken,
             base |-> [f \in MemRead(m) |-> memDoc[f]]]]
    /\ UNCHANGED <<memDoc, memPending, memFacts, memSaved>>

\* The documents a reconciliation proposes, for the files it has candidates of.
MemMerged(at) ==
    [f \in {c.file : c \in at.taken} |->
        at.base[f] \cup {c \in at.taken : c.file = f}]

\* The model has merged every scope.
MemReconcile(m) ==
    /\ memAt[m].step = "loaded"
    /\ memAt' = [memAt EXCEPT ![m] =
            [step |-> "merged", taken |-> @.taken, base |-> @.base,
             updates |-> MemMerged(@)]]
    /\ UNCHANGED <<memDoc, memPending, memFacts, memSaved>>

\* The model's call, the load or its answer's parsing raised: the candidates
\* are gone, and the turn that completed reports a warning.
MemRaises(m) ==
    /\ memAt[m].step = "loaded"
    /\ memAt' = [memAt EXCEPT ![m] = MemIdle]
    /\ UNCHANGED <<memDoc, memPending, memFacts, memSaved>>

\* Mutant: only the global document is compared.
MemStaleGlobal(at) == "global" \in DOMAIN at.updates /\ memDoc["global"] # at.base["global"]

\* A document to be replaced is no longer the one that was loaded.
MemStale(at) == \E f \in DOMAIN at.updates : memDoc[f] # at.base[f]

\* write_updates: under the file lock the documents to be replaced are compared
\* with the loaded ones and replaced, the global one first.
MemWrite(m) ==
    LET at == memAt[m]
    IN  /\ at.step = "merged"
        /\ IF MemStale(at)
           THEN UNCHANGED <<memDoc, memSaved>>
           ELSE /\ memDoc' = [f \in MemFiles |->
                        IF f \in DOMAIN at.updates THEN at.updates[f] ELSE memDoc[f]]
                /\ memSaved' = memSaved \cup at.taken
        /\ memAt' = [memAt EXCEPT ![m] = MemIdle]
        /\ UNCHANGED <<memPending, memFacts>>

\* The second replacement fails, or the process dies before it.
MemWriteFails(m) ==
    LET at == memAt[m]
    IN  /\ at.step = "merged"
        /\ ~MemStale(at)
        /\ "global" \in DOMAIN at.updates
        /\ memDoc' = [memDoc EXCEPT !["global"] = at.updates["global"]]
        /\ memAt' = [memAt EXCEPT ![m] = MemIdle]
        /\ UNCHANGED <<memPending, memFacts, memSaved>>

\* A process dies: the turns of its store and their candidates are gone, and
\* the locks with them.
MemCrash(s) ==
    /\ \E m \in MemManagers : MemStoreOf[m] = s /\ memAt[m] # MemIdle
    /\ memAt' = [m \in MemManagers |-> IF MemStoreOf[m] = s THEN MemIdle ELSE memAt[m]]
    /\ memPending' = [m \in MemManagers |->
            IF MemStoreOf[m] = s THEN {} ELSE memPending[m]]
    /\ UNCHANGED <<memDoc, memFacts, memSaved>>

MemInit ==
    /\ memDoc = [f \in MemFiles |-> {}]
    /\ memPending = [m \in MemManagers |-> {}]
    /\ memAt = [m \in MemManagers |-> MemIdle]
    /\ memFacts = 0
    /\ memSaved = {}

MemNext ==
    \/ \E m \in MemManagers :
          \/ \E scope \in {"global", "workspace"} : MemRemember(m, scope)
          \/ MemDiscard(m)
          \/ MemTake(m)
          \/ MemLoad(m)
          \/ MemReconcile(m)
          \/ MemRaises(m)
          \/ MemWrite(m)
          \/ MemWriteFails(m)
    \/ \E s \in {MemStoreOf[m] : m \in MemManagers} : MemCrash(s)

MemSpec == MemInit /\ [][MemNext]_memVars

\* A candidate whose reconciliation succeeded stays in its document, whatever
\* turns of this and of other processes reconcile at the same time
\* (reconcile_pending, write_updates).
MemKeepsSaved == \A c \in memSaved : c \in memDoc[c.file]
=============================================================================
