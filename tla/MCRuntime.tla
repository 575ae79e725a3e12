------------------------------ MODULE MCRuntime ------------------------------
(***************************************************************************)
(* One agent process and what it keeps, for TLC: the runtime host, the     *)
(* session journal, long-term memory, the settings and the plan.  The      *)
(* components share no variable, so one instance explores them side by     *)
(* side: `part` is the component that moves, the others rest in their      *)
(* initial state.                                                          *)
(***************************************************************************)
EXTENDS RuntimeHost, SessionJournal, Memory, Settings, Plan

VARIABLE part

MCStoreOf == [m \in MemManagers |-> IF m = "sub" THEN "main" ELSE m]
MCWorkspaceOf == [m \in MemManagers |-> "w"]
MCSetStore == [c \in SetClients |-> "gui"]
MCEnvName == [p \in SetProviders |-> p]

\* The runtimes of the journal are interchangeable.
MCSymmetry == Permutations(Runtimes)

MCInit ==
    /\ part \in {"host", "journal", "memory", "settings", "plan"}
    /\ RuntimeInit /\ Init /\ MemInit /\ SetInit /\ PlanInit

MCHost == part = "host" /\ RuntimeNext /\ UNCHANGED <<part, vars, memVars, setVars, planVars>>
MCJournal == part = "journal" /\ Next /\ UNCHANGED <<part, hostVars, memVars, setVars, planVars>>
MCMemory == part = "memory" /\ MemNext /\ UNCHANGED <<part, hostVars, vars, setVars, planVars>>
MCSettings == part = "settings" /\ SetNext /\ UNCHANGED <<part, hostVars, vars, memVars, planVars>>
MCPlan == part = "plan" /\ PlanNext /\ UNCHANGED <<part, hostVars, vars, memVars, setVars>>

MCNext == MCHost \/ MCJournal \/ MCMemory \/ MCSettings \/ MCPlan

MCSpec == MCInit /\ [][MCNext]_<<part, hostVars, vars, memVars, setVars, planVars>>
=============================================================================
