------------------------------ MODULE JobBoard ------------------------------
(***************************************************************************)
(* What background jobs promise to a turn, without threads, futures,       *)
(* tokens, tables or locks (the contract of agent_core/jobs.py): a job     *)
(* that was accepted settles once; a settled result is handed to its turn  *)
(* once, unless the turn is thrown away as a whole; a turn completes only  *)
(* with every result in its hands.                                         *)
(***************************************************************************)
EXTENDS FiniteSets

CONSTANTS Jobs, Turns, TurnOf

VARIABLES
    phase,   \* what became of each job
    turn,    \* what became of each turn
    broken   \* the journal has failed, which voids the promise

boardVars == <<phase, turn>>

In(S, p) == {j \in S : phase[j] = p}
Owned(t) == {j \in Jobs : TurnOf[j] = t}
Move(S, p) == phase' = [j \in Jobs |-> IF j \in S THEN p ELSE phase[j]]

Init ==
    /\ phase = [j \in Jobs |-> "new"]
    /\ turn = [t \in Turns |-> "open"]

Accept(j) ==
    /\ phase[j] = "new"
    /\ turn[TurnOf[j]] = "open"
    /\ Move({j}, "open")
    /\ UNCHANGED turn

\* One job ends by itself, or a cancellation ends several queued ones.
Settle(S) ==
    /\ S # {}
    /\ \A j \in S : phase[j] = "open"
    /\ Move(S, "settled")
    /\ UNCHANGED turn

Deliver(t) ==
    /\ turn[t] = "open"
    /\ In(Owned(t), "settled") # {}
    /\ Move(In(Owned(t), "settled"), "delivered")
    /\ UNCHANGED turn

Complete(t) ==
    /\ turn[t] = "open"
    /\ \A j \in Owned(t) : phase[j] \in {"new", "delivered"}
    /\ turn' = [turn EXCEPT ![t] = "complete"]
    /\ UNCHANGED phase

Discard(t) ==
    /\ turn[t] = "open"
    /\ In(Owned(t), "open") = {}
    /\ Move(In(Owned(t), "settled"), "dropped")
    /\ turn' = [turn EXCEPT ![t] = "discarded"]

Next ==
    \/ \E j \in Jobs : Accept(j)
    \/ \E S \in SUBSET Jobs : Settle(S)
    \/ \E t \in Turns : Deliver(t) \/ Complete(t) \/ Discard(t)

Spec == Init /\ [][Next \/ broken']_boardVars
=============================================================================
