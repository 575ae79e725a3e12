----------------------------- MODULE MCTurnLoop -----------------------------
(* An instance of TurnLoop for TLC: two turns, the first with two steers   *)
(* and a job.                                                              *)
EXTENDS TurnLoop, TLC

CONSTANTS t1, t2, s1, s2, j1

MCTurnOf == j1 :> t1
MCSteerTurn == s1 :> t1 @@ s2 :> t1
=============================================================================
