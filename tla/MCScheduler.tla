---------------------------- MODULE MCScheduler ----------------------------
(* Scheduler for TLC: two bridge processes and a tool call in one of them. *)
EXTENDS Scheduler, TLC

CONSTANTS p1, p2, tool

\* A one-shot, an interval and a cron expression.
MCTriggers == {[type |-> "once", at |-> 2],
               [type |-> "interval", every |-> 2, start |-> 2],
               [type |-> "cron", at |-> {2, 4}]}
MCEnds == {Never, 4}
MCHome == tool :> p1
=============================================================================
