-------------------------- MODULE MCSessionJournal --------------------------
(* SessionJournal for TLC: the ids are model values of the configurations. *)
EXTENDS SessionJournal, TLC

\* Runtimes are interchangeable.
MCSymmetry == Permutations(Runtimes)
=============================================================================
