---------------------------- MODULE MCEventBus ----------------------------
(* Small instances of the event bus. *)
EXTENDS EventBus, TLC

\* Workers and monitors are interchangeable.
Symmetry == Permutations(Workers) \cup Permutations(Monitors)
=============================================================================
