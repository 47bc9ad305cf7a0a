---------------------------- MODULE MCTurnQueue -----------------------------
(* Small instances of TurnQueue for TLC: the constants are numbers. *)
EXTENDS TurnQueue

\* The filter of the model is that of the standard module.
ASSUME PickSelects ==
  \A n \in 0..4 : \A s \in [1..n -> 1..3], keep \in SUBSET (1..3) :
    Pick(s, keep) = SelectSeq(s, LAMBDA m : m \in keep)
=============================================================================
