------------------------------- MODULE MCTage -------------------------------
(***************************************************************************)
(* A small TAGE predictor for TLC.  Spec takes every trace; LoopSpec those  *)
(* of a loop with three branches, each going either way each time: longer   *)
(* traces, in which useful entries are fought for.                          *)
(***************************************************************************)
EXTENDS Tage

Lengths == <<2, 3, 5>>
Body == <<1, 2, 9>>
Addresses == {Body[k] : k \in DOMAIN Body}

LoopNext ==
    \/ GetPrediction(Body[(branches % Len(Body)) + 1])
    \/ \E dir \in {TAKEN, NOT_TAKEN} : UpdatePredictor(dir)
LoopSpec == Init /\ [][LoopNext]_vars
=============================================================================
