------------------------------ MODULE MCRoute -------------------------------
(* RouteProperties on small instances: see the .cfg files.                 *)
EXTENDS RouteProperties, TLC

(* No action and no safety property tells one epoch from another.          *)
EpochSymmetry == Permutations(Epochs)
=============================================================================
