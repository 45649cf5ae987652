--------------------------- MODULE MC_PushDelivery ---------------------------
(***************************************************************************)
(* Two devices and two workers: a job whose lock expired runs twice at a   *)
(* time.  Three attempts as in the code, and the one expired lock the      *)
(* queue forgives by default.                                              *)
(***************************************************************************)
EXTENDS PushDelivery, TLC

MCSymmetry == Permutations(Tokens) \cup Permutations(Workers)
=============================================================================
