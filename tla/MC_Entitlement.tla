--------------------------- MODULE MC_Entitlement ---------------------------
(***************************************************************************)
(* Three requests at a time: two verdicts and a profile update race, or    *)
(* three verdicts.  A notification leaves the store before it says the     *)
(* next thing, but several are applied at once.                            *)
(***************************************************************************)
EXTENDS Entitlement, TLC

MCSymmetry == Permutations(Handlers)
=============================================================================
