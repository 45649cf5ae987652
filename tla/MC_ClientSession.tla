--------------------------- MODULE MC_ClientSession ---------------------------
(***************************************************************************)
(* Requests of the app-wide client and one reload of the user beside the   *)
(* bootstrap, the registration and the logout.                             *)
(***************************************************************************)
EXTENDS ClientSession

CONSTANTS c1, c2, me

MCRequests == {c1, c2}
MCReloads == {me}
=============================================================================
