------------------------- MODULE MCDesktopGateway -------------------------
(* One desktop, called by its own and by another tenant.                   *)
EXTENDS DesktopGateway, TLC

CONSTANTS a1, t1

OneDesktop == a1 :> t1
CommandSymmetry == Permutations(Command)
=============================================================================
