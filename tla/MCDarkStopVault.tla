--------------------------- MODULE MCDarkStopVault ---------------------------
(* DarkStopVault on small instances.                                       *)
EXTENDS DarkStopVault

CONSTANTS deployer, alice, none

MCAccounts == {deployer, alice}
=============================================================================
