--------------------------- MODULE MCVaultPanel ----------------------------
(* Instances of VaultPanel for TLC. *)
EXTENDS VaultPanel, TLC

CONSTANTS c1, c2, x

\* One method that approves its amount once, and one that does so twice.
TwoCards == (c1 :> <<x>>) @@ (c2 :> <<x, x>>)
=============================================================================
