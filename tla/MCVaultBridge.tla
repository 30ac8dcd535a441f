--------------------------- MODULE MCVaultBridge ---------------------------
(* Instances of VaultBridge for TLC. *)
EXTENDS VaultBridge

CONSTANT v

\* A component that calls its vault, or lets a stranger spend.
SomePayloads == {[target |-> v, spender |-> None], [target |-> Stranger, spender |-> Stranger]}
=============================================================================
