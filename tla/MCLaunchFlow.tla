---------------------------- MODULE MCLaunchFlow ----------------------------
(* Two revisions with the same description, one length apart.              *)
EXTENDS LaunchFlow

CONSTANTS w1, w2, testnet, mainnet, v1, v2

MCDescOf == [c \in Codes |-> "same name, same first line"]
MCDescs == {"same name, same first line"}
MCPrint == [c \in Codes |-> IF c = v1 THEN "1024:0033" ELSE "1025:0033"]
=============================================================================
