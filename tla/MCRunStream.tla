----------------------------- MODULE MCRunStream -----------------------------
(* Model values for RunStream. *)
EXTENDS RunStream, TLC

\* A contract, and a deliverable without source.
MCResults == {{"solidity", "vault_ui"}, {"mechanic_spec"}}
\* A contract only: the runs whose question is about the stream.
MCOneResult == {{"solidity"}}

MCAllEvents == {"status", "code_delta"}
MCPersistedEvents == {"status"}

=============================================================================
