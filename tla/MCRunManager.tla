---------------------------- MODULE MCRunManager ----------------------------
(* Model values for RunManager: a contract with a custom UI, a deliverable *)
(* without source (a spec-only draft), and every progress event twice.     *)
EXTENDS RunManager

MCResults == {{"solidity", "mechanic_spec", "vault_ui", "title"},
              {"mechanic_spec"}}

MCGenEvents == {"status", "code_delta"}

=============================================================================
