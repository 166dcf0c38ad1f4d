----------------------------- MODULE MCServices -----------------------------
(***************************************************************************)
(* The instance of Services that TLC checks.                               *)
(***************************************************************************)
EXTENDS Services

\* Forms that give and take the right to pull and the flag active.
TokenForms == {{"active", "push", "pull", "create", "queue"}, {"active", "pull", "create"}}
=============================================================================
