----------------------------- MODULE MCSessions ----------------------------
(***************************************************************************)
(* Instances of Sessions for TLC.                                          *)
(***************************************************************************)
EXTENDS Sessions, TLC

\* Tokens and requests are interchangeable.
Symmetric == Permutations(Tokens) \cup Permutations(Requests)
=============================================================================
