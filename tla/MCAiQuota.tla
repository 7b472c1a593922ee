----------------------------- MODULE MCAiQuota -----------------------------
(* Small instances of the AI quota for TLC.                                *)
EXTENDS AiQuota, TLC

CONSTANTS c1, c2, c3

\* Clients are interchangeable.
Symmetric == Permutations({c1, c2, c3})
=============================================================================
