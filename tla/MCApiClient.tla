----------------------------- MODULE MCApiClient -----------------------------
(* ApiClient with four callers.                                            *)
EXTENDS ApiClient

CONSTANTS c1, c2, c3, c4

MCCallers == {c1, c2, c3, c4}
=============================================================================
