--------------------------- MODULE MCAuditChain ---------------------------
(* Instances of AuditChain for TLC.                                        *)
EXTENDS AuditChain, TLC

CONSTANTS d, n, k1, x1, x2, x3

\* Requests are interchangeable slots.
Slots == Permutations(Requests)
=============================================================================
