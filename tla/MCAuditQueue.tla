---------------------------- MODULE MCAuditQueue ----------------------------
(***************************************************************************)
(* Small instances of AuditQueue for TLC.  Text a is written twice, so two *)
(* WAL lines with equal bytes exist at once; r is refused by the sink; p   *)
(* is answered 403 forever.                                                *)
(***************************************************************************)
EXTENDS AuditQueue, TLC

CONSTANTS a, r, p

TextsAR  == {a, r}
TextsARP == {a, r, p}
SetR     == {r}
SetP     == {p}
QuotaAR  == (a :> 2) @@ (r :> 1)
QuotaARP == (a :> 1) @@ (r :> 1) @@ (p :> 1)

=============================================================================
