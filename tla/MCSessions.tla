----------------------------- MODULE MCSessions -----------------------------
EXTENDS Sessions, TLC

(* Handlers and replicas are interchangeable. *)
Slots == Permutations(Requests) \cup Permutations(Pods)
=============================================================================
