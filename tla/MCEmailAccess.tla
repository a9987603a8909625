--------------------------- MODULE MCEmailAccess ---------------------------
(* Services, states, grant ids and requests are interchangeable. *)
EXTENDS EmailAccess, TLC
Symmetry == Permutations(Services) \cup Permutations(States)
              \cup Permutations(GrantIds) \cup Permutations(Requests)
=============================================================================
