------------------------------ MODULE MCAccounts -------------------------------
(* Two requests at a time over two names and two emails. *)
EXTENDS Accounts, TLC

CONSTANTS r1, r2, n1, n2, e1, e2

(* Slots, names and emails are interchangeable. *)
Symmetry ==
  Permutations({r1, r2}) \cup Permutations({n1, n2}) \cup Permutations({e1, e2})

==============================================================================
