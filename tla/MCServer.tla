------------------------------ MODULE MCServer ------------------------------
(* Server on small sets of model values. *)
EXTENDS Server, TLC

Interchangeable ==
  Permutations(Worker) \cup Permutations(Device) \cup Permutations(Account)
    \cup Permutations(Code)

=============================================================================
