----------------------------- MODULE MCHistory ------------------------------
(* History on small sets of model values. *)
EXTENDS History, TLC

Interchangeable ==
  Permutations(User) \cup Permutations(Id) \cup Permutations(Handler) \cup Permutations(Poller)

=============================================================================
