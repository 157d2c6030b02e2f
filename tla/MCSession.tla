----------------------------- MODULE MCSession ------------------------------
(* Session on small sets of model values. *)
EXTENDS Session, TLC

Interchangeable == Permutations(Device) \cup Permutations(Task) \cup Permutations(Store)

=============================================================================
