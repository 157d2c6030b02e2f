------------------------------ MODULE MCGroups ------------------------------
(* Groups on small sets of model values. *)
EXTENDS Groups, TLC

(* Accounts are interchangeable as far as the instance lets them do the same *)
Interchangeable ==
  Permutations(UserTask) \cup Permutations(PollTask)
    \cup {p \in Permutations(Account) :
            {p[a] : a \in Creator} = Creator /\ {p[a] : a \in Remover} = Remover}

=============================================================================
