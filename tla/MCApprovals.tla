---------------------------- MODULE MCApprovals ----------------------------
(* Approvals and ArtifactAdmission on small instances.                     *)
EXTENDS Approvals

Symmetry == Permutations(Proc) \cup Permutations(Body) \cup Permutations(Approval)

\* Admissions and readers, one crash or failing append, one lock that grows old.
Store == [operations |-> {"admit", "show"}, keys |-> Key, revocable |-> FALSE,
          calls |-> 3, faults |-> 1, expiries |-> 1]

\* Consumptions, retried after a crash.
Authorized == [operations |-> {"consume"}, keys |-> {}, revocable |-> TRUE,
               calls |-> 3, faults |-> 1, expiries |-> 1]

\* A consumption beside an admission that needs no approval.
Contended == [Authorized EXCEPT !.operations = {"admit", "consume"}, !.calls = 2]

MCInstances == {Store, Authorized, Contended}

=============================================================================
