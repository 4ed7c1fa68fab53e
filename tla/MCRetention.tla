---------------------------- MODULE MCRetention ----------------------------
(* Retention on small instances.                                           *)
EXTENDS Retention, TLC

Symmetry == Permutations(Proc) \cup Permutations(Record) \cup Permutations(Hold)
            \cup Permutations(Candidate) \cup Permutations(Approval)
            \cup Permutations(Transaction)

\* One review while the ledgers it rests on change.
Review == [operations |-> {"classify", "hold", "register", "revoke", "prepare", "authorize"},
           classified |-> Record, holders |-> {CHOOSE o \in Holder : TRUE},
           writes |-> 3, calls |-> 2, faults |-> 0]

\* Two candidates, maybe of different content, two authorizations and a crash.
Authorizations == [Review EXCEPT !.operations = {"register", "revoke", "prepare", "authorize"},
                                 !.writes = 1, !.calls = 4, !.faults = 1]

\* Two transactions that name one record, and their readers.
Deletion == [Authorizations EXCEPT !.operations = {"prepare", "authorize", "execute", "read"},
                                   !.writes = 0, !.calls = 7]

\* A Holder that registers while a candidate is authorized, executed and settled.
Coverage == [Deletion EXCEPT !.operations = {"register", "prepare", "authorize", "execute", "read"},
                             !.writes = 1, !.calls = 5, !.faults = 0]

MCInstances == {Review, Authorizations, Deletion, Coverage}

=============================================================================
