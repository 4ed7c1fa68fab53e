------------------------- MODULE MCExecutionAdapter -------------------------
(* ExecutionAdapter on small instances.                                    *)
EXTENDS ExecutionAdapter, TLC

Symmetry == Permutations(Proc)

\* One caller, from before prepareExecution, without faults.
Alone == [solo |-> TRUE, worktree |-> TRUE, prepared |-> FALSE, calls |-> 6, faults |-> 0,
          operations |-> {"prepare", "evaluate", "run", "release"}]

\* Two callers, one call each, in a scratch workspace.
Racing == [solo |-> FALSE, worktree |-> FALSE, prepared |-> TRUE, calls |-> 1, faults |-> 1,
           operations |-> {"evaluate", "run", "release", "checkpoint"}]

Finishing == [Racing EXCEPT !.calls = 2, !.faults = 0, !.operations = {"evaluate"}]

MCInstances == {Alone, Racing}
MCFinishing == {Finishing}

=============================================================================
