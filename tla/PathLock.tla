------------------------------ MODULE PathLock ------------------------------
(***************************************************************************)
(* What acquirePathLock and releasePathLock (scripts/lib/session-lock.js)  *)
(* promise the stores that use them: one holder at a time; a holder that   *)
(* crashes leaves an orphan that keeps everybody out until some later      *)
(* caller reclaims it, and only then can the lock be acquired again.       *)
(***************************************************************************)
CONSTANT Proc

VARIABLES
    holder,     \* the processes that hold the lock: none or one
    orphan      \* was a lock left behind that no running process holds?

vars == <<holder, orphan>>

TypeOK == holder \in SUBSET Proc /\ orphan \in BOOLEAN

Init == holder = {} /\ orphan \in BOOLEAN

Acquire(p) == holder = {} /\ ~orphan /\ holder' = {p} /\ UNCHANGED orphan

Release(p) == holder = {p} /\ holder' = {} /\ UNCHANGED orphan

Crash(p) == holder = {p} /\ holder' = {} /\ orphan' = TRUE

Reclaim == orphan /\ orphan' = FALSE /\ UNCHANGED holder

Next == (\E p \in Proc : Acquire(p) \/ Release(p) \/ Crash(p)) \/ Reclaim

Spec == Init /\ [][Next]_vars

=============================================================================
