---------------------------- MODULE SessionLock ----------------------------
(***************************************************************************)
(* The crash-safe lease lock of scripts/lib/session-lock.js, one file      *)
(* system operation per step.                                              *)
(*                                                                         *)
(* A lock is a directory entry whose bytes are a lease.  acquireAt creates *)
(* it with link(2); when it exists and its holder is dead, the caller      *)
(* first acquires a takeover guard, a second lease lock whose name is the  *)
(* lock's own path and a hash of the stale bytes, and only under the guard *)
(* removes the stale entry.  A guard is taken over the same way, through   *)
(* a guard of the guard, MaxTakeoverDepth deep.                            *)
(*                                                                         *)
(* A path is the sequence of stale contents its name was built from: the   *)
(* lock itself is << >> and the guard of path P over bytes raw is          *)
(* Append(P, raw) (the sha256 prefix is taken to be injective).            *)
(***************************************************************************)
EXTENDS Naturals, Sequences

CONSTANTS
    Proc,               \* pids of the processes that use the lock
    MaxAttempts,        \* MAX_ATTEMPTS
    MaxTakeoverDepth,   \* MAX_TAKEOVER_DEPTH
    IdentityKnown,      \* can the platform name a process identity?
    MaxCalls,           \* bound: acquireLock calls of one process
    MaxCrashes,         \* bound: crashes
    MaxRestarts,        \* bound: pids given to a new process
    Legacy,             \* bytes of a lease written before leases had a pid
    Corrupt,            \* bytes that name no holder
    None                \* no bytes (ENOENT), or no lease yet

Lease == [pid : Proc, inc : Nat, leaseId : Nat]
Content == Lease \cup {Legacy, Corrupt}

ASSUME BoundsAssumption ==
    /\ MaxAttempts \in Nat \ {0}
    /\ MaxTakeoverDepth \in Nat
    /\ MaxCalls \in Nat
    /\ MaxCrashes \in Nat
    /\ MaxRestarts \in Nat
    /\ IdentityKnown \in BOOLEAN

ASSUME ContentAssumption ==
    /\ Legacy \notin Lease
    /\ Corrupt \notin Lease
    /\ None \notin Lease
    /\ Legacy # Corrupt
    /\ None \notin {Legacy, Corrupt}

Depth == 0..MaxTakeoverDepth

VARIABLES
    dir,        \* the lock files: a set of [path, raw] directory entries
    alive,      \* alive[p]: pid p names a running process
    inc,        \* inc[p]: which process pid p names (its start time)
    legacyOld,  \* is the pid-less lease older than PID_LESS_LOCK_TIMEOUT_MS?
    pc,         \* the next step of each process
    depth,      \* how many guards deep its acquireAt is
    frame,      \* frame[p][d]: the locals of its acquireAt at depth d
    result,     \* what its last acquireLock returned
    issued,     \* leaseIds it has drawn
    calls,      \* acquireLock calls the process has made
    crashes,    \* crashes so far
    restarts    \* pids reused so far

table == <<alive, inc, legacyOld, crashes, restarts>>
vars == <<dir, table, pc, depth, frame, result, issued, calls>>

---------------------------------------------------------------------------
(* Values. LOCKED_UNKNOWN is LOCKED with identityKnown = false.            *)

Outcomes == {"LOCKED", "LOCKED_UNKNOWN", "STUCK", "CORRUPT"}

Frame == [lease : Lease \cup {None}, raw : Content \cup {None},
          attempt : 0..MaxAttempts, guardFailure : Outcomes \cup {"none"}]

NoFrame == [lease |-> None, raw |-> None, attempt |-> 0, guardFailure |-> "none"]

\* Steps at which the process owns the lock at its current depth.
Owning == {"held", "check", "rm", "releaseRead", "releaseRm"}
Acquiring == {"claim", "read", "judge", "locked", "remaining"}

TypeOK ==
    /\ dir \in SUBSET [path : Seq(Content), raw : Content]
    /\ alive \in [Proc -> BOOLEAN]
    /\ inc \in [Proc -> Nat]
    /\ legacyOld \in BOOLEAN
    /\ pc \in [Proc -> {"idle"} \cup Owning \cup Acquiring]
    /\ depth \in [Proc -> Depth]
    /\ frame \in [Proc -> [Depth -> Frame]]
    /\ result \in [Proc -> Outcomes \cup {"none", "success"}]
    /\ issued \in [Proc -> Nat]
    /\ calls \in [Proc -> Nat]
    /\ crashes \in Nat
    /\ restarts \in Nat

---------------------------------------------------------------------------
(* What a step reads.                                                      *)

\* Line 91: the guard chain's names, one more stale content per depth.
LockPath(locals, d) == [i \in 1..d |-> locals[i - 1].raw]
Path(p) == LockPath(frame[p], depth[p])
Top(p) == frame[p][depth[p]]

\* The entry its lease is, once linked.
Own(p) == [path |-> Path(p), raw |-> Top(p).lease]

\* The stale entry a guard's owner means to remove.
Below(p) == [path |-> LockPath(frame[p], depth[p] - 1),
             raw |-> frame[p][depth[p] - 1].raw]

Absent(path) == \A e \in dir : e.path # path
Removed(path) == {e \in dir : e.path # path}

\* isProcessAlive(pid) && pidStillOwned(...): with no identity on either side
\* a recycled pid cannot be told from the holder.
Running(lease) == alive[lease.pid] /\ (IdentityKnown => inc[lease.pid] = lease.inc)

\* Mutant of HolderState: a pid-less lease is stale at any age.
Bug_AgeIgnored(raw) ==
    IF raw \in {Corrupt, None} THEN "corrupt"
    ELSE IF raw # Legacy /\ Running(raw) THEN "live" ELSE "stale"

HolderState(raw) ==
    IF raw \in {Corrupt, None} THEN "corrupt"
    ELSE IF raw = Legacy THEN (IF legacyOld THEN "stale" ELSE "live")
    ELSE IF Running(raw) THEN "live" ELSE "stale"

\* locked(): processIdentity(holder.pid) !== null.
LockedOutcome(raw) ==
    IF raw \notin {Legacy, Corrupt, None} /\ IdentityKnown /\ alive[raw.pid]
    THEN "LOCKED" ELSE "LOCKED_UNKNOWN"

---------------------------------------------------------------------------
(* Calls and returns of acquireAt.                                         *)

NewFrame(p) ==
    [NoFrame EXCEPT !.lease = [pid |-> p, inc |-> inc[p], leaseId |-> issued[p] + 1]]

\* acquireAt at depth d starts with a fresh lease.
Enter(p, d) ==
    /\ issued' = [issued EXCEPT ![p] = @ + 1]
    /\ depth' = [depth EXCEPT ![p] = d]
    /\ frame' = [frame EXCEPT ![p][d] = NewFrame(p)]
    /\ pc' = [pc EXCEPT ![p] = "claim"]

NextAttempt(locals, failure) ==
    [lease |-> locals.lease, raw |-> locals.raw,
     attempt |-> locals.attempt + 1, guardFailure |-> failure]

\* A guard's acquireAt or releaseAt is over: removeStale returns failure to the
\* caller's loop, which assigns guardFailure and starts its next attempt.
Resume(p, failure) ==
    LET d == depth[p] IN
    /\ depth' = [depth EXCEPT ![p] = d - 1]
    /\ frame' = [frame EXCEPT ![p][d] = NoFrame,
                              ![p][d - 1] = NextAttempt(frame[p][d - 1], failure)]
    /\ pc' = [pc EXCEPT ![p] = "claim"]

\* acquireAt refuses.
Refuse(p, outcome) ==
    \/ /\ depth[p] = 0
       /\ result' = [result EXCEPT ![p] = outcome]
       /\ pc' = [pc EXCEPT ![p] = "idle"]
       /\ frame' = [frame EXCEPT ![p][0] = NoFrame]
       /\ UNCHANGED depth
    \/ /\ depth[p] > 0
       /\ Resume(p, outcome)
       /\ UNCHANGED result

---------------------------------------------------------------------------
(* Steps of one process.                                                   *)

At(p, step) == alive[p] /\ pc[p] = step

\* acquireLock / acquirePathLock.
Acquire(p) ==
    /\ At(p, "idle")
    /\ calls[p] < MaxCalls
    /\ calls' = [calls EXCEPT ![p] = @ + 1]
    /\ result' = [result EXCEPT ![p] = "none"]
    /\ Enter(p, 0)
    /\ UNCHANGED <<dir, table>>

\* Mutant of ClaimWins: an existing entry does not fail the claim.
Bug_ClaimOverwrites(p) ==
    /\ At(p, "claim")
    /\ Top(p).attempt < MaxAttempts
    /\ dir' = Removed(Path(p)) \cup {Own(p)}
    /\ pc' = [pc EXCEPT ![p] = IF depth[p] = 0 THEN "held" ELSE "check"]
    /\ result' = IF depth[p] = 0 THEN [result EXCEPT ![p] = "success"] ELSE result
    /\ UNCHANGED <<table, depth, frame, issued, calls>>

\* claim(): link(2) creates the entry or fails with EEXIST.
ClaimWins(p) ==
    /\ At(p, "claim")
    /\ Top(p).attempt < MaxAttempts
    /\ Absent(Path(p))
    /\ dir' = dir \cup {Own(p)}
    /\ pc' = [pc EXCEPT ![p] = IF depth[p] = 0 THEN "held" ELSE "check"]
    /\ result' = IF depth[p] = 0 THEN [result EXCEPT ![p] = "success"] ELSE result
    /\ UNCHANGED <<table, depth, frame, issued, calls>>

ClaimExists(p) ==
    /\ At(p, "claim")
    /\ Top(p).attempt < MaxAttempts
    /\ ~Absent(Path(p))
    /\ pc' = [pc EXCEPT ![p] = "read"]
    /\ UNCHANGED <<dir, table, depth, frame, result, issued, calls>>

\* readRaw(lockPath) === null: next attempt, guardFailure kept as it is.
ReadAbsent(p) ==
    /\ At(p, "read")
    /\ Absent(Path(p))
    /\ frame' = [frame EXCEPT ![p][depth[p]].attempt = @ + 1]
    /\ pc' = [pc EXCEPT ![p] = "claim"]
    /\ UNCHANGED <<dir, table, depth, result, issued, calls>>

ReadHolder(p) ==
    /\ At(p, "read")
    /\ \E e \in dir : /\ e.path = Path(p)
                      /\ frame' = [frame EXCEPT ![p][depth[p]].raw = e.raw]
    /\ pc' = [pc EXCEPT ![p] = "judge"]
    /\ UNCHANGED <<dir, table, depth, result, issued, calls>>

JudgeCorrupt(p) ==
    /\ At(p, "judge")
    /\ HolderState(Top(p).raw) = "corrupt"
    /\ Refuse(p, "CORRUPT")
    /\ UNCHANGED <<dir, table, issued, calls>>

\* Mutant of JudgeLive: wait for the holder instead of refusing.
Bug_WaitForHolder(p) ==
    /\ At(p, "judge")
    /\ HolderState(Top(p).raw) = "live"
    /\ pc' = [pc EXCEPT ![p] = "claim"]
    /\ UNCHANGED <<dir, table, depth, frame, result, issued, calls>>

JudgeLive(p) ==
    /\ At(p, "judge")
    /\ HolderState(Top(p).raw) = "live"
    /\ pc' = [pc EXCEPT ![p] = "locked"]
    /\ UNCHANGED <<dir, table, depth, frame, result, issued, calls>>

\* Mutant of JudgeStuck: off by one, a guard's guard is never tried.
Bug_DepthOffByOne(p) ==
    /\ At(p, "judge")
    /\ HolderState(Top(p).raw) = "stale"
    /\ depth[p] >= MaxTakeoverDepth - 1
    /\ Refuse(p, "STUCK")
    /\ UNCHANGED <<dir, table, issued, calls>>

JudgeStuck(p) ==
    /\ At(p, "judge")
    /\ HolderState(Top(p).raw) = "stale"
    /\ depth[p] >= MaxTakeoverDepth
    /\ Refuse(p, "STUCK")
    /\ UNCHANGED <<dir, table, issued, calls>>

\* Mutant of TakeGuard: the depth is not bounded.
Bug_UnboundedDepth(p) ==
    /\ At(p, "judge")
    /\ HolderState(Top(p).raw) = "stale"
    /\ Enter(p, depth[p] + 1)
    /\ UNCHANGED <<dir, table, result, calls>>

\* removeStale() begins: acquireAt(guardPath, depth + 1).
TakeGuard(p) ==
    /\ At(p, "judge")
    /\ HolderState(Top(p).raw) = "stale"
    /\ depth[p] < MaxTakeoverDepth
    /\ Enter(p, depth[p] + 1)
    /\ UNCHANGED <<dir, table, result, calls>>

\* return locked(holder): the identity is looked up once more.
Locked(p) ==
    /\ At(p, "locked")
    /\ Refuse(p, LockedOutcome(Top(p).raw))
    /\ UNCHANGED <<dir, table, issued, calls>>

\* The attempts ran out and the last guard was refused.
ExhaustedByGuard(p) ==
    /\ At(p, "claim")
    /\ Top(p).attempt = MaxAttempts
    /\ \/ Top(p).guardFailure \in {"STUCK", "LOCKED_UNKNOWN"} /\ Refuse(p, "STUCK")
       \/ Top(p).guardFailure = "LOCKED" /\ Refuse(p, "LOCKED")
    /\ UNCHANGED <<dir, table, issued, calls>>

\* The attempts ran out with no guard refusal to report: read the lock again.
Exhausted(p) ==
    /\ At(p, "claim")
    /\ Top(p).attempt = MaxAttempts
    /\ Top(p).guardFailure \in {"none", "CORRUPT"}
    /\ \/ /\ Absent(Path(p))
          /\ frame' = [frame EXCEPT ![p][depth[p]].raw = None]
       \/ \E e \in dir : /\ e.path = Path(p)
                         /\ frame' = [frame EXCEPT ![p][depth[p]].raw = e.raw]
    /\ pc' = [pc EXCEPT ![p] = "remaining"]
    /\ UNCHANGED <<dir, table, depth, result, issued, calls>>

RemainingStale(p) ==
    /\ At(p, "remaining")
    /\ HolderState(Top(p).raw) = "stale"
    /\ Refuse(p, "STUCK")
    /\ UNCHANGED <<dir, table, issued, calls>>

RemainingOther(p) ==
    /\ At(p, "remaining")
    /\ HolderState(Top(p).raw) # "stale"
    /\ pc' = [pc EXCEPT ![p] = "locked"]
    /\ UNCHANGED <<dir, table, depth, frame, result, issued, calls>>

\* Mutant of Check: the stale bytes are not compared again under the guard.
Bug_NoRecheck(p) ==
    /\ At(p, "check")
    /\ pc' = [pc EXCEPT ![p] = "rm"]
    /\ UNCHANGED <<dir, table, depth, frame, result, issued, calls>>

\* Mutant of Check: when the bytes changed it returns without the finally.
Bug_GuardKept(p) ==
    /\ At(p, "check")
    /\ IF Below(p) \in dir
       THEN pc' = [pc EXCEPT ![p] = "rm"] /\ UNCHANGED <<depth, frame>>
       ELSE Resume(p, "none")
    /\ UNCHANGED <<dir, table, result, issued, calls>>

\* Under the guard: readRaw(lockPath) === raw?
Check(p) ==
    /\ At(p, "check")
    /\ pc' = [pc EXCEPT ![p] = IF Below(p) \in dir THEN "rm" ELSE "releaseRead"]
    /\ UNCHANGED <<dir, table, depth, frame, result, issued, calls>>

\* fs.rmSync(lockPath): whatever is there now.
Rm(p) ==
    /\ At(p, "rm")
    /\ dir' = Removed(LockPath(frame[p], depth[p] - 1))
    /\ pc' = [pc EXCEPT ![p] = "releaseRead"]
    /\ UNCHANGED <<table, depth, frame, result, issued, calls>>

\* releaseLock / releasePathLock.
Release(p) ==
    /\ At(p, "held")
    /\ pc' = [pc EXCEPT ![p] = "releaseRead"]
    /\ UNCHANGED <<dir, table, depth, frame, result, issued, calls>>

\* releaseAt is over: the lock is given up, or removeStale returns null.
Released(p) ==
    \/ /\ depth[p] = 0
       /\ pc' = [pc EXCEPT ![p] = "idle"]
       /\ frame' = [frame EXCEPT ![p][0] = NoFrame]
       /\ UNCHANGED depth
    \/ depth[p] > 0 /\ Resume(p, "none")

ReleaseRead(p) ==
    /\ At(p, "releaseRead")
    /\ IF Own(p) \in dir
       THEN pc' = [pc EXCEPT ![p] = "releaseRm"] /\ UNCHANGED <<depth, frame>>
       ELSE Released(p)
    /\ UNCHANGED <<dir, table, result, issued, calls>>

ReleaseRm(p) ==
    /\ At(p, "releaseRm")
    /\ dir' = Removed(Path(p))
    /\ Released(p)
    /\ UNCHANGED <<table, result, issued, calls>>

---------------------------------------------------------------------------
(* The environment.                                                        *)

Crash(p) ==
    /\ alive[p]
    /\ crashes < MaxCrashes
    /\ crashes' = crashes + 1
    /\ alive' = [alive EXCEPT ![p] = FALSE]
    /\ pc' = [pc EXCEPT ![p] = "idle"]
    /\ depth' = [depth EXCEPT ![p] = 0]
    /\ frame' = [frame EXCEPT ![p] = [d \in Depth |-> NoFrame]]
    /\ result' = [result EXCEPT ![p] = "none"]
    /\ UNCHANGED <<dir, inc, legacyOld, restarts, issued, calls>>

\* The pid is given to a new process.
Restart(p) ==
    /\ ~alive[p]
    /\ restarts < MaxRestarts
    /\ restarts' = restarts + 1
    /\ alive' = [alive EXCEPT ![p] = TRUE]
    /\ inc' = [inc EXCEPT ![p] = @ + 1]
    /\ calls' = [calls EXCEPT ![p] = 0]
    /\ UNCHANGED <<dir, legacyOld, crashes, pc, depth, frame, result, issued>>

LegacyExpires ==
    /\ ~legacyOld
    /\ legacyOld' = TRUE
    /\ UNCHANGED <<dir, alive, inc, crashes, restarts, pc, depth, frame, result, issued, calls>>

---------------------------------------------------------------------------

\* The lock is free, or an earlier version of the program left it behind.
Init ==
    /\ dir \in {{}, {[path |-> << >>, raw |-> Legacy]}, {[path |-> << >>, raw |-> Corrupt]}}
    /\ alive = [p \in Proc |-> TRUE]
    /\ inc = [p \in Proc |-> 0]
    /\ legacyOld = FALSE
    /\ pc = [p \in Proc |-> "idle"]
    /\ depth = [p \in Proc |-> 0]
    /\ frame = [p \in Proc |-> [d \in Depth |-> NoFrame]]
    /\ result = [p \in Proc |-> "none"]
    /\ issued = [p \in Proc |-> 0]
    /\ calls = [p \in Proc |-> 0]
    /\ crashes = 0
    /\ restarts = 0

\* What a process does once it has called acquireLock, until that returns.
Step(p) ==
    \/ ClaimWins(p) \/ ClaimExists(p) \/ ReadAbsent(p) \/ ReadHolder(p)
    \/ JudgeCorrupt(p) \/ JudgeLive(p) \/ JudgeStuck(p) \/ TakeGuard(p)
    \/ Locked(p) \/ ExhaustedByGuard(p) \/ Exhausted(p)
    \/ RemainingStale(p) \/ RemainingOther(p)
    \/ Check(p) \/ Rm(p) \/ ReleaseRead(p) \/ ReleaseRm(p)

Next ==
    \/ \E p \in Proc : Acquire(p) \/ Step(p) \/ Release(p) \/ Crash(p) \/ Restart(p)
    \/ LegacyExpires

Spec == Init /\ [][Next]_vars

\* A running process keeps executing: its steps are synchronous calls that
\* cannot block.  Nobody is obliged to call, to crash or to be restarted.
Fairness == \A p \in Proc : WF_vars(Step(p)) /\ WF_vars(Release(p))

FairSpec == Spec /\ Fairness

---------------------------------------------------------------------------
(* Properties.                                                             *)

\* The process that drew this lease is gone, whatever its pid names now.
Dead(lease) == ~alive[lease.pid] \/ inc[lease.pid] # lease.inc

IsLease(raw) == raw \notin {Legacy, Corrupt, None}

\* At most one running process owns the lock, and at most one owns any given
\* takeover guard, from the link(2) that wins it to the rm that gives it up,
\* however many takers raced for a crashed holder's lease.
MutualExclusion ==
    \A p, q \in Proc :
        /\ pc[p] \in Owning
        /\ pc[q] \in Owning
        /\ Path(p) = Path(q)
        => p = q

\* The lease of a running process lies in the directory exactly as long as that
\* process owns the lock it names: no acquireAt or removeStale path, early return
\* included, leaves a lease behind that nobody will release and that every later
\* caller reads as live.
NoLeakedLease ==
    \A e \in dir :
        IsLease(e.raw) /\ ~Dead(e.raw) =>
            LET p == e.raw.pid IN
            pc[p] \in Owning /\ e.path = Path(p) /\ e.raw = Top(p).lease

\* A lock file disappears only because its owner releases it or because its
\* holder is gone: the slow taker's rmSync never deletes the lease a faster taker
\* wrote, a pid-less lease still inside its timeout stays, and a lock that names
\* no holder is left for the operator.
OnlyStaleOrOwnRemoved ==
    [][\A e \in dir \ dir' :
          \/ e.raw = Legacy /\ legacyOld
          \/ IsLease(e.raw) /\ Dead(e.raw)
          \/ IsLease(e.raw) /\ pc[e.raw.pid] = "releaseRm" /\ e.path = Path(e.raw.pid)]_vars

\* Every acquireLock returns: the retry loop and the recursion through guards
\* are bounded whatever the other processes do.
CallReturns ==
    \A p \in Proc : pc[p] \in Acquiring ~> pc[p] \in {"held", "idle"}

\* The whole guard chain was left behind by crashed takers.
Unreclaimable ==
    \E e \in dir :
        /\ Len(e.path) = MaxTakeoverDepth
        /\ HolderState(e.raw) = "stale"
        /\ \A d \in 1..MaxTakeoverDepth :
              [path |-> SubSeq(e.path, 1, d - 1), raw |-> e.path[d]] \in dir

Alone(p) == \A q \in Proc \ {p} : ~alive[q] \/ pc[q] = "idle"

\* A caller nobody interferes with gets the lock, however many leases and guards
\* earlier crashes left, unless they left the whole chain of guards or the lock
\* itself names no process that could have crashed.
LoneCallerReclaims ==
    \A p \in Proc :
        (At(p, "claim") /\ depth[p] = 0 /\ Top(p).attempt = 0 /\ Alone(p))
        ~> \/ pc[p] = "held"
           \/ ~alive[p] \/ ~Alone(p)
           \/ Unreclaimable
           \/ \E e \in dir : /\ e.path = << >> /\ ~IsLease(e.raw)
                             /\ HolderState(e.raw) # "stale"

\* The lock its callers see: who owns the file at the root, and whether that
\* file is a leftover.
Holder == {p \in Proc : pc[p] \in Owning /\ depth[p] = 0}
Orphan == \E e \in dir : e.path = << >> /\ (~IsLease(e.raw) \/ Dead(e.raw))

Abstract == INSTANCE PathLock WITH holder <- Holder, orphan <- Orphan

\* The lease files implement the lock the governed stores rely on: ownership
\* passes only through a free lock, and a crashed holder's lock is reclaimed
\* before anybody acquires it.
ImplementsPathLock == Abstract!Spec

---------------------------------------------------------------------------
(* The inductive invariant behind MutualExclusion.                         *)

\* These bytes were left by somebody who is gone for good.
Gone(raw) ==
    \/ raw = Legacy /\ legacyOld
    \/ raw \in Lease /\ Dead(raw)

\* The locals of a running acquireAt: its own leases name the running process,
\* and every level that waits for a guard waits for one over stale bytes.
FrameInv(p) ==
    /\ pc[p] = "idle" => depth[p] = 0
    /\ pc[p] # "idle" =>
        /\ alive[p]
        /\ \A d \in 0..depth[p] :
              /\ frame[p][d].lease \in Lease
              /\ frame[p][d].lease.pid = p
              /\ frame[p][d].lease.inc = inc[p]
    /\ \A d \in 0..(depth[p] - 1) :
          /\ frame[p][d].raw \in Content
          /\ Gone(frame[p][d].raw)
          /\ frame[p][d].attempt < MaxAttempts
    /\ \A d \in Depth : frame[p][d].raw \in Lease =>
          frame[p][d].raw.inc <= inc[frame[p][d].raw.pid]
    /\ pc[p] \in {"read", "judge"} => Top(p).attempt < MaxAttempts
    /\ pc[p] = "judge" => Top(p).raw \in Content
    /\ pc[p] \in {"check", "rm"} => depth[p] > 0

\* An owner's lease is in the directory; what it is about to remove is stale and
\* has not changed since it looked.
OwnerInv(p) ==
    /\ pc[p] \in Owning => Own(p) \in dir
    /\ pc[p] = "rm" => Below(p) \in dir

DirInv ==
    /\ \A e, f \in dir : e.path = f.path => e = f
    /\ \A e \in dir : e.raw \in Lease => e.raw.inc <= inc[e.raw.pid]

IInv ==
    /\ TypeOK
    /\ DirInv
    /\ \A p \in Proc : FrameInv(p) /\ OwnerInv(p)
    /\ NoLeakedLease

=============================================================================
