-------------------------- MODULE SessionLockProof --------------------------
(***************************************************************************)
(* Proofs about SessionLock, for any set of processes and any bounds, and  *)
(* about SessionStages, the session whose commands hold that lock, for any *)
(* route, its gates, and any bounds.                                       *)
(***************************************************************************)
EXTENDS SessionLock, SessionStages, FiniteSetTheorems, SequenceTheorems, TLAPS

---------------------------------------------------------------------------
(* Lock paths.                                                             *)

\* A path of stale contents is a sequence of contents.
LEMMA PathType ==
    ASSUME NEW locals, NEW d \in Nat,
           \A i \in 0..(d - 1) : locals[i].raw \in Content
    PROVE  LockPath(locals, d) \in Seq(Content)
<1>1. \A i \in 1..d : i - 1 \in 0..(d - 1)
  OBVIOUS
<1>. QED BY <1>1 DEF LockPath

\* A path depends only on the stale contents below it.
LEMMA PathSame ==
    ASSUME NEW f, NEW g, NEW d \in Nat,
           \A i \in 0..(d - 1) : f[i].raw = g[i].raw
    PROVE  LockPath(f, d) = LockPath(g, d)
<1>1. \A i \in 1..d : i - 1 \in 0..(d - 1)
  OBVIOUS
<1>. QED BY <1>1 DEF LockPath

\* Takers that saw the same bytes at the same path contend for one guard.
LEMMA GuardPathSame ==
    ASSUME NEW f, NEW g, NEW d \in Nat, NEW e \in Nat,
           LockPath(f, d) = LockPath(g, e),
           f[d].raw = g[e].raw
    PROVE  LockPath(f, d + 1) = LockPath(g, e + 1)
<1>1. DOMAIN LockPath(f, d) = 1..d /\ DOMAIN LockPath(g, e) = 1..e
  BY DEF LockPath
<1>2. d = e
  BY <1>1
<1>3. \A i \in 1..d : f[i - 1].raw = g[i - 1].raw
  <2>. TAKE i \in 1..d
  <2>1. LockPath(f, d)[i] = f[i - 1].raw
    BY DEF LockPath
  <2>2. LockPath(g, d)[i] = g[i - 1].raw
    BY DEF LockPath
  <2>. QED BY <2>1, <2>2, <1>2
<1>4. \A i \in 1..(d + 1) : f[i - 1].raw = g[i - 1].raw
  BY <1>2, <1>3
<1>. QED BY <1>2, <1>4 DEF LockPath

---------------------------------------------------------------------------
(* A step that touches neither the directory nor the process table.        *)

\* Nothing about the other processes changes.
Others(p) ==
    \A q \in Proc \ {p} :
        frame'[q] = frame[q] /\ depth'[q] = depth[q] /\ pc'[q] = pc[q]

\* It is enough to look at the process that takes it.
LEMMA LocalStep ==
    ASSUME IInv, NEW p \in Proc, UNCHANGED <<dir, alive, inc, legacyOld>>,
           Others(p), TypeOK', FrameInv(p)', OwnerInv(p)',
           pc[p] \in Owning => pc'[p] \in Owning /\ Own(p)' = Own(p)
    PROVE  IInv'
<1>1. DirInv'
  BY DEF IInv, DirInv
<1>2. ASSUME NEW q \in Proc, q # p
      PROVE  FrameInv(q)' /\ OwnerInv(q)'
  <2>1. frame'[q] = frame[q] /\ depth'[q] = depth[q] /\ pc'[q] = pc[q]
    BY <1>2 DEF Others
  <2>2. FrameInv(q) /\ OwnerInv(q)
    BY DEF IInv
  <2>3. FrameInv(q)'
    BY <2>1, <2>2 DEF FrameInv, Gone, Dead, Top
  <2>4. OwnerInv(q)'
    BY <2>1, <2>2 DEF OwnerInv, Own, Below, Path, Top
  <2>. QED BY <2>3, <2>4
<1>3. NoLeakedLease'
  <2>. SUFFICES ASSUME NEW e \in dir, IsLease(e.raw), ~Dead(e.raw)
                PROVE  /\ pc'[e.raw.pid] \in Owning
                       /\ e.path = Path(e.raw.pid)'
                       /\ e.raw = Top(e.raw.pid)'.lease
    BY DEF NoLeakedLease, Dead, IsLease
  <2>1. /\ pc[e.raw.pid] \in Owning
        /\ e.path = Path(e.raw.pid)
        /\ e.raw = Top(e.raw.pid).lease
    BY DEF IInv, NoLeakedLease
  <2>2. e.raw.pid \in Proc
    BY DEF IInv, TypeOK, IsLease, Content, Lease
  <2>3. CASE e.raw.pid = p
    BY <2>1, <2>3 DEF Own
  <2>4. CASE e.raw.pid # p
    BY <2>1, <2>2, <2>4 DEF Others, Path, Top
  <2>. QED BY <2>3, <2>4
<1>. QED BY <1>1, <1>2, <1>3 DEF IInv

---------------------------------------------------------------------------
(* Entering and leaving acquireAt.                                         *)

\* What Enter, Resume, Refuse and Released leave of FrameInv and of the types.
FramesKept(p) ==
    /\ frame' \in [Proc -> [Depth -> Frame]]
    /\ depth' \in [Proc -> Depth]
    /\ pc' \in [Proc -> {"idle"} \cup Owning \cup Acquiring]
    /\ Others(p)
    /\ FrameInv(p)'
    /\ pc'[p] \in {"idle", "claim"}

LEMMA FrameValues ==
    /\ NoFrame \in Frame
    /\ NoFrame.raw = None /\ NoFrame.lease = None /\ NoFrame.attempt = 0
    /\ None \notin Lease /\ None \notin Content
<1>1. 0 \in 0..MaxAttempts
  BY BoundsAssumption
<1>. QED BY <1>1, ContentAssumption DEF NoFrame, Frame, Content

LEMMA EnterFrames ==
    ASSUME IInv, NEW p \in Proc, NEW d \in Depth, Enter(p, d), alive[p],
           UNCHANGED <<alive, inc, legacyOld>>,
           \/ pc[p] = "idle" /\ d = 0
           \/ /\ pc[p] = "judge" /\ d = depth[p] + 1
              /\ Gone(Top(p).raw)
    PROVE  FramesKept(p) /\ issued' \in [Proc -> Nat]
<1>. USE FrameValues, BoundsAssumption
<1>1. TypeOK /\ FrameInv(p)
  BY DEF IInv
<1>2. issued[p] + 1 \in Nat /\ inc[p] \in Nat
  BY <1>1 DEF TypeOK
<1>3. /\ NewFrame(p) \in Frame
      /\ NewFrame(p).lease \in Lease
      /\ NewFrame(p).lease.pid = p
      /\ NewFrame(p).lease.inc = inc[p]
      /\ NewFrame(p).raw = None
  BY <1>2 DEF NewFrame, NoFrame, Frame, Lease
<1>4. /\ frame' \in [Proc -> [Depth -> Frame]]
      /\ frame'[p][d] = NewFrame(p)
      /\ \A e \in Depth \ {d} : frame'[p][e] = frame[p][e]
      /\ \A q \in Proc \ {p} : frame'[q] = frame[q]
  BY <1>1, <1>3 DEF TypeOK, Enter
<1>5. /\ depth' \in [Proc -> Depth]
      /\ depth'[p] = d
      /\ \A q \in Proc \ {p} : depth'[q] = depth[q]
  BY <1>1 DEF TypeOK, Enter
<1>6. /\ pc' \in [Proc -> {"idle"} \cup Owning \cup Acquiring]
      /\ pc'[p] = "claim"
      /\ \A q \in Proc \ {p} : pc'[q] = pc[q]
  BY <1>1 DEF TypeOK, Enter, Acquiring
<1>7. \A e \in 0..(d - 1) : /\ e \in 0..depth[p] /\ e \in Depth \ {d}
                            /\ pc[p] = "judge"
                            /\ e = depth[p] \/ e \in 0..(depth[p] - 1)
  BY <1>1 DEF TypeOK, Depth
<1>8. \A e \in 0..d : /\ frame'[p][e].lease \in Lease
                      /\ frame'[p][e].lease.pid = p
                      /\ frame'[p][e].lease.inc = inc[p]
  <2>. TAKE e \in 0..d
  <2>1. e = d \/ e \in 0..(d - 1)
    BY DEF Depth
  <2>. QED BY <2>1, <1>1, <1>3, <1>4, <1>7 DEF FrameInv
<1>9. \A e \in 0..(d - 1) : /\ frame'[p][e].raw \in Content
                            /\ Gone(frame'[p][e].raw)
                            /\ frame'[p][e].attempt < MaxAttempts
  BY <1>1, <1>4, <1>7 DEF FrameInv, Top
<1>10. \A e \in Depth : frame'[p][e].raw \in Lease =>
                           frame'[p][e].raw.inc <= inc[frame'[p][e].raw.pid]
  BY <1>1, <1>3, <1>4 DEF FrameInv
<1>11. FrameInv(p)'
  BY <1>5, <1>6, <1>8, <1>9, <1>10 DEF FrameInv, Gone, Dead
<1>12. issued' \in [Proc -> Nat]
  BY <1>1, <1>2 DEF TypeOK, Enter
<1>. QED BY <1>4, <1>5, <1>6, <1>11, <1>12 DEF FramesKept, Others

LEMMA ResumeFrames ==
    ASSUME IInv, NEW p \in Proc, NEW failure \in Outcomes \cup {"none"},
           depth[p] > 0, pc[p] # "idle", Resume(p, failure),
           UNCHANGED <<alive, inc, legacyOld>>
    PROVE  FramesKept(p)
<1>. USE FrameValues, BoundsAssumption
<1>1. TypeOK /\ FrameInv(p)
  BY DEF IInv
<1>. DEFINE d == depth[p]
<1>2. d \in Depth /\ d - 1 \in Depth /\ d # d - 1 /\ d - 1 \in 0..(depth[p] - 1)
  BY <1>1 DEF TypeOK, Depth
<1>. DEFINE below == NextAttempt(frame[p][d - 1], failure)
<1>3. frame[p][d - 1] \in Frame /\ frame[p][d - 1].attempt < MaxAttempts
  BY <1>1, <1>2 DEF TypeOK, FrameInv
<1>4. /\ below \in Frame
      /\ below.lease = frame[p][d - 1].lease
      /\ below.raw = frame[p][d - 1].raw
  <2>1. frame[p][d - 1].attempt \in 0..MaxAttempts
    BY <1>3 DEF Frame
  <2>2. frame[p][d - 1].attempt + 1 \in 0..MaxAttempts
    BY <1>3, <2>1
  <2>3. below = [lease |-> frame[p][d - 1].lease, raw |-> frame[p][d - 1].raw,
                 attempt |-> frame[p][d - 1].attempt + 1, guardFailure |-> failure]
    BY DEF NextAttempt
  <2>. QED BY <1>3, <2>2, <2>3 DEF Frame
<1>5. frame' = [frame EXCEPT ![p][d] = NoFrame, ![p][d - 1] = below]
  BY <1>1, <1>2 DEF Resume, TypeOK
<1>. HIDE DEF below
<1>6. /\ frame' \in [Proc -> [Depth -> Frame]]
      /\ frame'[p][d] = NoFrame
      /\ frame'[p][d - 1] = below
      /\ \A e \in Depth \ {d, d - 1} : frame'[p][e] = frame[p][e]
      /\ \A q \in Proc \ {p} : frame'[q] = frame[q]
  BY <1>1, <1>2, <1>4, <1>5 DEF TypeOK
<1>7. /\ depth' \in [Proc -> Depth]
      /\ depth'[p] = d - 1
      /\ \A q \in Proc \ {p} : depth'[q] = depth[q]
  BY <1>1, <1>2 DEF TypeOK, Resume
<1>8. /\ pc' \in [Proc -> {"idle"} \cup Owning \cup Acquiring]
      /\ pc'[p] = "claim"
      /\ \A q \in Proc \ {p} : pc'[q] = pc[q]
  BY <1>1 DEF TypeOK, Resume, Acquiring
<1>9. \A e \in 0..(d - 1) : /\ frame'[p][e].lease \in Lease
                            /\ frame'[p][e].lease.pid = p
                            /\ frame'[p][e].lease.inc = inc[p]
  <2>. TAKE e \in 0..(d - 1)
  <2>1. frame'[p][e].lease = frame[p][e].lease
    BY <1>2, <1>4, <1>6 DEF Depth
  <2>2. e \in 0..depth[p]
    BY <1>2 DEF Depth
  <2>. QED BY <2>1, <2>2, <1>1 DEF FrameInv
<1>10. \A e \in 0..(d - 2) : /\ frame'[p][e].raw \in Content
                             /\ Gone(frame'[p][e].raw)
                             /\ frame'[p][e].attempt < MaxAttempts
  <2>. TAKE e \in 0..(d - 2)
  <2>1. e \in Depth \ {d, d - 1} /\ e \in 0..(depth[p] - 1)
    BY <1>2 DEF Depth
  <2>. QED BY <2>1, <1>1, <1>6 DEF FrameInv
<1>11. \A e \in Depth : frame'[p][e].raw \in Lease =>
                           frame'[p][e].raw.inc <= inc[frame'[p][e].raw.pid]
  BY <1>1, <1>2, <1>4, <1>6 DEF FrameInv
<1>12. FrameInv(p)'
  <2>1. alive[p]
    BY <1>1 DEF FrameInv
  <2>2. depth'[p] - 1 = d - 2
    BY <1>2, <1>7 DEF Depth
  <2>. HIDE DEF d
  <2>. QED BY <1>7, <1>8, <1>9, <1>10, <1>11, <2>1, <2>2 DEF FrameInv, Gone, Dead
<1>. QED BY <1>6, <1>7, <1>8, <1>12 DEF FramesKept, Others

\* acquireAt or releaseAt of the lock itself returns.
LEMMA ReturnFrames ==
    ASSUME IInv, NEW p \in Proc, depth[p] = 0,
           pc' = [pc EXCEPT ![p] = "idle"],
           frame' = [frame EXCEPT ![p][0] = NoFrame],
           UNCHANGED <<depth, alive, inc, legacyOld>>
    PROVE  FramesKept(p)
<1>. USE FrameValues, BoundsAssumption
<1>1. TypeOK /\ FrameInv(p) /\ 0 \in Depth
  BY DEF IInv, Depth
<1>2. /\ frame' \in [Proc -> [Depth -> Frame]]
      /\ frame'[p][0] = NoFrame
      /\ \A d \in Depth \ {0} : frame'[p][d] = frame[p][d]
      /\ \A q \in Proc \ {p} : frame'[q] = frame[q]
  BY <1>1 DEF TypeOK
<1>3. /\ pc' \in [Proc -> {"idle"} \cup Owning \cup Acquiring]
      /\ pc'[p] = "idle"
      /\ \A q \in Proc \ {p} : pc'[q] = pc[q]
  BY <1>1 DEF TypeOK
<1>4. FrameInv(p)'
  BY <1>1, <1>2, <1>3 DEF FrameInv, Gone, Dead
<1>. QED BY <1>1, <1>2, <1>3, <1>4 DEF FramesKept, Others, TypeOK

\* A refusal, at any depth.
LEMMA RefuseStep ==
    ASSUME IInv, NEW p \in Proc, NEW outcome \in Outcomes, Refuse(p, outcome),
           pc[p] \in Acquiring, UNCHANGED <<dir, table, issued, calls>>
    PROVE  IInv'
<1>1. TypeOK /\ FrameInv(p)
  BY DEF IInv
<1>2. UNCHANGED <<alive, inc, legacyOld>>
  BY DEF table
<1>3. pc[p] # "idle" /\ pc[p] \notin Owning
  BY DEF Acquiring, Owning
<1>4. FramesKept(p)
  <2>1. CASE depth[p] = 0
    BY <1>1, <1>2, <2>1, ReturnFrames DEF Refuse
  <2>2. CASE depth[p] > 0
    BY <1>1, <1>2, <1>3, <2>2, ResumeFrames DEF Refuse
  <2>. QED BY <1>1, <2>1, <2>2 DEF TypeOK, Depth
<1>5. result' \in [Proc -> Outcomes \cup {"none", "success"}]
  BY <1>1 DEF Refuse, TypeOK
<1>6. TypeOK'
  BY <1>1, <1>4, <1>5 DEF TypeOK, FramesKept, table
<1>7. OwnerInv(p)' /\ pc'[p] \notin Owning
  BY <1>4 DEF OwnerInv, FramesKept, Owning
<1>. QED BY <1>2, <1>3, <1>4, <1>6, <1>7, LocalStep DEF FramesKept

\* A step of p that changes its program counter only.
LEMMA PcStep ==
    ASSUME IInv, NEW p \in Proc, NEW v \in Owning \cup Acquiring,
           pc' = [pc EXCEPT ![p] = v],
           UNCHANGED <<dir, table, depth, frame, result, issued, calls>>,
           pc[p] # "idle",
           v \in {"read", "judge"} => Top(p).attempt < MaxAttempts,
           v = "judge" => Top(p).raw \in Content,
           v \in {"check", "rm"} => depth[p] > 0,
           v = "rm" => Below(p) \in dir,
           v \in Owning <=> pc[p] \in Owning
    PROVE  IInv'
<1>1. TypeOK /\ FrameInv(p) /\ OwnerInv(p)
  BY DEF IInv
<1>2. pc'[p] = v /\ \A q \in Proc \ {p} : pc'[q] = pc[q]
  BY <1>1 DEF TypeOK
<1>3. v # "idle"
  BY DEF Owning, Acquiring
<1>4. TypeOK'
  BY <1>1 DEF TypeOK, table
<1>5. FrameInv(p)'
  BY <1>1, <1>2, <1>3 DEF FrameInv, Gone, Dead, Top, table
<1>6. OwnerInv(p)' /\ Own(p)' = Own(p)
  BY <1>1, <1>2 DEF OwnerInv, Own, Below, Path, Top
<1>. QED BY <1>2, <1>4, <1>5, <1>6, LocalStep DEF Others, table

\* A step of p that changes the locals of its innermost acquireAt.
LEMMA TopStep ==
    ASSUME IInv, NEW p \in Proc, NEW locals \in Frame,
           NEW v \in {"claim", "judge", "remaining"},
           pc[p] \in Acquiring,
           locals.lease = Top(p).lease,
           locals.raw \in Lease => locals.raw.inc <= inc[locals.raw.pid],
           v = "judge" => locals.attempt < MaxAttempts /\ locals.raw \in Content,
           frame' = [frame EXCEPT ![p][depth[p]] = locals],
           pc' = [pc EXCEPT ![p] = v],
           UNCHANGED <<dir, table, depth, result, issued, calls>>
    PROVE  IInv'
<1>. DEFINE d == depth[p]
<1>1. TypeOK /\ FrameInv(p) /\ pc[p] # "idle" /\ pc[p] \notin Owning
  BY DEF IInv, Acquiring, Owning
<1>2. d \in Depth /\ d \notin 0..(d - 1)
  BY <1>1 DEF TypeOK, Depth
<1>3. /\ frame' \in [Proc -> [Depth -> Frame]]
      /\ frame'[p][d] = locals
      /\ \A e \in Depth \ {d} : frame'[p][e] = frame[p][e]
      /\ \A q \in Proc \ {p} : frame'[q] = frame[q]
  BY <1>1, <1>2 DEF TypeOK
<1>4. /\ pc' \in [Proc -> {"idle"} \cup Owning \cup Acquiring]
      /\ pc'[p] = v
      /\ \A q \in Proc \ {p} : pc'[q] = pc[q]
  BY <1>1 DEF TypeOK, Acquiring
<1>5. TypeOK'
  BY <1>1, <1>3, <1>4 DEF TypeOK, table
<1>6. \A e \in 0..d : frame'[p][e].lease = frame[p][e].lease
  BY <1>2, <1>3 DEF Depth, Top
<1>7. \A e \in 0..(d - 1) : frame'[p][e] = frame[p][e]
  BY <1>2, <1>3 DEF Depth
<1>8. FrameInv(p)'
  BY <1>1, <1>2, <1>3, <1>4, <1>6, <1>7 DEF FrameInv, Gone, Dead, Top, table
<1>9. OwnerInv(p)'
  BY <1>4 DEF OwnerInv, Owning
<1>. QED BY <1>1, <1>3, <1>4, <1>5, <1>8, <1>9, LocalStep DEF Others, table

---------------------------------------------------------------------------
(* Exclusion follows from the invariant.                                   *)

\* The lease a running process offers is its own, and it is not stale.
LEMMA OwnLease ==
    ASSUME IInv, NEW p \in Proc, pc[p] # "idle"
    PROVE  /\ Top(p).lease \in Lease
           /\ Top(p).lease.pid = p
           /\ Top(p).lease.inc = inc[p]
           /\ ~Dead(Top(p).lease)
           /\ ~Gone(Own(p).raw)
<1>1. FrameInv(p) /\ depth[p] \in 0..depth[p]
  BY BoundsAssumption DEF IInv, TypeOK, Depth
<1>2. Top(p).lease \in Lease /\ Top(p).lease.pid = p /\ Top(p).lease.inc = inc[p]
  BY <1>1 DEF FrameInv, Top
<1>3. ~Dead(Top(p).lease)
  BY <1>1, <1>2 DEF FrameInv, Dead
<1>. QED BY <1>2, <1>3, ContentAssumption DEF Gone, Own

LEMMA Exclusion == IInv => MutualExclusion
<1>. SUFFICES ASSUME IInv, NEW p \in Proc, NEW q \in Proc,
                     pc[p] \in Owning, pc[q] \in Owning, Path(p) = Path(q)
              PROVE  p = q
  BY DEF MutualExclusion
<1>1. Own(p) \in dir /\ Own(q) \in dir
  BY DEF IInv, OwnerInv
<1>2. Own(p) = Own(q)
  BY <1>1 DEF IInv, DirInv, Own
<1>3. Top(p).lease = Top(q).lease
  BY <1>2 DEF Own
<1>4. Top(p).lease.pid = p /\ Top(q).lease.pid = q
  BY OwnLease DEF Owning
<1>. QED BY <1>3, <1>4

\* What the owner of a guard is about to remove is exactly the stale entry.
LEMMA RmRemovesStale ==
    ASSUME IInv, NEW p \in Proc, pc[p] = "rm"
    PROVE  /\ Below(p) \in dir
           /\ Gone(Below(p).raw)
           /\ Removed(LockPath(frame[p], depth[p] - 1)) = dir \ {Below(p)}
<1>1. Below(p) \in dir /\ FrameInv(p) /\ depth[p] \in Depth
  BY DEF IInv, OwnerInv, TypeOK
<1>2. depth[p] - 1 \in 0..(depth[p] - 1)
  BY <1>1, BoundsAssumption DEF FrameInv, Depth
<1>3. Gone(Below(p).raw)
  BY <1>1, <1>2 DEF FrameInv, Below
<1>4. \A e \in dir : e.path = LockPath(frame[p], depth[p] - 1) <=> e = Below(p)
  BY <1>1 DEF IInv, DirInv, Below
<1>. QED BY <1>1, <1>3, <1>4 DEF Removed

\* What an owner removes on release is exactly its own entry.
LEMMA ReleaseRemovesOwn ==
    ASSUME IInv, NEW p \in Proc, pc[p] \in Owning
    PROVE  Own(p) \in dir /\ Removed(Path(p)) = dir \ {Own(p)}
<1>1. Own(p) \in dir
  BY DEF IInv, OwnerInv
<1>2. \A e \in dir : e.path = Path(p) <=> e = Own(p)
  BY <1>1 DEF IInv, DirInv, Own
<1>. QED BY <1>1, <1>2 DEF Removed

\* Two takers at "rm" remove different entries.
LEMMA RmDisjoint ==
    ASSUME IInv, NEW p \in Proc, NEW q \in Proc, pc[p] = "rm", pc[q] = "rm",
           Below(p) = Below(q)
    PROVE  p = q
<1>1. /\ FrameInv(p) /\ FrameInv(q)
      /\ depth[p] \in Nat /\ depth[q] \in Nat
  BY BoundsAssumption DEF IInv, TypeOK, Depth
<1>2. /\ depth[p] - 1 \in Nat /\ depth[q] - 1 \in Nat
      /\ (depth[p] - 1) + 1 = depth[p] /\ (depth[q] - 1) + 1 = depth[q]
  BY <1>1 DEF FrameInv
<1>3. /\ LockPath(frame[p], depth[p] - 1) = LockPath(frame[q], depth[q] - 1)
      /\ frame[p][depth[p] - 1].raw = frame[q][depth[q] - 1].raw
  BY DEF Below
<1>4. LockPath(frame[p], (depth[p] - 1) + 1) = LockPath(frame[q], (depth[q] - 1) + 1)
  BY <1>2, <1>3, GuardPathSame
<1>5. Path(p) = Path(q)
  BY <1>2, <1>4 DEF Path
<1>. QED BY <1>5, Exclusion DEF MutualExclusion, Owning

---------------------------------------------------------------------------
(* The steps that change the directory.                                    *)

LEMMA ClaimWinsStep ==
    ASSUME IInv, NEW p \in Proc, ClaimWins(p) PROVE IInv'
<1>1. /\ TypeOK /\ FrameInv(p) /\ pc[p] = "claim"
      /\ Absent(Path(p)) /\ dir' = dir \cup {Own(p)}
      /\ UNCHANGED <<alive, inc, legacyOld, depth, frame>>
  BY DEF IInv, ClaimWins, At, table
<1>2. /\ Top(p).lease \in Lease /\ Top(p).lease.pid = p /\ Top(p).lease.inc = inc[p]
      /\ depth[p] \in Nat
  BY <1>1, OwnLease, BoundsAssumption DEF TypeOK, Depth
<1>3. /\ pc'[p] \in {"held", "check"}
      /\ pc'[p] = "check" => depth[p] > 0
      /\ \A q \in Proc \ {p} : pc'[q] = pc[q]
      /\ pc' \in [Proc -> {"idle"} \cup Owning \cup Acquiring]
      /\ result' \in [Proc -> Outcomes \cup {"none", "success"}]
  BY <1>1, <1>2 DEF ClaimWins, TypeOK, Owning
<1>4. TypeOK'
  <2>1. Path(p) \in Seq(Content)
    BY <1>1, <1>2, PathType DEF FrameInv, Path
  <2>2. Own(p) \in [path : Seq(Content), raw : Content]
    BY <1>2, <2>1 DEF Own, Content
  <2>. QED BY <1>1, <1>3, <2>2 DEF TypeOK, ClaimWins, table
<1>5. DirInv'
  BY <1>1, <1>2 DEF IInv, DirInv, Absent, Own, TypeOK
<1>6. ASSUME NEW q \in Proc PROVE FrameInv(q)' /\ OwnerInv(q)'
  <2>1. FrameInv(q) /\ OwnerInv(q)
    BY DEF IInv
  <2>2. FrameInv(q)'
    BY <1>1, <1>3, <2>1 DEF FrameInv, Gone, Dead, Top
  <2>3. OwnerInv(q)'
    BY <1>1, <1>3, <2>1 DEF OwnerInv, Own, Below, Path, Top, Owning
  <2>. QED BY <2>2, <2>3
<1>7. NoLeakedLease'
  <2>. SUFFICES ASSUME NEW e \in dir', IsLease(e.raw), ~Dead(e.raw)
                PROVE  /\ pc'[e.raw.pid] \in Owning
                       /\ e.path = Path(e.raw.pid)
                       /\ e.raw = Top(e.raw.pid).lease
    BY <1>1 DEF NoLeakedLease, Dead, IsLease, Path, Top
  <2>1. CASE e = Own(p)
    BY <1>2, <1>3, <2>1 DEF Own, Owning
  <2>2. CASE e \in dir
    <3>1. /\ pc[e.raw.pid] \in Owning
          /\ e.path = Path(e.raw.pid)
          /\ e.raw = Top(e.raw.pid).lease
      BY <2>2 DEF IInv, NoLeakedLease
    <3>2. e.raw.pid \in Proc /\ e.raw.pid # p
      BY <1>1, <2>2, <3>1 DEF TypeOK, IsLease, Content, Lease, Owning
    <3>. QED BY <1>3, <3>1, <3>2
  <2>. QED BY <1>1, <2>1, <2>2
<1>. QED BY <1>4, <1>5, <1>6, <1>7 DEF IInv

LEMMA RmStep ==
    ASSUME IInv, NEW p \in Proc, Rm(p) PROVE IInv'
<1>1. /\ TypeOK /\ FrameInv(p) /\ pc[p] = "rm"
      /\ dir' = dir \ {Below(p)} /\ Gone(Below(p).raw)
      /\ UNCHANGED <<table, depth, frame, result, issued, calls>>
      /\ UNCHANGED <<alive, inc, legacyOld>>
      /\ pc' = [pc EXCEPT ![p] = "releaseRead"]
  BY RmRemovesStale DEF IInv, Rm, At, table
<1>2. pc'[p] = "releaseRead" /\ \A q \in Proc \ {p} : pc'[q] = pc[q]
  BY <1>1 DEF TypeOK
<1>3. TypeOK'
  BY <1>1 DEF TypeOK, table, Owning
<1>4. DirInv'
  BY <1>1 DEF IInv, DirInv
<1>5. ASSUME NEW q \in Proc PROVE FrameInv(q)' /\ OwnerInv(q)'
  <2>1. FrameInv(q) /\ OwnerInv(q)
    BY DEF IInv
  <2>2. FrameInv(q)'
    BY <1>1, <1>2, <2>1 DEF FrameInv, Gone, Dead, Top
  <2>3. pc[q] \in Owning => Own(q) # Below(p)
    BY <1>1, OwnLease DEF Owning
  <2>4. q # p /\ pc[q] = "rm" => Below(q) # Below(p)
    BY <1>1, RmDisjoint
  <2>5. Own(q)' = Own(q) /\ Below(q)' = Below(q)
    BY <1>1 DEF Own, Below, Path, Top
  <2>6. OwnerInv(q)'
    BY <1>1, <1>2, <2>1, <2>3, <2>4, <2>5 DEF OwnerInv, Owning
  <2>. QED BY <2>2, <2>6
<1>6. NoLeakedLease'
  <2>. SUFFICES ASSUME NEW e \in dir, IsLease(e.raw), ~Dead(e.raw)
                PROVE  /\ pc'[e.raw.pid] \in Owning
                       /\ e.path = Path(e.raw.pid)
                       /\ e.raw = Top(e.raw.pid).lease
    BY <1>1 DEF NoLeakedLease, Dead, IsLease, Path, Top
  <2>1. /\ pc[e.raw.pid] \in Owning
        /\ e.path = Path(e.raw.pid)
        /\ e.raw = Top(e.raw.pid).lease
    BY DEF IInv, NoLeakedLease
  <2>2. e.raw.pid \in Proc
    BY <1>1 DEF TypeOK, IsLease, Content, Lease
  <2>. QED BY <1>2, <2>1, <2>2 DEF Owning
<1>. QED BY <1>3, <1>4, <1>5, <1>6 DEF IInv

LEMMA ReleaseRmStep ==
    ASSUME IInv, NEW p \in Proc, ReleaseRm(p) PROVE IInv'
<1>1. /\ TypeOK /\ FrameInv(p) /\ pc[p] = "releaseRm"
      /\ dir' = dir \ {Own(p)}
      /\ UNCHANGED <<table, result, issued, calls>>
      /\ UNCHANGED <<alive, inc, legacyOld>>
  BY ReleaseRemovesOwn DEF IInv, ReleaseRm, At, table, Owning
<1>2. FramesKept(p)
  <2>1. CASE depth[p] = 0
    BY <1>1, <2>1, ReturnFrames DEF ReleaseRm, Released
  <2>2. CASE depth[p] > 0
    BY <1>1, <2>2, ResumeFrames DEF ReleaseRm, Released
  <2>. QED BY <1>1, <2>1, <2>2, BoundsAssumption DEF TypeOK, Depth
<1>3. TypeOK'
  BY <1>1, <1>2 DEF TypeOK, FramesKept, table
<1>4. DirInv'
  BY <1>1 DEF IInv, DirInv
<1>5. ASSUME NEW q \in Proc, q # p PROVE FrameInv(q)' /\ OwnerInv(q)'
  <2>1. /\ FrameInv(q) /\ OwnerInv(q)
        /\ frame'[q] = frame[q] /\ depth'[q] = depth[q] /\ pc'[q] = pc[q]
    BY <1>2, <1>5 DEF IInv, FramesKept, Others
  <2>2. FrameInv(q)'
    BY <1>1, <2>1 DEF FrameInv, Gone, Dead, Top
  <2>3. pc[q] \in Owning => Own(q) # Own(p)
    BY <1>1, <1>5, OwnLease DEF Owning, Own
  <2>4. pc[q] = "rm" => Below(q) # Own(p)
    BY <1>1, OwnLease, RmRemovesStale
  <2>5. Own(q)' = Own(q) /\ Below(q)' = Below(q)
    BY <2>1 DEF Own, Below, Path, Top
  <2>6. OwnerInv(q)'
    BY <1>1, <2>1, <2>3, <2>4, <2>5 DEF OwnerInv
  <2>. QED BY <2>2, <2>6
<1>6. FrameInv(p)' /\ OwnerInv(p)'
  BY <1>2 DEF FramesKept, OwnerInv, Owning
<1>7. NoLeakedLease'
  <2>. SUFFICES ASSUME NEW e \in dir, e # Own(p), IsLease(e.raw), ~Dead(e.raw)
                PROVE  /\ pc'[e.raw.pid] \in Owning
                       /\ e.path = Path(e.raw.pid)'
                       /\ e.raw = Top(e.raw.pid)'.lease
    BY <1>1 DEF NoLeakedLease, Dead, IsLease
  <2>1. /\ pc[e.raw.pid] \in Owning
        /\ e.path = Path(e.raw.pid)
        /\ e.raw = Top(e.raw.pid).lease
    BY DEF IInv, NoLeakedLease
  <2>2. e.raw.pid \in Proc /\ e \in [path : Seq(Content), raw : Content]
    BY <1>1 DEF TypeOK, IsLease, Content, Lease
  <2>3. e.raw.pid # p
    BY <2>1, <2>2 DEF Own
  <2>. QED BY <1>2, <2>1, <2>2, <2>3 DEF FramesKept, Others, Path, Top
<1>. QED BY <1>3, <1>4, <1>5, <1>6, <1>7 DEF IInv

---------------------------------------------------------------------------
(* The steps of the environment.                                           *)

\* What is gone stays gone, whoever is given its pid.
LEMMA GoneForGood ==
    ASSUME IInv, NEW raw \in Content, Gone(raw),
           raw \in Lease => raw.inc <= inc[raw.pid],
           legacyOld => legacyOld',
           \A p \in Proc : \/ alive'[p] = alive[p] /\ inc'[p] = inc[p]
                           \/ ~alive'[p] /\ inc'[p] = inc[p]
                           \/ inc'[p] = inc[p] + 1
    PROVE  Gone(raw)'
<1>1. \A p \in Proc : inc[p] \in Nat
  BY DEF IInv, TypeOK
<1>2. CASE raw \in Lease /\ Dead(raw)
  <2>1. raw.pid \in Proc /\ raw.inc \in Nat
    BY <1>2 DEF Lease
  <2>. QED BY <1>1, <1>2, <2>1 DEF Dead, Gone
<1>3. CASE raw = Legacy /\ legacyOld
  BY <1>3 DEF Gone
<1>. QED BY <1>2, <1>3 DEF Gone

LEMMA CrashStep ==
    ASSUME IInv, NEW p \in Proc, Crash(p) PROVE IInv'
<1>. USE FrameValues, BoundsAssumption
<1>1. /\ TypeOK /\ UNCHANGED <<dir, inc, legacyOld>>
      /\ 0 \in Depth
  BY DEF IInv, Crash, Depth
<1>2. /\ ~alive'[p] /\ pc'[p] = "idle" /\ depth'[p] = 0
      /\ frame'[p] = [d \in Depth |-> NoFrame]
      /\ \A q \in Proc \ {p} : /\ alive'[q] = alive[q] /\ pc'[q] = pc[q]
                               /\ depth'[q] = depth[q] /\ frame'[q] = frame[q]
  BY <1>1 DEF Crash, TypeOK
<1>3. TypeOK'
  BY <1>1 DEF TypeOK, Crash
<1>4. DirInv'
  BY <1>1 DEF IInv, DirInv
<1>5. ASSUME NEW q \in Proc PROVE FrameInv(q)' /\ OwnerInv(q)'
  <2>1. CASE q = p
    BY <1>1, <1>2, <2>1 DEF FrameInv, OwnerInv, Owning
  <2>2. CASE q # p
    <3>1. /\ FrameInv(q) /\ OwnerInv(q)
          /\ depth[q] \in Depth
      BY DEF IInv, TypeOK
    <3>2. \A d \in 0..(depth[q] - 1) : Gone(frame[q][d].raw)'
      <4>. TAKE d \in 0..(depth[q] - 1)
      <4>1. d \in Depth
        BY <3>1 DEF Depth
      <4>. QED BY <1>1, <1>2, <2>2, <3>1, <4>1, GoneForGood DEF FrameInv
    <3>3. FrameInv(q)'
      BY <1>1, <1>2, <2>2, <3>1, <3>2 DEF FrameInv, Top
    <3>4. OwnerInv(q)'
      BY <1>1, <1>2, <2>2, <3>1 DEF OwnerInv, Own, Below, Path, Top
    <3>. QED BY <3>3, <3>4
  <2>. QED BY <2>1, <2>2
<1>6. NoLeakedLease'
  <2>. SUFFICES ASSUME NEW e \in dir, IsLease(e.raw), ~Dead(e.raw)'
                PROVE  /\ pc'[e.raw.pid] \in Owning
                       /\ e.path = Path(e.raw.pid)'
                       /\ e.raw = Top(e.raw.pid)'.lease
    BY <1>1 DEF NoLeakedLease, IsLease
  <2>1. e.raw.pid \in Proc /\ e.raw.pid # p
    BY <1>1, <1>2 DEF TypeOK, IsLease, Content, Lease, Dead
  <2>2. ~Dead(e.raw)
    BY <1>1, <1>2, <2>1 DEF Dead
  <2>. QED BY <1>2, <2>1, <2>2 DEF IInv, NoLeakedLease, Path, Top
<1>. QED BY <1>3, <1>4, <1>5, <1>6 DEF IInv

LEMMA RestartStep ==
    ASSUME IInv, NEW p \in Proc, Restart(p) PROVE IInv'
<1>. USE FrameValues, BoundsAssumption
<1>1. /\ TypeOK /\ UNCHANGED <<dir, legacyOld, pc, depth, frame>>
      /\ pc[p] = "idle"
  BY DEF IInv, Restart, FrameInv
<1>2. /\ alive'[p] /\ inc'[p] = inc[p] + 1 /\ inc[p] \in Nat
      /\ \A q \in Proc \ {p} : alive'[q] = alive[q] /\ inc'[q] = inc[q]
  BY <1>1 DEF Restart, TypeOK
<1>3. TypeOK'
  BY <1>1, <1>2 DEF TypeOK, Restart
<1>4. \A raw \in Lease : raw.inc <= inc[raw.pid] => raw.inc <= inc'[raw.pid]
  <2>. TAKE raw \in Lease
  <2>1. raw.pid \in Proc /\ raw.inc \in Nat
    BY DEF Lease
  <2>2. inc[raw.pid] \in Nat
    BY <1>1, <2>1 DEF TypeOK
  <2>. QED BY <1>2, <2>1, <2>2
<1>5. DirInv'
  BY <1>1, <1>4 DEF IInv, DirInv
<1>6. ASSUME NEW q \in Proc PROVE FrameInv(q)' /\ OwnerInv(q)'
  <2>1. /\ FrameInv(q) /\ OwnerInv(q)
        /\ depth[q] \in Depth
    BY DEF IInv, TypeOK
  <2>2. \A d \in 0..(depth[q] - 1) : Gone(frame[q][d].raw)'
    <3>. TAKE d \in 0..(depth[q] - 1)
    <3>1. d \in Depth
      BY <2>1 DEF Depth
    <3>2. \A r \in Proc : \/ alive'[r] = alive[r] /\ inc'[r] = inc[r]
                          \/ inc'[r] = inc[r] + 1
      BY <1>2
    <3>. QED BY <1>1, <2>1, <3>1, <3>2, GoneForGood DEF FrameInv
  <2>3. pc[q] # "idle" => q # p /\ alive'[q] /\ inc'[q] = inc[q]
    BY <1>1, <1>2, <2>1 DEF FrameInv
  <2>4. FrameInv(q)'
    BY <1>1, <1>4, <2>1, <2>2, <2>3 DEF FrameInv, Top
  <2>5. OwnerInv(q)'
    BY <1>1, <2>1 DEF OwnerInv, Own, Below, Path, Top
  <2>. QED BY <2>4, <2>5
<1>7. NoLeakedLease'
  <2>. SUFFICES ASSUME NEW e \in dir, IsLease(e.raw), ~Dead(e.raw)'
                PROVE  /\ pc[e.raw.pid] \in Owning
                       /\ e.path = Path(e.raw.pid)
                       /\ e.raw = Top(e.raw.pid).lease
    BY <1>1 DEF NoLeakedLease, IsLease, Path, Top
  <2>1. e.raw \in Content /\ e.raw \in Lease /\ e.raw.inc <= inc[e.raw.pid]
    BY <1>1 DEF IInv, DirInv, TypeOK, IsLease, Content
  <2>2. ~Dead(e.raw)
    <3>. SUFFICES ASSUME Dead(e.raw) PROVE FALSE
      OBVIOUS
    <3>1. e.raw.pid \in Proc /\ e.raw.inc \in Nat
      BY <2>1 DEF Lease
    <3>2. inc[e.raw.pid] \in Nat
      BY <1>1, <3>1 DEF TypeOK
    <3>. QED BY <1>2, <2>1, <3>1, <3>2 DEF Dead
  <2>. QED BY <2>2 DEF IInv, NoLeakedLease
<1>. QED BY <1>3, <1>5, <1>6, <1>7 DEF IInv

LEMMA LegacyExpiresStep ==
    ASSUME IInv, LegacyExpires PROVE IInv'
<1>1. /\ TypeOK /\ legacyOld'
      /\ UNCHANGED <<dir, alive, inc, pc, depth, frame>>
  BY DEF IInv, LegacyExpires
<1>2. TypeOK'
  BY <1>1 DEF TypeOK, LegacyExpires
<1>3. DirInv' /\ NoLeakedLease'
  BY <1>1 DEF IInv, DirInv, NoLeakedLease, IsLease, Dead, Path, Top
<1>4. ASSUME NEW q \in Proc PROVE FrameInv(q)' /\ OwnerInv(q)'
  <2>1. FrameInv(q) /\ OwnerInv(q)
    BY DEF IInv
  <2>2. FrameInv(q)'
    BY <1>1, <2>1 DEF FrameInv, Gone, Dead, Top
  <2>3. OwnerInv(q)'
    BY <1>1, <2>1 DEF OwnerInv, Own, Below, Path, Top
  <2>. QED BY <2>2, <2>3
<1>. QED BY <1>2, <1>3, <1>4 DEF IInv

---------------------------------------------------------------------------
(* The invariant holds.                                                    *)

LEMMA InitIInv == Init => IInv
<1>. USE FrameValues, BoundsAssumption
<1>. SUFFICES ASSUME Init PROVE IInv
  OBVIOUS
<1>1. 0 \in Depth /\ << >> \in Seq(Content)
  BY DEF Depth
<1>2. TypeOK
  <2>1. dir \in SUBSET [path : Seq(Content), raw : Content]
    <3>1. Legacy \in Content /\ Corrupt \in Content
      BY DEF Content
    <3>2. /\ [path |-> << >>, raw |-> Legacy] \in [path : Seq(Content), raw : Content]
          /\ [path |-> << >>, raw |-> Corrupt] \in [path : Seq(Content), raw : Content]
      BY <1>1, <3>1
    <3>. QED BY <3>2 DEF Init
  <2>. QED BY <1>1, <2>1 DEF TypeOK, Init
<1>3. DirInv
  BY ContentAssumption DEF Init, DirInv
<1>4. ASSUME NEW p \in Proc PROVE FrameInv(p) /\ OwnerInv(p)
  BY <1>1, <1>4 DEF Init, FrameInv, OwnerInv, Owning
<1>5. NoLeakedLease
  BY DEF Init, NoLeakedLease, IsLease
<1>. QED BY <1>2, <1>3, <1>4, <1>5 DEF IInv

\* What may be read at a path, and judged stale, is gone for good.
LEMMA StaleIsGone ==
    ASSUME NEW raw \in Content \cup {None}, HolderState(raw) = "stale"
    PROVE  raw \in Content /\ Gone(raw)
<1>1. raw # None /\ raw # Corrupt
  BY DEF HolderState
<1>2. CASE raw = Legacy
  BY <1>1, <1>2 DEF HolderState, Gone, Content
<1>3. CASE raw # Legacy
  BY <1>1, <1>3 DEF HolderState, Gone, Content, Running, Dead
<1>. QED BY <1>2, <1>3

LEMMA EnterStep ==
    ASSUME IInv, NEW p \in Proc, Acquire(p) \/ TakeGuard(p) PROVE IInv'
<1>1. TypeOK /\ FrameInv(p) /\ alive[p]
  BY DEF IInv, Acquire, TakeGuard, At
<1>2. /\ UNCHANGED <<dir, table>>
      /\ UNCHANGED <<alive, inc, legacyOld>>
  BY DEF Acquire, TakeGuard, table
<1>3. FramesKept(p) /\ issued' \in [Proc -> Nat] /\ pc[p] \notin Owning
  <2>1. CASE Acquire(p)
    <3>1. 0 \in Depth
      BY BoundsAssumption DEF Depth
    <3>. QED BY <1>1, <1>2, <2>1, <3>1, EnterFrames DEF Acquire, At, Owning
  <2>2. CASE TakeGuard(p)
    <3>1. depth[p] + 1 \in Depth
      BY <1>1, <2>2, BoundsAssumption DEF TakeGuard, TypeOK, Depth
    <3>2. Top(p).raw \in Content \cup {None}
      BY <1>1 DEF Top, TypeOK, Frame
    <3>3. Gone(Top(p).raw)
      BY <2>2, <3>2, StaleIsGone DEF TakeGuard
    <3>. QED BY <1>1, <1>2, <2>2, <3>1, <3>3, EnterFrames DEF TakeGuard, At, Owning
  <2>. QED BY <2>1, <2>2
<1>4. TypeOK'
  <2>1. /\ result' \in [Proc -> Outcomes \cup {"none", "success"}]
        /\ calls' \in [Proc -> Nat]
    <3>1. CASE Acquire(p)
      <4>1. calls[p] + 1 \in Nat
        BY <1>1 DEF TypeOK
      <4>. QED BY <1>1, <3>1, <4>1 DEF TypeOK, Acquire
    <3>2. CASE TakeGuard(p)
      BY <1>1, <3>2 DEF TypeOK, TakeGuard
    <3>. QED BY <3>1, <3>2
  <2>. QED BY <1>1, <1>2, <1>3, <2>1 DEF TypeOK, FramesKept, table
<1>5. OwnerInv(p)'
  BY <1>3 DEF OwnerInv, FramesKept, Owning
<1>. QED BY <1>2, <1>3, <1>4, <1>5, LocalStep DEF FramesKept

LEMMA ReadStep ==
    ASSUME IInv, NEW p \in Proc, ReadAbsent(p) \/ ReadHolder(p) \/ Exhausted(p)
    PROVE  IInv'
<1>. USE BoundsAssumption
<1>1. /\ TypeOK /\ FrameInv(p) /\ Top(p) \in Frame
      /\ depth[p] \in Depth
  BY DEF IInv, TypeOK, Top
<1>2. /\ pc[p] \in Acquiring
      /\ Top(p).raw \in Lease => Top(p).raw.inc <= inc[Top(p).raw.pid]
  BY <1>1 DEF ReadAbsent, ReadHolder, Exhausted, At, Acquiring, FrameInv, Top
<1>3. CASE ReadAbsent(p)
  <2>. DEFINE locals == [Top(p) EXCEPT !.attempt = @ + 1]
  <2>1. Top(p).attempt \in 0..MaxAttempts /\ Top(p).attempt < MaxAttempts
    BY <1>1, <1>3 DEF ReadAbsent, At, FrameInv, Frame
  <2>2. locals \in Frame /\ locals.lease = Top(p).lease /\ locals.raw = Top(p).raw
    BY <1>1, <2>1 DEF Frame
  <2>3. frame' = [frame EXCEPT ![p][depth[p]] = locals]
    BY <1>1, <1>3 DEF ReadAbsent, Top, TypeOK
  <2>. HIDE DEF locals
  <2>. QED BY <1>2, <1>3, <2>2, <2>3, TopStep DEF ReadAbsent
<1>4. ASSUME NEW raw \in Content \cup {None}, NEW v \in {"judge", "remaining"},
             raw = None \/ \E e \in dir : e.raw = raw,
             v = "judge" => pc[p] = "read" /\ raw # None,
             frame' = [frame EXCEPT ![p][depth[p]].raw = raw],
             pc' = [pc EXCEPT ![p] = v],
             UNCHANGED <<dir, table, depth, result, issued, calls>>
      PROVE  IInv'
  <2>. DEFINE locals == [Top(p) EXCEPT !.raw = raw]
  <2>1. /\ locals \in Frame /\ locals.lease = Top(p).lease
        /\ locals.raw = raw /\ locals.attempt = Top(p).attempt
    BY <1>1 DEF Frame
  <2>2. frame' = [frame EXCEPT ![p][depth[p]] = locals]
    BY <1>1, <1>4 DEF Top, TypeOK
  <2>3. raw \in Lease => raw.inc <= inc[raw.pid]
    BY <1>4, ContentAssumption DEF IInv, DirInv
  <2>4. v = "judge" => Top(p).attempt < MaxAttempts /\ raw \in Content
    BY <1>1, <1>4 DEF FrameInv
  <2>. HIDE DEF locals
  <2>. QED BY <1>2, <1>4, <2>1, <2>2, <2>3, <2>4, TopStep
<1>5. \A e \in dir : e.raw \in Content /\ e.raw # None
  BY <1>1, ContentAssumption DEF TypeOK, Content
<1>6. CASE ReadHolder(p)
  BY <1>4, <1>5, <1>6 DEF ReadHolder, At
<1>7. CASE Exhausted(p)
  BY <1>4, <1>5, <1>7 DEF Exhausted
<1>. QED BY <1>3, <1>6, <1>7

LEMMA RefusingStep ==
    ASSUME IInv, NEW p \in Proc,
           \/ JudgeCorrupt(p) \/ JudgeStuck(p) \/ Locked(p)
           \/ ExhaustedByGuard(p) \/ RemainingStale(p)
    PROVE  IInv'
<1>1. /\ pc[p] \in Acquiring
      /\ UNCHANGED <<dir, table, issued, calls>>
  BY DEF JudgeCorrupt, JudgeStuck, Locked, ExhaustedByGuard, RemainingStale,
         At, Acquiring
<1>2. \E outcome \in Outcomes : Refuse(p, outcome)
  <2>1. LockedOutcome(Top(p).raw) \in Outcomes
    BY DEF LockedOutcome, Outcomes
  <2>2. {"LOCKED", "STUCK", "CORRUPT"} \subseteq Outcomes
    BY DEF Outcomes
  <2>. QED BY <2>1, <2>2
       DEF JudgeCorrupt, JudgeStuck, Locked, ExhaustedByGuard, RemainingStale
<1>. QED BY <1>1, <1>2, RefuseStep

LEMMA MovingStep ==
    ASSUME IInv, NEW p \in Proc,
           \/ ClaimExists(p) \/ JudgeLive(p) \/ RemainingOther(p)
           \/ Check(p) \/ Release(p) \/ ReleaseRead(p)
    PROVE  IInv'
<1>1. TypeOK /\ FrameInv(p) /\ OwnerInv(p) /\ Top(p).attempt \in 0..MaxAttempts
  BY DEF IInv, TypeOK, Top, Frame
<1>2. CASE ClaimExists(p)
  BY <1>2, PcStep DEF ClaimExists, At, Owning, Acquiring
<1>3. CASE JudgeLive(p)
  BY <1>3, PcStep DEF JudgeLive, At, Owning, Acquiring
<1>4. CASE RemainingOther(p)
  BY <1>4, PcStep DEF RemainingOther, At, Owning, Acquiring
<1>5. CASE Check(p)
  <2>1. depth[p] > 0 /\ pc[p] = "check"
    BY <1>1, <1>5 DEF FrameInv, Check, At
  <2>. QED BY <1>5, <2>1, PcStep DEF Check, At, Owning, Acquiring
<1>6. CASE Release(p)
  BY <1>6, PcStep DEF Release, At, Owning, Acquiring
<1>7. CASE ReleaseRead(p)
  <2>1. pc[p] = "releaseRead" /\ Own(p) \in dir
    BY <1>1, <1>7 DEF ReleaseRead, At, OwnerInv, Owning
  <2>. QED BY <1>7, <2>1, PcStep DEF ReleaseRead, Owning, Acquiring
<1>. QED BY <1>2, <1>3, <1>4, <1>5, <1>6, <1>7

LEMMA NextIInv == IInv /\ [Next]_vars => IInv'
<1>. SUFFICES ASSUME IInv, [Next]_vars PROVE IInv'
  OBVIOUS
<1>1. CASE UNCHANGED vars
  BY <1>1 DEF vars, table, IInv, TypeOK, DirInv, FrameInv, OwnerInv, NoLeakedLease,
              Own, Below, Path, Top, Gone, Dead, IsLease
<1>2. CASE LegacyExpires
  BY <1>2, LegacyExpiresStep
<1>3. ASSUME NEW p \in Proc,
             Acquire(p) \/ Step(p) \/ Release(p) \/ Crash(p) \/ Restart(p)
      PROVE  IInv'
  <2>1. CASE Acquire(p) \/ TakeGuard(p)
    BY <2>1, EnterStep
  <2>2. CASE ClaimWins(p)
    BY <2>2, ClaimWinsStep
  <2>3. CASE ReadAbsent(p) \/ ReadHolder(p) \/ Exhausted(p)
    BY <2>3, ReadStep
  <2>4. CASE \/ JudgeCorrupt(p) \/ JudgeStuck(p) \/ Locked(p)
             \/ ExhaustedByGuard(p) \/ RemainingStale(p)
    BY <2>4, RefusingStep
  <2>5. CASE \/ ClaimExists(p) \/ JudgeLive(p) \/ RemainingOther(p)
             \/ Check(p) \/ Release(p) \/ ReleaseRead(p)
    BY <2>5, MovingStep
  <2>6. CASE Rm(p)
    BY <2>6, RmStep
  <2>7. CASE ReleaseRm(p)
    BY <2>7, ReleaseRmStep
  <2>8. CASE Crash(p)
    BY <2>8, CrashStep
  <2>9. CASE Restart(p)
    BY <2>9, RestartStep
  <2>. QED BY <1>3, <2>1, <2>2, <2>3, <2>4, <2>5, <2>6, <2>7, <2>8, <2>9 DEF Step
<1>. QED BY <1>1, <1>2, <1>3 DEF Next

\* The inductive invariant, for any processes, attempts, depth and bounds.
THEOREM Invariant == Spec => []IInv
<1>. QED BY InitIInv, NextIInv, PTL DEF Spec

\* Every reachable state is well typed: in particular the recursion through
\* guards stays within MaxTakeoverDepth and the loop within MaxAttempts.
THEOREM TypeCorrect == Spec => []TypeOK
<1>1. IInv => TypeOK
  BY DEF IInv
<1>. QED BY <1>1, Invariant, PTL

\* At most one running process owns the lock or any one takeover guard.
THEOREM Mutex == Spec => []MutualExclusion
<1>. QED BY Exclusion, Invariant, PTL

\* A running process leaves no lease behind that it does not own.
THEOREM NoLeak == Spec => []NoLeakedLease
<1>1. IInv => NoLeakedLease
  BY DEF IInv
<1>. QED BY <1>1, Invariant, PTL

---------------------------------------------------------------------------
(* What may leave the directory, and the lock the callers see.             *)

\* A lock file disappears only because it is stale or its owner releases it.
THEOREM RemovalsAreSafe == Spec => OnlyStaleOrOwnRemoved
<1>1. ASSUME IInv, [Next]_vars, NEW e \in dir \ dir'
      PROVE  \/ e.raw = Legacy /\ legacyOld
             \/ IsLease(e.raw) /\ Dead(e.raw)
             \/ IsLease(e.raw) /\ pc[e.raw.pid] = "releaseRm" /\ e.path = Path(e.raw.pid)
  <2>1. ASSUME NEW p \in Proc, Rm(p) PROVE Gone(e.raw)
    BY <1>1, <2>1, RmRemovesStale DEF Rm, At
  <2>2. ASSUME NEW p \in Proc, ReleaseRm(p)
        PROVE  e.raw \in Lease /\ e.raw.pid = p /\ pc[p] = "releaseRm" /\ e.path = Path(p)
    <3>1. pc[p] = "releaseRm" /\ e = Own(p)
      BY <1>1, <2>2, ReleaseRemovesOwn DEF ReleaseRm, At, Owning
    <3>. QED BY <1>1, <3>1, OwnLease DEF Own
  <2>3. \E p \in Proc : Rm(p) \/ ReleaseRm(p)
    BY <1>1 DEF Next, Step, vars, table, Acquire, ClaimWins, ClaimExists, ReadAbsent,
       ReadHolder, JudgeCorrupt, JudgeLive, JudgeStuck, TakeGuard, Locked,
       ExhaustedByGuard, Exhausted, RemainingStale, RemainingOther, Check,
       ReleaseRead, Release, Crash, Restart, LegacyExpires
  <2>4. CASE Gone(e.raw)
    BY <2>4, ContentAssumption DEF Gone, IsLease
  <2>. QED BY <2>1, <2>2, <2>3, <2>4, ContentAssumption DEF IsLease
<1>2. IInv /\ [Next]_vars =>
        [\A e \in dir \ dir' :
          \/ e.raw = Legacy /\ legacyOld
          \/ IsLease(e.raw) /\ Dead(e.raw)
          \/ IsLease(e.raw) /\ pc[e.raw.pid] = "releaseRm" /\ e.path = Path(e.raw.pid)]_vars
  BY <1>1
<1>. QED BY <1>2, Invariant, PTL DEF Spec, OnlyStaleOrOwnRemoved

\* Only the lock itself has the empty path.
LEMMA RootPath ==
    ASSUME NEW f, NEW d \in Nat PROVE LockPath(f, d) = << >> <=> d = 0
<1>1. DOMAIN LockPath(f, d) = 1..d /\ DOMAIN << >> = 1..0
  BY DEF LockPath
<1>2. d = 0 => LockPath(f, d) = << >>
  BY DEF LockPath
<1>3. d > 0 => LockPath(f, d) # << >>
  <2>1. d > 0 => 1 \in 1..d
    OBVIOUS
  <2>. QED BY <1>1, <2>1
<1>. QED BY <1>2, <1>3

\* The holder's lease is the file at the root, and then nothing there is a
\* leftover; nobody else holds.
LEMMA HolderOwnsRoot ==
    ASSUME IInv, NEW p \in Holder
    PROVE  /\ p \in Proc /\ pc[p] \in Owning
           /\ Own(p) \in dir /\ Own(p).path = << >>
           /\ Holder = {p} /\ ~Orphan
<1>1. p \in Proc /\ pc[p] \in Owning /\ depth[p] = 0 /\ Path(p) = << >>
  BY RootPath DEF Holder, Path
<1>2. Own(p) \in dir /\ Own(p).path = << >>
  BY <1>1, ReleaseRemovesOwn DEF Own
<1>3. Holder = {p}
  <2>. SUFFICES ASSUME NEW q \in Holder PROVE q = p
    OBVIOUS
  <2>1. q \in Proc /\ pc[q] \in Owning /\ Path(q) = << >>
    BY RootPath DEF Holder, Path
  <2>. QED BY <1>1, <2>1, Exclusion DEF MutualExclusion
<1>4. ~Orphan
  <2>1. \A e \in dir : e.path = << >> => e = Own(p)
    BY <1>2 DEF IInv, DirInv
  <2>2. IsLease(Own(p).raw) /\ ~Dead(Own(p).raw)
    BY <1>1, OwnLease, ContentAssumption DEF Own, IsLease, Owning
  <2>. QED BY <2>1, <2>2 DEF Orphan
<1>. QED BY <1>1, <1>2, <1>3, <1>4

\* Steps that leave the directory and the process table alone are invisible.
LEMMA LocalRefines ==
    ASSUME IInv, NEW p \in Proc,
           \/ Acquire(p) \/ ClaimExists(p) \/ ReadAbsent(p) \/ ReadHolder(p)
           \/ JudgeCorrupt(p) \/ JudgeLive(p) \/ JudgeStuck(p) \/ TakeGuard(p)
           \/ Locked(p) \/ ExhaustedByGuard(p) \/ Exhausted(p)
           \/ RemainingStale(p) \/ RemainingOther(p)
           \/ Check(p) \/ Release(p) \/ ReleaseRead(p)
    PROVE  UNCHANGED <<Holder, Orphan>>
<1>1. TypeOK /\ OwnerInv(p)
  BY DEF IInv
<1>2. UNCHANGED <<dir, alive, inc>>
  BY DEF Acquire, ClaimExists, ReadAbsent, ReadHolder, JudgeCorrupt, JudgeLive,
     JudgeStuck, TakeGuard, Locked, ExhaustedByGuard, Exhausted, RemainingStale,
     RemainingOther, Check, Release, ReleaseRead, table
<1>3. Orphan' = Orphan
  BY <1>2 DEF Orphan, IsLease, Dead
<1>4. CASE Check(p) \/ Release(p) \/ ReleaseRead(p)
  <2>1. /\ pc[p] \in Owning /\ UNCHANGED depth
        /\ \E v \in Owning : pc' = [pc EXCEPT ![p] = v]
    BY <1>1, <1>4 DEF Check, Release, ReleaseRead, At, Owning, OwnerInv
  <2>2. \A q \in Proc : pc'[q] \in Owning <=> pc[q] \in Owning
    BY <1>1, <2>1 DEF TypeOK
  <2>. QED BY <1>3, <2>1, <2>2 DEF Holder
<1>5. CASE ~(Check(p) \/ Release(p) \/ ReleaseRead(p))
  <2>1. /\ pc[p] \notin Owning
        /\ \E v \in {"idle"} \cup Acquiring : pc' = [pc EXCEPT ![p] = v]
    BY <1>5 DEF Acquire, ClaimExists, ReadAbsent, ReadHolder, JudgeCorrupt, JudgeLive,
       JudgeStuck, TakeGuard, Locked, ExhaustedByGuard, Exhausted, RemainingStale,
       RemainingOther, At, Enter, Refuse, Resume, Owning, Acquiring
  <2>2. pc'[p] \notin Owning /\ \A q \in Proc \ {p} : pc'[q] = pc[q]
    BY <1>1, <2>1 DEF TypeOK, Owning, Acquiring
  <2>3. \E d : depth' = [depth EXCEPT ![p] = d]
    <3>1. depth = [depth EXCEPT ![p] = depth[p]]
      BY <1>1 DEF TypeOK
    <3>. QED BY <1>5, <3>1 DEF Acquire, ClaimExists, ReadAbsent, ReadHolder, JudgeCorrupt,
         JudgeLive, JudgeStuck, TakeGuard, Locked, ExhaustedByGuard, Exhausted,
         RemainingStale, RemainingOther, Enter, Refuse, Resume
  <2>4. \A q \in Proc \ {p} : depth'[q] = depth[q]
    BY <1>1, <2>3 DEF TypeOK
  <2>. QED BY <1>3, <2>1, <2>2, <2>4 DEF Holder
<1>. QED BY <1>3, <1>4, <1>5

LEMMA ClaimRefines ==
    ASSUME IInv, NEW p \in Proc, ClaimWins(p)
    PROVE  Abstract!Acquire(p) \/ UNCHANGED <<Holder, Orphan>>
<1>1. /\ TypeOK /\ pc[p] = "claim" /\ Absent(Path(p)) /\ dir' = dir \cup {Own(p)}
      /\ UNCHANGED <<alive, inc, depth>>
      /\ depth[p] \in Nat
  BY BoundsAssumption DEF IInv, TypeOK, Depth, ClaimWins, At, table
<1>2. /\ pc'[p] \in Owning /\ pc[p] \notin Owning
      /\ \A q \in Proc \ {p} : pc'[q] = pc[q]
  BY <1>1 DEF ClaimWins, TypeOK, Owning
<1>3. Orphan' = Orphan
  <2>1. IsLease(Own(p).raw) /\ ~Dead(Own(p).raw)
    BY <1>1, OwnLease, ContentAssumption DEF Own, IsLease
  <2>. QED BY <1>1, <2>1 DEF Orphan, IsLease, Dead
<1>4. CASE depth[p] = 0
  <2>1. Path(p) = << >>
    BY <1>1, <1>4, RootPath DEF Path
  <2>2. ~Orphan
    BY <1>1, <2>1 DEF Orphan, Absent
  <2>3. Holder = {}
    BY <1>1, <2>1, HolderOwnsRoot DEF Absent
  <2>4. Holder' = {p}
    BY <1>1, <1>2, <1>4, <2>3 DEF Holder
  <2>. QED BY <1>3, <2>2, <2>3, <2>4 DEF Abstract!Acquire
<1>5. CASE depth[p] # 0
  BY <1>1, <1>2, <1>3, <1>5 DEF Holder
<1>. QED BY <1>4, <1>5

LEMMA RmRefines ==
    ASSUME IInv, NEW p \in Proc, Rm(p)
    PROVE  Abstract!Reclaim \/ UNCHANGED <<Holder, Orphan>>
<1>1. /\ TypeOK /\ DirInv /\ pc[p] = "rm"
      /\ Below(p) \in dir /\ Gone(Below(p).raw) /\ dir' = dir \ {Below(p)}
      /\ UNCHANGED <<alive, inc, depth>>
  BY RmRemovesStale DEF IInv, Rm, At, table
<1>2. Holder' = Holder
  <2>1. \A q \in Proc : pc'[q] \in Owning <=> pc[q] \in Owning
    BY <1>1 DEF Rm, TypeOK, Owning
  <2>. QED BY <1>1, <2>1 DEF Holder
<1>3. CASE Below(p).path = << >>
  <2>1. Orphan
    BY <1>1, <1>3 DEF Orphan, Gone, IsLease
  <2>2. Orphan' = FALSE
    BY <1>1, <1>3 DEF Orphan, DirInv
  <2>. QED BY <1>2, <2>1, <2>2 DEF Abstract!Reclaim
<1>4. CASE Below(p).path # << >>
  BY <1>1, <1>2, <1>4 DEF Orphan, IsLease, Dead
<1>. QED BY <1>3, <1>4

LEMMA ReleaseRefines ==
    ASSUME IInv, NEW p \in Proc, ReleaseRm(p)
    PROVE  Abstract!Release(p) \/ UNCHANGED <<Holder, Orphan>>
<1>1. /\ TypeOK /\ pc[p] = "releaseRm" /\ pc[p] \in Owning
      /\ dir' = dir \ {Own(p)}
      /\ UNCHANGED <<alive, inc>>
  BY ReleaseRemovesOwn DEF IInv, ReleaseRm, At, table, Owning
<1>2. /\ pc'[p] \notin Owning
      /\ \A q \in Proc \ {p} : pc'[q] = pc[q] /\ depth'[q] = depth[q]
  BY <1>1 DEF ReleaseRm, Released, Resume, TypeOK, Owning
<1>3. Orphan' = Orphan
  <2>1. IsLease(Own(p).raw) /\ ~Dead(Own(p).raw)
    BY <1>1, OwnLease, ContentAssumption DEF Own, IsLease
  <2>. QED BY <1>1, <2>1 DEF Orphan, IsLease, Dead
<1>4. CASE depth[p] = 0
  <2>1. Holder = {p}
    BY <1>1, <1>4, HolderOwnsRoot DEF Holder
  <2>2. Holder' = {}
    BY <1>2, <2>1 DEF Holder
  <2>. QED BY <1>3, <2>1, <2>2 DEF Abstract!Release
<1>5. CASE depth[p] # 0
  BY <1>2, <1>3, <1>5 DEF Holder
<1>. QED BY <1>4, <1>5

LEMMA CrashRefines ==
    ASSUME IInv, NEW p \in Proc, Crash(p)
    PROVE  Abstract!Crash(p) \/ UNCHANGED <<Holder, Orphan>>
<1>1. /\ TypeOK /\ UNCHANGED <<dir, inc>>
      /\ ~alive'[p] /\ pc'[p] \notin Owning
      /\ \A q \in Proc \ {p} : /\ alive'[q] = alive[q] /\ pc'[q] = pc[q]
                               /\ depth'[q] = depth[q]
  BY DEF IInv, TypeOK, Crash, Owning
<1>2. CASE p \in Holder
  <2>1. /\ Own(p) \in dir /\ Own(p).path = << >> /\ Holder = {p}
        /\ Own(p).raw.pid = p
    BY <1>2, HolderOwnsRoot, OwnLease DEF Owning, Own
  <2>2. Holder' = {}
    BY <1>1, <2>1 DEF Holder
  <2>3. \A e \in dir : e.raw.pid = p => Dead(e.raw)'
    BY <1>1 DEF Dead
  <2>4. Orphan' = TRUE
    BY <1>1, <2>1, <2>3 DEF Orphan
  <2>. QED BY <2>1, <2>2, <2>4 DEF Abstract!Crash
<1>3. CASE p \notin Holder
  <2>1. Holder' = Holder
    BY <1>1, <1>3 DEF Holder
  <2>2. ASSUME NEW e \in dir, e.path = << >>, IsLease(e.raw)
        PROVE  Dead(e.raw)' = Dead(e.raw)
    <3>1. e.raw.pid \in Proc
      BY <1>1, <2>2 DEF TypeOK, IsLease, Content, Lease
    <3>2. CASE e.raw.pid = p /\ ~Dead(e.raw)
      <4>1. pc[p] \in Owning /\ Path(p) = << >>
        BY <2>2, <3>2 DEF IInv, NoLeakedLease
      <4>2. depth[p] = 0
        BY <1>1, <4>1, RootPath, BoundsAssumption DEF TypeOK, Depth, Path
      <4>. QED BY <1>3, <4>1, <4>2 DEF Holder
    <3>3. CASE e.raw.pid = p /\ Dead(e.raw)
      BY <1>1, <3>3 DEF Dead
    <3>4. CASE e.raw.pid # p
      BY <1>1, <3>1, <3>4 DEF Dead
    <3>. QED BY <3>2, <3>3, <3>4
  <2>3. Orphan' = Orphan
    BY <1>1, <2>2 DEF Orphan, IsLease
  <2>. QED BY <2>1, <2>3
<1>. QED BY <1>2, <1>3

LEMMA RestartRefines ==
    ASSUME IInv, NEW p \in Proc, Restart(p)
    PROVE  UNCHANGED <<Holder, Orphan>>
<1>1. /\ TypeOK /\ UNCHANGED <<dir, pc, depth>> /\ ~alive[p]
      /\ inc'[p] = inc[p] + 1
      /\ \A q \in Proc \ {p} : alive'[q] = alive[q] /\ inc'[q] = inc[q]
  BY DEF IInv, TypeOK, Restart
<1>2. Holder' = Holder
  BY <1>1 DEF Holder
<1>3. ASSUME NEW e \in dir, IsLease(e.raw)
      PROVE  Dead(e.raw)' = Dead(e.raw)
  <2>1. /\ e.raw \in Lease /\ e.raw.pid \in Proc /\ e.raw.inc \in Nat
        /\ inc[e.raw.pid] \in Nat /\ e.raw.inc <= inc[e.raw.pid]
    BY <1>1, <1>3 DEF IInv, DirInv, TypeOK, IsLease, Content, Lease
  <2>2. CASE e.raw.pid = p
    BY <1>1, <2>1, <2>2 DEF Dead
  <2>3. CASE e.raw.pid # p
    BY <1>1, <2>1, <2>3 DEF Dead
  <2>. QED BY <2>2, <2>3
<1>4. Orphan' = Orphan
  BY <1>1, <1>3 DEF Orphan, IsLease
<1>. QED BY <1>2, <1>4

\* The lease files implement the lock the governed stores rely on.
THEOREM Refinement == Spec => ImplementsPathLock
<1>1. Init => Abstract!Init
  BY DEF Init, Abstract!Init, Holder, Owning, Orphan
<1>2. IInv /\ [Next]_vars => [Abstract!Next]_(Abstract!vars)
  <2>. SUFFICES ASSUME IInv, [Next]_vars
                PROVE  Abstract!Next \/ UNCHANGED <<Holder, Orphan>>
    BY DEF Abstract!vars
  <2>1. CASE UNCHANGED vars
    BY <2>1 DEF vars, table, Holder, Orphan, IsLease, Dead
  <2>2. CASE LegacyExpires
    BY <2>2 DEF LegacyExpires, Holder, Orphan, IsLease, Dead
  <2>3. ASSUME NEW p \in Proc,
               Acquire(p) \/ Step(p) \/ Release(p) \/ Crash(p) \/ Restart(p)
        PROVE  Abstract!Next \/ UNCHANGED <<Holder, Orphan>>
    <3>1. CASE ClaimWins(p)
      BY <3>1, ClaimRefines DEF Abstract!Next
    <3>2. CASE Rm(p)
      BY <3>2, RmRefines DEF Abstract!Next
    <3>3. CASE ReleaseRm(p)
      BY <3>3, ReleaseRefines DEF Abstract!Next
    <3>4. CASE Crash(p)
      BY <3>4, CrashRefines DEF Abstract!Next
    <3>5. CASE Restart(p)
      BY <3>5, RestartRefines
    <3>. QED BY <2>3, <3>1, <3>2, <3>3, <3>4, <3>5, LocalRefines DEF Step
  <2>. QED BY <2>1, <2>2, <2>3 DEF Next
<1>. QED BY <1>1, <1>2, Invariant, PTL DEF Spec, ImplementsPathLock, Abstract!Spec

---------------------------------------------------------------------------
(* Types.                                                                  *)

LinesOf(lines) == {lines[i] : i \in 1..Len(lines)}

Status == DOMAIN Transitions
Outcome == {"succeeded", "skipped", "failed", "rejected"}

Manifest == [status : Status, completed : SUBSET Stage, fence : Nat, token : Nat]

CommandPc == {"idle", "gates", "consume", "execute", "admit", "deny", "settle",
              "complete", "project", "anchor", "write", "route", "lease", "approve"}
Command == [pc : CommandPc, attempt : Nat, status : Outcome \cup {Unset},
            seen : Nat,
            base : Manifest \cup {Unset}, copy : Manifest \cup {Unset}]
Request == [pc : {"idle", "waiting", "writing"}, targets : Seq(Status),
            seen : Status \cup {Unset}, base : Manifest \cup {Unset}]

Typed ==
    /\ ledger \in Seq(LinesOf(ledger))
    /\ minted \in Seq(Nat)
    /\ manifest \in Manifest
    /\ cmd \in Command /\ console \in Request
    /\ console.pc # "idle" => console.targets # << >>
    /\ raced \in BOOLEAN
    /\ deaths \in Nat
    /\ lapsed \in 0..Len(minted) /\ overdue \in 0..Len(ledger)

---------------------------------------------------------------------------
(* The inductive invariant.                                                *)

Prefix(S) == S = 1..Cardinality(S)

\* A manifest that was, or may be, on disk: a minted lease, and a part of the cursor.
Sound(m) ==
    /\ m \in Manifest
    /\ m.token \in 1..Len(minted) /\ m.fence = minted[m.token]
    /\ m.completed \subseteq Cursor /\ Prefix(m.completed)

\* The steps that will write the manifest, from what the command read.
Rewrites == {"write", "route", "lease", "approve"}

ManifestInv ==
    /\ Sound(manifest)
    /\ cmd.pc \in Rewrites =>
        /\ Sound(cmd.base) /\ Sound(cmd.copy)
        /\ cmd.copy.fence = cmd.base.fence /\ cmd.copy.token = cmd.base.token
    /\ console.pc = "writing" => Sound(console.base)

\* What refers to an attempt refers to a request, and a completion is of its stage.
Refers ==
    /\ \A i \in Places("requested") : ledger[i].stage \in Stage /\ ledger[i].fence \in Nat
    /\ \A i \in Places("settled") \cup Places("approved") \cup Places("completed") :
            ledger[i].on \in Places("requested")
    /\ \A i \in Places("completed") : ledger[i].stage = ledger[ledger[i].on].stage
    /\ consumed \subseteq Places("requested")
    /\ granting \in Places("requested") \cup {Unset}

\* The steps from an attempt's capture to its settlement, and beyond.
Unsettled == {"gates", "consume", "execute", "admit", "deny", "settle"}
Attempting == Unsettled \cup {"complete", "project", "anchor"}

CommandInv ==
    /\ cmd.pc \in Attempting => cmd.attempt \in Places("requested")
    /\ cmd.pc \in Unsettled => ~Has("settled", cmd.attempt)
    /\ cmd.pc = "complete" =>
        \E j \in Places("settled") : /\ ledger[j].on = cmd.attempt
                                     /\ Advances(ledger[cmd.attempt].stage, ledger[j].status)
    /\ cmd.pc \in {"project", "anchor"} => ledger[cmd.attempt].stage \in Cursor
    /\ cmd.pc \in {"idle", "gates", "consume", "execute", "deny", "route", "lease", "approve"}
            => cmd.status = Unset
    /\ cmd.pc \in {"admit", "settle"} => cmd.status # Unset
    /\ (cmd.pc = "write" /\ cmd.status # Unset) =>
        /\ cmd.attempt \in Places("requested") /\ ledger[cmd.attempt].stage \in Cursor
        /\ cmd.copy.completed = Cursor

\* An attempt was captured when its stage was due.
Due(i) ==
    \A s \in 1..(ledger[i].stage - 1) :
        /\ \E j \in EarlierThan(i, "completed") : ledger[j].stage = s
        /\ s \in GateAfter => \E j \in EarlierThan(i, "gate_passed") : ledger[j].stage = s

Earned ==
    /\ Cursor \subseteq Stage /\ Prefix(Cursor)
    /\ \A i \in Places("requested") : Due(i)
    /\ \A i, j \in Places("settled") : ledger[i].on = ledger[j].on => i = j
    /\ \A i \in Places("completed") : \E j \in EarlierThan(i, "settled") :
        ledger[j].on = ledger[i].on /\ Advances(ledger[i].stage, ledger[j].status)

\* Unless the manifest was written from a stale reading, it has the newest fence, and
\* so has the attempt that is about to be settled.
Newest(fence) == \A t \in Token : minted[t] <= fence

FenceInv ==
    raced \/ /\ Newest(manifest.fence)
             /\ cmd.pc \in Unsettled => Newest(ledger[cmd.attempt].fence)

SessionInv == Typed /\ Refers /\ Earned /\ ManifestInv /\ CommandInv /\ FenceInv

---------------------------------------------------------------------------
(* Records at the end of the ledger.                                       *)

\* One more record, and the others where they were.
Appended(lines, record, more) ==
    /\ more \in Seq(LinesOf(more))
    /\ Len(lines) \in Nat /\ Len(more) = Len(lines) + 1
    /\ \A i \in 1..Len(lines) : more[i] = lines[i]
    /\ more[Len(lines) + 1] = record

\* A record that is appended is the last one, and the others stay.
LEMMA AppendedLine ==
    ASSUME NEW lines, lines \in Seq(LinesOf(lines)), NEW record
    PROVE  Appended(lines, record, Append(lines, record))
<1>. DEFINE more == Append(lines, record)
            S == LinesOf(lines) \cup {record}
<1>1. lines \in Seq(S)
  <2>1. LinesOf(lines) \subseteq S
    OBVIOUS
  <2>. QED BY <2>1
<1>2. /\ more \in Seq(S) /\ Len(more) = Len(lines) + 1
      /\ \A i \in 1..Len(lines) : more[i] = lines[i]
      /\ more[Len(lines) + 1] = record
      /\ Len(lines) \in Nat
  BY <1>1
<1>3. DOMAIN more = 1..Len(more) /\ Len(more) \in Nat /\ more \in [1..Len(more) -> S]
  BY <1>2, LenProperties
<1>4. more \in [1..Len(more) -> LinesOf(more)]
  BY <1>3 DEF LinesOf
<1>5. more \in Seq(LinesOf(more))
  BY <1>3, <1>4, SeqDef
<1>. QED BY <1>2, <1>5 DEF Appended

\* The commands that write a record, and the record.
Records(record) ==
    \/ (\E t \in Token : RunCapture(t)) /\ record = Requested(Current, manifest.fence)
    \/ /\ \E t \in Token : \E a \in Places("requested") :
            SettleLate(t, a) /\ record = Of("expired", a)
    \/ Execute /\ record = Of("executed", cmd.attempt)
    \/ RecordAdmission /\ record = Of("admitted", cmd.attempt)
    \/ RecordDenial /\ record = Of("denied", cmd.attempt)
    \/ RecordSettlement /\ record = Settled(cmd.attempt, cmd.status)
    \/ RecordCompletion /\ record = Completed(cmd.attempt)
    \/ GrantAppend /\ record = Of("approved", granting)
    \/ RecordApproval /\ record = Passed(cmd.attempt)
    \/ \E stage \in GateAfter : ConsoleApprove(stage) /\ record = Passed(stage)

\* The steps that write none.
Silent ==
    \/ \E t \in Token : RunResume(t) \/ RenewLease(t)
    \/ \E t \in Token : \E a \in Places("requested") :
            \E status \in {"succeeded", "skipped", "failed"} :
                Settle(t, a, status) \/ SettleAgain(t, a, status)
    \/ Gates \/ ConsumeApproval \/ (Execute /\ UNCHANGED ledger)
    \/ ReadLines \/ SkipProjection \/ ReadProjection \/ WriteManifest
    \/ \E a \in Places("requested") : GrantRead(a) \/ DeadlinePasses(a)
    \/ WriteLease \/ (\E stage \in GateAfter : Approve(stage)) \/ Continue \/ WriteRouted
    \/ \E status \in {"aborted", "completed"} : End(status)
    \/ ConsoleControl \/ ConsoleRead \/ ConsoleWrite \/ LeaseLapses \/ HolderDies

\* Every step writes one record or none.
LEMMA StepWrites ==
    ASSUME SessionNext
    PROVE  \/ Silent /\ ledger' = ledger
           \/ \E record : Records(record) /\ ledger' = Append(ledger, record)
<1>1. CASE Run
  BY <1>1 DEF Run, RunCapture, RunResume, Silent, Records, Write
<1>2. CASE Settling
  <2>1. PICK t \in Token, a \in Places("requested") :
            \/ SettleLate(t, a)
            \/ \E status \in {"succeeded", "skipped", "failed"} :
                Settle(t, a, status) \/ SettleAgain(t, a, status)
    BY <1>2 DEF Settling
  <2>2. CASE SettleLate(t, a)
    <3>1. ledger' = Append(ledger, Of("expired", a))
      BY <2>2 DEF SettleLate, Write
    <3>. QED BY <2>2, <3>1 DEF Records
  <2>3. CASE \E status \in {"succeeded", "skipped", "failed"} :
                Settle(t, a, status) \/ SettleAgain(t, a, status)
    <3>1. ledger' = ledger
      BY <2>3 DEF Settle, SettleAgain
    <3>. QED BY <2>3, <3>1 DEF Silent
  <2>. QED BY <2>1, <2>2, <2>3
<1>3. CASE RunStep
  BY <1>3 DEF RunStep, Gates, ConsumeApproval, Execute, RecordAdmission, RecordDenial, Silent,
        Records, Write
<1>4. CASE SettleStep
  BY <1>4 DEF SettleStep, RecordSettlement, RecordCompletion, ReadLines, SkipProjection,
        ReadProjection, WriteManifest,
        Silent, Records, Write
<1>5. CASE (\E a \in Places("requested") : GrantRead(a) \/ DeadlinePasses(a)) \/ GrantAppend
  BY <1>5 DEF GrantRead, DeadlinePasses, GrantAppend, Silent, Records, Write
<1>6. CASE (\E t \in Token : RenewLease(t)) \/ WriteLease
  BY <1>6 DEF RenewLease, WriteLease, Silent
<1>7. CASE \E stage \in GateAfter : Approve(stage) \/ ConsoleApprove(stage)
  BY <1>7 DEF Approve, ConsoleApprove, Silent, Records, Write
<1>8. CASE RecordApproval \/ Continue \/ WriteRouted
  BY <1>8 DEF RecordApproval, Continue, WriteRouted, Silent, Records, Write
<1>9. CASE \E status \in {"aborted", "completed"} : End(status)
  BY <1>9 DEF End, Silent
<1>10. CASE ConsoleControl \/ ConsoleRead \/ ConsoleWrite \/ LeaseLapses \/ HolderDies
  BY <1>10 DEF ConsoleControl, ConsoleRead, ConsoleWrite, LeaseLapses, HolderDies, Silent
<1>. QED BY <1>1, <1>2, <1>3, <1>4, <1>5, <1>6, <1>7, <1>8, <1>9, <1>10 DEF SessionNext

\* The places of a kind, after one more record.
LEMMA PlacesAfter ==
    ASSUME Typed, NEW record, ledger' = Append(ledger, record)
    PROVE  /\ Appended(ledger, record, ledger')
           /\ \A kind : Places(kind)' =
                IF record.kind = kind THEN Places(kind) \cup {Len(ledger) + 1} ELSE Places(kind)
<1>1. Appended(ledger, record, ledger')
  BY AppendedLine DEF Typed
<1>. QED BY <1>1 DEF Appended, Places

\* The ledger only grows: what is on it stays where it is.
Grows ==
    /\ ledger' \in Seq(LinesOf(ledger'))
    /\ Len(ledger) \in Nat /\ Len(ledger') \in Nat
    /\ Len(ledger') = Len(ledger) \/ Len(ledger') = Len(ledger) + 1
    /\ \A i \in 1..Len(ledger) : ledger'[i] = ledger[i]
    /\ \A kind : Places(kind) \subseteq 1..Len(ledger) /\ Places(kind) \subseteq Places(kind)'
    /\ \A kind : \A i \in Places(kind) : ledger'[i] = ledger[i]
    /\ Cursor \subseteq Cursor'

\* A step appends at most one record to the ledger.
LEMMA LedgerGrows ==
    ASSUME Typed, SessionNext
    PROVE  Grows
<1>1. CASE ledger' = ledger
  <2>1. Len(ledger) \in Nat
    BY LenProperties DEF Typed
  <2>. QED BY <1>1, <2>1 DEF Grows, Typed, Places, LinesOf, Cursor
<1>2. CASE \E record : Records(record) /\ ledger' = Append(ledger, record)
  <2>1. PICK record : ledger' = Append(ledger, record)
    BY <1>2
  <2>2. Appended(ledger, record, ledger')
    BY <2>1, AppendedLine DEF Typed
  <2>3. /\ Len(ledger) \in Nat /\ Len(ledger') \in Nat
        /\ Len(ledger') = Len(ledger) + 1
        /\ \A i \in 1..Len(ledger) : ledger'[i] = ledger[i]
        /\ ledger' \in Seq(LinesOf(ledger'))
    BY <2>2 DEF Appended
  <2>4. /\ \A kind : Places(kind) \subseteq 1..Len(ledger) /\ Places(kind) \subseteq Places(kind)'
        /\ \A kind : \A i \in Places(kind) : ledger'[i] = ledger[i]
    BY <2>3 DEF Places
  <2>5. Cursor \subseteq Cursor'
    BY <2>4 DEF Cursor
  <2>. QED BY <2>3, <2>4, <2>5 DEF Grows
<1>. QED BY <1>1, <1>2, StepWrites

\* The statuses of a session.
LEMMA StatusSet ==
    Status = {"created", "routed", "executing", "paused", "blocked",
              "completed", "failed", "aborted"}
  BY DEF Status, Transitions

\* A manifest with one field replaced is a manifest.
LEMMA ManifestWith ==
    ASSUME NEW m \in Manifest
    PROVE  /\ \A status \in Status : [m EXCEPT !.status = status] \in Manifest
           /\ \A S \in SUBSET Stage : [m EXCEPT !.completed = S] \in Manifest
           /\ \A f \in Nat : \A t \in Nat :
                [m EXCEPT !.fence = f, !.token = t] \in Manifest
  BY DEF Manifest

\* The controls of the console are lists of statuses.
LEMMA ControlTargets ==
    ASSUME NEW from, NEW targets \in Control(from)
    PROVE  targets \in Seq(Status) /\ targets # << >>
<1>1. targets \in {<<"routed", "executing">>, <<"aborted">>, <<"executing">>, <<"paused">>}
  BY DEF Control
<1>2. "routed" \in Status /\ "executing" \in Status /\ "aborted" \in Status /\ "paused" \in Status
  BY StatusSet
<1>3. CASE targets = <<"routed", "executing">>
  BY <1>2, <1>3
<1>4. CASE targets = <<"aborted">>
  BY <1>2, <1>4
<1>5. CASE targets = <<"executing">>
  BY <1>2, <1>5
<1>6. CASE targets = <<"paused">>
  BY <1>2, <1>6
<1>. QED BY <1>1, <1>3, <1>4, <1>5, <1>6

\* Which steps write what.
LEMMA Frames ==
    ASSUME SessionNext
    PROVE  /\ \/ UNCHANGED <<manifest, raced>>
              \/ WriteManifest \/ WriteLease \/ WriteRouted \/ ConsoleWrite
           /\ minted' = minted \/ WriteLease
           /\ \/ UNCHANGED console
              \/ ConsoleControl \/ (\E stage \in GateAfter : ConsoleApprove(stage))
              \/ ConsoleRead \/ ConsoleWrite
           /\ consumed' = consumed \/ ConsumeApproval
           /\ \/ UNCHANGED granting
              \/ (\E a \in Places("requested") : GrantRead(a)) \/ GrantAppend
           /\ lapsed' = lapsed \/ LeaseLapses
           /\ overdue' = overdue \/ \E a \in Places("requested") : DeadlinePasses(a)
           /\ deaths' = deaths \/ HolderDies
<1>1. CASE Run
  BY <1>1 DEF Run, RunCapture, RunResume, Begin, timeVars
<1>2. CASE Settling
  BY <1>2 DEF Settling, SettleLate, Settle, SettleAgain, Begin, timeVars
<1>3. CASE RunStep
  BY <1>3 DEF RunStep, Gates, ConsumeApproval, Execute, RecordAdmission, RecordDenial, timeVars,
        counters
<1>4. CASE SettleStep
  BY <1>4 DEF SettleStep, RecordSettlement, RecordCompletion, ReadLines, SkipProjection,
        ReadProjection, WriteManifest,
        timeVars, counters
<1>5. CASE (\E a \in Places("requested") : GrantRead(a) \/ DeadlinePasses(a)) \/ GrantAppend
  BY <1>5 DEF GrantRead, DeadlinePasses, GrantAppend, timeVars, counters
<1>6. CASE (\E t \in Token : RenewLease(t)) \/ WriteLease
  BY <1>6 DEF RenewLease, WriteLease, Begin, timeVars, counters
<1>7. CASE \E stage \in GateAfter : Approve(stage) \/ ConsoleApprove(stage)
  BY <1>7 DEF Approve, ConsoleApprove, Begin, timeVars
<1>8. CASE RecordApproval \/ Continue \/ WriteRouted
  BY <1>8 DEF RecordApproval, Continue, WriteRouted, Begin, timeVars, counters
<1>9. CASE \E status \in {"aborted", "completed"} : End(status)
  BY <1>9 DEF End, Begin, timeVars
<1>10. CASE ConsoleControl \/ ConsoleRead \/ ConsoleWrite
  BY <1>10 DEF ConsoleControl, ConsoleRead, ConsoleWrite, timeVars, counters
<1>11. CASE LeaseLapses \/ HolderDies
  BY <1>11 DEF LeaseLapses, HolderDies, timeVars, counters
<1>. QED BY <1>1, <1>2, <1>3, <1>4, <1>5, <1>6, <1>7, <1>8, <1>9, <1>10, <1>11 DEF SessionNext

\* A minted lease stays.
Mints ==
    /\ minted' \in Seq(Nat)
    /\ Len(minted) \in Nat /\ Len(minted') \in Nat
    /\ Len(minted') >= Len(minted)
    /\ \A t \in Token : minted'[t] = minted[t]

\* A step mints at most one lease and keeps those that were minted.
LEMMA LeasesStay ==
    ASSUME Typed, ManifestInv, SessionNext
    PROVE  Mints
<1>0. Len(minted) \in Nat
  BY LenProperties DEF Typed
<1>1. CASE WriteLease
  <2>1. minted' = Append(minted, cmd.base.fence + 1)
    BY <1>1 DEF WriteLease
  <2>2. cmd.base.fence + 1 \in Nat
    BY <1>1 DEF WriteLease, CmdAt, ManifestInv, Rewrites, Sound, Manifest
  <2>. QED BY <2>1, <2>2, <1>0, AppendProperties DEF Typed, Mints, Token
<1>2. CASE minted' = minted
  BY <1>2, <1>0 DEF Typed, Mints, Token
<1>. QED BY <1>1, <1>2, Frames

\* The steps that move the command, but for those that end it.
Moves ==
    \/ \E t \in Token : RunResume(t) \/ RenewLease(t)
    \/ \E t \in Token : \E a \in Places("requested") :
            \E status \in {"succeeded", "skipped", "failed"} :
                Settle(t, a, status) \/ SettleAgain(t, a, status)
    \/ Gates \/ ConsumeApproval \/ Execute \/ RecordAdmission \/ RecordDenial
    \/ RecordSettlement \/ RecordCompletion \/ ReadLines \/ ReadProjection
    \/ (\E stage \in GateAfter : Approve(stage)) \/ RecordApproval
    \/ Continue \/ WriteRouted
    \/ \E status \in {"aborted", "completed"} : End(status)

\* Any other step leaves the command, or ends it: it writes, or skips the
\* writing, or the process dies.
LEMMA CommandEnds ==
    ASSUME SessionNext
    PROVE  \/ Moves \/ UNCHANGED cmd
           \/ WriteManifest \/ SkipProjection \/ WriteLease \/ HolderDies
<1>1. CASE Run \/ Settling
  BY <1>1 DEF Run, Settling, RunCapture, SettleLate, Moves
<1>2. CASE RunStep \/ SettleStep
  BY <1>2 DEF RunStep, SettleStep, Moves
<1>3. CASE (\E a \in Places("requested") : GrantRead(a) \/ DeadlinePasses(a)) \/ GrantAppend
  BY <1>3 DEF GrantRead, DeadlinePasses, GrantAppend
<1>4. CASE (\E t \in Token : RenewLease(t)) \/ WriteLease
  BY <1>4 DEF Moves
<1>5. CASE \E stage \in GateAfter : Approve(stage) \/ ConsoleApprove(stage)
  BY <1>5 DEF Moves, ConsoleApprove
<1>6. CASE RecordApproval \/ Continue \/ WriteRouted
                \/ \E status \in {"aborted", "completed"} : End(status)
  BY <1>6 DEF Moves
<1>7. CASE ConsoleControl \/ ConsoleRead \/ ConsoleWrite \/ LeaseLapses \/ HolderDies
  BY <1>7 DEF ConsoleControl, ConsoleRead, ConsoleWrite, LeaseLapses
<1>. QED BY <1>1, <1>2, <1>3, <1>4, <1>5, <1>6, <1>7 DEF SessionNext

\* The command that ends leaves nothing.
LEMMA CommandMoves ==
    ASSUME SessionNext
    PROVE  Moves \/ UNCHANGED cmd \/ cmd' = NoCommand
  BY CommandEnds DEF WriteManifest, SkipProjection, WriteLease, HolderDies, Return

\* Places on a ledger that are not none have a last one.
LEMMA LastPlace ==
    ASSUME NEW n \in Nat, NEW S, S \subseteq 1..n, S # {}
    PROVE  \E m \in S : \A i \in S : i <= m
<1>. DEFINE Left == {k \in Nat : \E i \in S : i + k = n}
<1>1. PICK s \in S : s \in 1..n
  OBVIOUS
<1>2. n - s \in Left
  BY <1>1
<1>3. PICK k \in Left : \A j \in Left : ~(<<j, k>> \in OpToRel(<, Nat))
  BY <1>2, WFMin, NatLessThanWellFounded, Zenon
<1>4. PICK m \in S : m + k = n
  OBVIOUS
<1>5. ASSUME NEW i \in S
      PROVE  i <= m
  <2>1. i \in 1..n /\ m \in 1..n /\ k \in Nat /\ n - i \in Nat /\ n - i \in Left
    OBVIOUS
  <2>2. ~(<<n - i, k>> \in {pair \in Nat \X Nat : pair[1] < pair[2]})
    BY <1>3, <2>1 DEF OpToRel
  <2>3. ~(n - i < k)
    BY <2>1, <2>2
  <2>. QED BY <2>1, <2>3, <1>4
<1>. QED BY <1>5

\* The latest of the open attempts is one of them.
LEMMA LatestOpen ==
    ASSUME Typed, NEW fence, Open(fence) # {}
    PROVE  Latest(Open(fence)) \in Open(fence) /\ Open(fence) \subseteq Places("requested")
<1>1. Len(ledger) \in Nat /\ Open(fence) \subseteq Places("requested")
        /\ Open(fence) \subseteq 1..Len(ledger)
  BY LenProperties DEF Typed, Open, Places
<1>2. \E a \in Open(fence) : \A b \in Open(fence) : b <= a
  BY <1>1, LastPlace
<1>. QED BY <1>1, <1>2 DEF Latest

\* A command and a request are built of what was read.
LEMMA CommandWith ==
    ASSUME NEW c \in Command
    PROVE  /\ \A step \in CommandPc : [c EXCEPT !.pc = step] \in Command
           /\ \A step \in CommandPc : \A status \in Outcome :
                [c EXCEPT !.pc = step, !.status = status] \in Command
           /\ \A step \in CommandPc : \A a \in Nat :
                [c EXCEPT !.pc = step, !.attempt = a] \in Command
           /\ \A step \in CommandPc : \A a \in Nat : \A status \in Outcome :
                [c EXCEPT !.pc = step, !.attempt = a, !.status = status] \in Command
           /\ \A step \in CommandPc : \A base, copy \in Manifest :
                [c EXCEPT !.pc = step, !.base = base, !.copy = copy] \in Command
           /\ \A step \in CommandPc : \A a \in Nat : \A base, copy \in Manifest :
                [c EXCEPT !.pc = step, !.attempt = a, !.base = base, !.copy = copy] \in Command
           /\ \A step \in CommandPc : \A base \in Manifest :
                [c EXCEPT !.pc = step, !.base = base] \in Command
  BY DEF Command

\* The absent command has the type of a command.
LEMMA NoCommandType == NoCommand \in Command
  BY DEF NoCommand, Command, CommandPc

\* Every step keeps the type of the command.
LEMMA CommandTyped ==
    ASSUME SessionInv, SessionNext
    PROVE  cmd' \in Command
<1>. USE DEF SessionInv
<1>1. /\ cmd \in Command /\ manifest \in Manifest /\ Cursor \in SUBSET Stage
      /\ Places("requested") \subseteq Nat /\ Stage \subseteq Nat /\ GateAfter \subseteq Nat
  BY StagesAssumption DEF Typed, Earned, Places, Stage
<1>2. {"succeeded", "skipped", "failed", "rejected"} = Outcome
  BY DEF Outcome
<1>3. CASE UNCHANGED cmd
  BY <1>1, <1>3
<1>4. CASE cmd' = NoCommand
  BY <1>4, NoCommandType
<1>5. CASE \E t \in Token : RunResume(t)
  <2>1. PICK t \in Token : RunResume(t)
    BY <1>5
  <2>2. /\ Open(manifest.fence) # {}
        /\ cmd' = [NoCommand EXCEPT !.pc = "gates", !.attempt = Latest(Open(manifest.fence))]
    BY <2>1 DEF RunResume
  <2>3. Latest(Open(manifest.fence)) \in Nat
    BY <2>2, <1>1, LatestOpen
  <2>. QED BY <2>2, <2>3, NoCommandType, CommandWith DEF CommandPc
<1>6. CASE Gates \/ ConsumeApproval \/ RecordAdmission \/ RecordCompletion \/ RecordApproval
  <2>1. PICK step \in CommandPc : cmd' = [cmd EXCEPT !.pc = step]
    BY <1>6 DEF Gates, ConsumeApproval, RecordAdmission, RecordCompletion, RecordApproval, Goto,
        CommandPc
  <2>. QED BY <2>1, <1>1, CommandWith
<1>7. CASE RecordSettlement
  <2>1. cmd' = NoCommand \/ cmd' = [cmd EXCEPT !.pc = "complete"]
    BY <1>7 DEF RecordSettlement, Goto, Return
  <2>. QED BY <2>1, <1>1, <1>4, CommandWith DEF CommandPc
<1>8. CASE Execute
  <2>1. \/ cmd' = [cmd EXCEPT !.pc = "deny"]
        \/ \E status \in {"succeeded", "failed"} :
                cmd' = [cmd EXCEPT !.pc = "admit", !.status = status]
    BY <1>8 DEF Execute, Goto
  <2>2. CASE cmd' = [cmd EXCEPT !.pc = "deny"]
    BY <2>2, <1>1, CommandWith DEF CommandPc
  <2>3. CASE \E status \in {"succeeded", "failed"} :
                cmd' = [cmd EXCEPT !.pc = "admit", !.status = status]
    <3>1. PICK status \in {"succeeded", "failed"} :
            cmd' = [cmd EXCEPT !.pc = "admit", !.status = status]
      BY <2>3
    <3>2. status \in Outcome /\ "admit" \in CommandPc
      BY DEF Outcome, CommandPc
    <3>. QED BY <3>1, <3>2, <1>1, CommandWith
  <2>. QED BY <2>1, <2>2, <2>3
<1>9. CASE RecordDenial
  BY <1>9, <1>1, <1>2, CommandWith DEF RecordDenial, CommandPc
<1>10. CASE ReadProjection
  <2>1. [manifest EXCEPT !.completed = Cursor] \in Manifest
    BY <1>1, ManifestWith
  <2>. QED BY <1>10, <2>1, <1>1, CommandWith DEF ReadProjection, CommandPc
<1>11. CASE \E t \in Token : \E a \in Places("requested") :
            \E status \in {"succeeded", "skipped", "failed"} :
                Settle(t, a, status) \/ SettleAgain(t, a, status)
  <2>1. PICK t \in Token, a \in Places("requested"), status \in {"succeeded", "skipped", "failed"} :
            Settle(t, a, status) \/ SettleAgain(t, a, status)
    BY <1>11
  <2>2. a \in Nat /\ status \in Outcome
    BY <1>1 DEF Outcome
  <2>3. CASE Settle(t, a, status)
    <3>1. cmd' = [NoCommand EXCEPT !.pc = "settle", !.attempt = a, !.status = status]
      BY <2>3 DEF Settle
    <3>. QED BY <3>1, <2>2, NoCommandType, CommandWith DEF CommandPc
  <2>4. CASE SettleAgain(t, a, status)
    <3>1. PICK step \in {"project", "complete"} :
            cmd' = [NoCommand EXCEPT !.attempt = a, !.status = status,
                                     !.pc = step]
      BY <2>4 DEF SettleAgain
    <3>. QED BY <3>1, <2>2 DEF NoCommand, Command, CommandPc
  <2>. QED BY <2>1, <2>3, <2>4
<1>12. CASE \E stage \in GateAfter : Approve(stage)
  <2>1. PICK stage \in GateAfter : Approve(stage)
    BY <1>12
  <2>2. stage \in Nat
    BY <1>1
  <2>3. cmd' = [NoCommand EXCEPT !.pc = "approve", !.attempt = stage, !.base = manifest,
                                 !.copy = manifest]
    BY <2>1 DEF Approve
  <2>. QED BY <2>2, <2>3, <1>1, NoCommandType, CommandWith DEF CommandPc
<1>13. CASE (\E t \in Token : RenewLease(t)) \/ Continue
                \/ \E status \in {"aborted", "completed"} : End(status)
  <2>1. "executing" \in Status /\ "aborted" \in Status /\ "completed" \in Status
    BY StatusSet
  <2>2. PICK step \in CommandPc, copy \in Manifest :
            cmd' = [NoCommand EXCEPT !.pc = step, !.base = manifest, !.copy = copy]
    BY <1>13, <2>1, <1>1, ManifestWith DEF RenewLease, Continue, End, Rewriting, CommandPc
  <2>. QED BY <2>2, <1>1, NoCommandType, CommandWith
<1>14. CASE WriteRouted
  <2>1. "routed" \in Status
    BY StatusSet
  <2>2. [cmd.base EXCEPT !.status = "routed"] \in Manifest
    BY <1>14, <2>1, ManifestWith DEF WriteRouted, CmdAt, ManifestInv, Rewrites, Sound
  <2>. QED BY <1>14, <2>2, <1>1, CommandWith DEF WriteRouted, CommandPc
<1>15. CASE ReadLines
  <2>1. Len(ledger) \in Nat
    BY LenProperties DEF Typed
  <2>. QED BY <1>15, <2>1, <1>1 DEF ReadLines, Command, CommandPc
<1>. QED BY <1>3, <1>4, <1>5, <1>6, <1>7, <1>8, <1>9, <1>10, <1>11, <1>12, <1>13, <1>14, <1>15,
             CommandMoves DEF Moves

\* Every step keeps the type of the manifest.
LEMMA ManifestTyped ==
    ASSUME SessionInv, SessionNext
    PROVE  manifest' \in Manifest
<1>1. manifest \in Manifest /\ console \in Request
  BY DEF SessionInv, Typed
<1>2. CASE WriteManifest
  BY <1>2 DEF WriteManifest, CmdAt, SessionInv, ManifestInv, Rewrites, Sound
<1>3. CASE WriteLease
  <2>1. cmd.base \in Manifest
    BY <1>3 DEF WriteLease, CmdAt, SessionInv, ManifestInv, Rewrites, Sound
  <2>2. manifest' = [cmd.base EXCEPT !.fence = cmd.base.fence + 1, !.token = Len(minted')]
    BY <1>3, <2>1 DEF WriteLease, Manifest
  <2>3. cmd.base.fence + 1 \in Nat /\ Len(minted') \in Nat
    BY <2>1, LeasesStay DEF Manifest, Mints, SessionInv
  <2>. QED BY <2>1, <2>2, <2>3, ManifestWith
<1>4. CASE WriteRouted
  <2>1. cmd.base \in Manifest
    BY <1>4 DEF WriteRouted, CmdAt, SessionInv, ManifestInv, Rewrites, Sound
  <2>2. "routed" \in Status
    BY StatusSet
  <2>. QED BY <1>4, <2>1, <2>2, ManifestWith DEF WriteRouted
<1>5. CASE ConsoleWrite
  <2>1. console.base \in Manifest
    BY <1>5 DEF ConsoleWrite, SessionInv, ManifestInv, Sound
  <2>2. Head(console.targets) \in Status
    BY <1>1, <1>5 DEF ConsoleWrite, SessionInv, Typed, Request
  <2>. QED BY <1>5, <2>1, <2>2, ManifestWith DEF ConsoleWrite
<1>. QED BY <1>1, <1>2, <1>3, <1>4, <1>5, Frames

\* A request of the console is typed, and has a status to write.
Served(k) == k \in Request /\ (k.pc # "idle" => k.targets # << >>)

\* A request that the console begins to serve is well typed.
LEMMA ServingTyped ==
    ASSUME NEW targets \in Seq(Status), targets # << >>, Serving(targets), manifest \in Manifest
    PROVE  Served(console')
<1>1. console' = [pc |-> "waiting", targets |-> targets, seen |-> manifest.status, base |-> Unset]
  BY DEF Serving, NoRequest
<1>2. manifest.status \in Status
  BY DEF Manifest
<1>. QED BY <1>1, <1>2 DEF Served, Request

\* Every step keeps the type of the console's request.
LEMMA ConsoleTyped ==
    ASSUME SessionInv, SessionNext
    PROVE  Served(console')
<1>1. Served(console) /\ manifest \in Manifest
  BY DEF SessionInv, Typed, Served
<1>2. CASE ConsoleControl
  <2>1. PICK targets \in Control(manifest.status) : Serving(targets)
    BY <1>2 DEF ConsoleControl
  <2>. QED BY <2>1, <1>1, ControlTargets, ServingTyped
<1>3. CASE \E stage \in GateAfter : ConsoleApprove(stage)
  <2>1. UNCHANGED console \/ Serving(<<"executing">>)
    BY <1>3 DEF ConsoleApprove
  <2>2. <<"executing">> \in Seq(Status) /\ <<"executing">> # << >>
    BY StatusSet
  <2>. QED BY <2>1, <2>2, <1>1, ServingTyped
<1>4. CASE ConsoleRead
  <2>1. console' = [pc |-> "writing", targets |-> console.targets, seen |-> console.seen,
                    base |-> manifest]
    BY <1>4, <1>1 DEF ConsoleRead, Served, Request
  <2>. QED BY <2>1, <1>1, <1>4 DEF ConsoleRead, Served, Request
<1>5. CASE ConsoleWrite
  <2>1. console.targets \in Seq(Status) /\ console.targets # << >>
    BY <1>5, <1>1 DEF ConsoleWrite, Served, Request
  <2>2. CASE Len(console.targets) = 1
    <3>1. console' = [pc |-> "idle", targets |-> << >>, seen |-> Unset, base |-> Unset]
      BY <2>2, <1>5 DEF ConsoleWrite, NoRequest
    <3>. QED BY <3>1 DEF Served, Request
  <2>3. CASE Len(console.targets) # 1
    <3>1. console' = [pc |-> "waiting", targets |-> Tail(console.targets),
                      seen |-> Head(console.targets), base |-> Unset]
      BY <2>3, <1>5 DEF ConsoleWrite, NoRequest
    <3>2. /\ Tail(console.targets) \in Seq(Status) /\ Head(console.targets) \in Status
          /\ Len(Tail(console.targets)) = Len(console.targets) - 1
          /\ Len(console.targets) \in Nat /\ Len(console.targets) # 0
      BY <2>1
    <3>3. Tail(console.targets) # << >>
      <4>1. Len(Tail(console.targets)) # 0
        BY <3>2, <2>3
      <4>. DEFINE rest == Tail(console.targets)
      <4>2. Len(rest) # 0
        BY <4>1
      <4>. HIDE DEF rest
      <4>3. rest # << >>
        BY <4>2
      <4>. QED BY <4>3 DEF rest
    <3>. QED BY <3>1, <3>2, <3>3 DEF Served, Request
  <2>. QED BY <2>2, <2>3
<1>. QED BY <1>1, <1>2, <1>3, <1>4, <1>5, Frames DEF Served

\* Every step keeps the types.
LEMMA TypedStep ==
    ASSUME SessionInv, SessionNext
    PROVE  Typed'
<1>0. USE DEF SessionInv
<1>1. /\ Grows /\ Mints
  BY LedgerGrows, LeasesStay
<1>2. raced' \in BOOLEAN
  BY Frames DEF Typed, WriteManifest, WriteLease, WriteRouted, ConsoleWrite
<1>3. deaths' \in Nat
  BY Frames DEF Typed, HolderDies
<1>4. lapsed' \in 0..Len(minted')
  BY Frames, <1>1 DEF Typed, LeaseLapses, Mints
<1>5. overdue' \in 0..Len(ledger')
  BY Frames, <1>1 DEF Typed, DeadlinePasses, Grows, Places
<1>. QED BY <1>1, <1>2, <1>3, <1>4, <1>5, CommandTyped, ManifestTyped, ConsoleTyped
        DEF Typed, Grows, Mints, Served

---------------------------------------------------------------------------
(* What the records refer to, and that the cursor is earned.               *)

\* The new record refers to a request, and names its stage.
LEMMA RecordRefers ==
    ASSUME SessionInv, NEW record, Records(record)
    PROVE  /\ record.kind = "requested" =>
                record.stage = Current /\ Current \in Stage /\ record.fence \in Nat
           /\ record.kind \in {"settled", "approved", "completed"} =>
                record.on \in Places("requested")
           /\ record.kind = "completed" => record.stage = ledger[record.on].stage
<1>. USE DEF SessionInv
<1>1. CASE (\E t \in Token : RunCapture(t)) /\ record = Requested(Current, manifest.fence)
  BY <1>1 DEF RunCapture, Requested, Typed, Manifest
<1>2. CASE \E t \in Token : \E a \in Places("requested") :
            SettleLate(t, a) /\ record = Of("expired", a)
  BY <1>2 DEF Of
<1>3. CASE \E kind \in {"executed", "admitted", "denied"} : record = Of(kind, cmd.attempt)
  BY <1>3 DEF Of
<1>4. CASE RecordSettlement /\ record = Settled(cmd.attempt, cmd.status)
  BY <1>4 DEF RecordSettlement, Settled, CmdAt, CommandInv, Attempting, Unsettled
<1>5. CASE RecordCompletion /\ record = Completed(cmd.attempt)
  BY <1>5 DEF RecordCompletion, Completed, CmdAt, CommandInv, Attempting, Unsettled
<1>6. CASE GrantAppend /\ record = Of("approved", granting)
  BY <1>6 DEF GrantAppend, Of, Refers
<1>7. CASE \E stage : record = Passed(stage)
  BY <1>7 DEF Passed
<1>. QED BY <1>1, <1>2, <1>3, <1>4, <1>5, <1>6, <1>7 DEF Records

\* What is written by which command.
LEMMA RecordKinds ==
    ASSUME NEW record, Records(record)
    PROVE  /\ record.kind = "requested" =>
                \E t \in Token : RunCapture(t) /\ record = Requested(Current, manifest.fence)
           /\ record.kind = "settled" =>
                RecordSettlement /\ record = Settled(cmd.attempt, cmd.status)
           /\ record.kind = "completed" => RecordCompletion /\ record = Completed(cmd.attempt)
  BY DEF Records, Requested, Of, Settled, Completed, Passed

\* Every step keeps what refers to an attempt on a request.
LEMMA RefersStep ==
    ASSUME SessionInv, SessionNext
    PROVE  Refers'
<1>1. Grows /\ Refers
  BY LedgerGrows DEF SessionInv
<1>2. consumed' \subseteq Places("requested")'
  BY <1>1, Frames DEF ConsumeApproval, CmdAt, SessionInv, CommandInv,
     Attempting, Unsettled, Refers, Grows
<1>3. granting' \in Places("requested")' \cup {Unset}
  BY <1>1, Frames DEF GrantRead, GrantAppend, Refers, Grows
<1>4. CASE ledger' = ledger
  BY <1>1, <1>2, <1>3, <1>4 DEF Refers, Places
<1>5. CASE \E record : Records(record) /\ ledger' = Append(ledger, record)
  <2>1. PICK record : Records(record) /\ ledger' = Append(ledger, record)
    BY <1>5
  <2>. DEFINE n == Len(ledger) + 1
  <2>2. /\ ledger'[n] = record
        /\ \A kind : Places(kind)' =
             IF record.kind = kind THEN Places(kind) \cup {n} ELSE Places(kind)
    BY <2>1, PlacesAfter DEF SessionInv, Appended
  <2>3. \A i \in Places("requested")' : ledger'[i].stage \in Stage /\ ledger'[i].fence \in Nat
    <3>. TAKE i \in Places("requested")'
    <3>1. CASE i \in Places("requested")
      BY <3>1, <1>1 DEF Refers, Grows
    <3>2. CASE i = n /\ record.kind = "requested"
      BY <3>2, <2>1, <2>2, RecordRefers
    <3>. QED BY <3>1, <3>2, <2>2
  <2>4. \A i \in Places("settled")' \cup Places("approved")' \cup Places("completed")' :
            ledger'[i].on \in Places("requested")'
    <3>. TAKE i \in Places("settled")' \cup Places("approved")' \cup Places("completed")'
    <3>1. CASE i \in Places("settled") \cup Places("approved") \cup Places("completed")
      <4>1. ledger'[i] = ledger[i]
        BY <3>1, <1>1 DEF Grows
      <4>. QED BY <3>1, <4>1, <1>1 DEF Refers, Grows
    <3>2. CASE i = n /\ record.kind \in {"settled", "approved", "completed"}
      BY <3>2, <2>1, <2>2, <1>1, RecordRefers DEF Grows
    <3>. QED BY <3>1, <3>2, <2>2
  <2>5. \A i \in Places("completed")' : ledger'[i].stage = ledger'[ledger'[i].on].stage
    <3>. TAKE i \in Places("completed")'
    <3>1. CASE i \in Places("completed")
      <4>1. ledger'[i] = ledger[i]
        BY <3>1, <1>1 DEF Grows
      <4>2. ledger[i].on \in Places("requested") /\ ledger[i].stage = ledger[ledger[i].on].stage
        BY <3>1, <1>1 DEF Refers
      <4>3. ledger'[ledger[i].on] = ledger[ledger[i].on]
        BY <4>2, <1>1 DEF Grows
      <4>. QED BY <4>1, <4>2, <4>3
    <3>2. CASE i = n /\ record.kind = "completed"
      <4>1. record.on \in Places("requested") /\ record.stage = ledger[record.on].stage
        BY <3>2, <2>1, RecordRefers
      <4>2. ledger'[record.on] = ledger[record.on]
        BY <4>1, <1>1 DEF Grows
      <4>. QED BY <3>2, <2>2, <4>1, <4>2
    <3>. QED BY <3>1, <3>2, <2>2
  <2>. QED BY <1>2, <1>3, <2>3, <2>4, <2>5 DEF Refers
<1>. QED BY <1>4, <1>5, StepWrites

\* The cursor grows by the stage that is completed.
LEMMA CursorStep ==
    ASSUME SessionInv, SessionNext
    PROVE  \/ Cursor' = Cursor
           \/ RecordCompletion /\ Cursor' = Cursor \cup {ledger[cmd.attempt].stage}
<1>1. CASE ledger' = ledger
  BY <1>1 DEF Cursor, Places
<1>2. CASE \E record : Records(record) /\ ledger' = Append(ledger, record)
  <2>1. PICK record : Records(record) /\ ledger' = Append(ledger, record)
    BY <1>2
  <2>2. /\ ledger'[Len(ledger) + 1] = record
        /\ \A i \in Places("completed") : ledger'[i] = ledger[i]
        /\ Places("completed")' = IF record.kind = "completed"
              THEN Places("completed") \cup {Len(ledger) + 1} ELSE Places("completed")
    BY <2>1, PlacesAfter, LedgerGrows DEF SessionInv, Appended, Grows
  <2>3. CASE record.kind # "completed"
    BY <2>2, <2>3 DEF Cursor
  <2>4. CASE record.kind = "completed"
    <3>1. RecordCompletion /\ record.stage = ledger[cmd.attempt].stage
      BY <2>1, <2>4, RecordKinds DEF Completed
    <3>. QED BY <2>2, <2>4, <3>1 DEF Cursor
  <2>. QED BY <2>3, <2>4
<1>. QED BY <1>1, <1>2, StepWrites

\* Stages are finitely many.
LEMMA StagesFinite ==
    ASSUME NEW S, S \subseteq Stage
    PROVE  IsFiniteSet(S)
<1>1. IsFiniteSet(1..NumStages)
  BY StagesAssumption, FS_Interval
<1>. QED BY <1>1, FS_Subset DEF Stage

\* A prefix and the next number are a prefix.
LEMMA PrefixGrows ==
    ASSUME NEW S, Prefix(S), S \subseteq Stage, NEW k \in Stage, 1..(k - 1) \subseteq S
    PROVE  Prefix(S \cup {k})
<1>. DEFINE c == Cardinality(S)
<1>1. IsFiniteSet(S) /\ c \in Nat
  <2>1. IsFiniteSet(S)
    BY StagesFinite
  <2>. QED BY <2>1, FS_CardinalityType
<1>2. CASE k \in S
  BY <1>2, S \cup {k} = S
<1>3. CASE k \notin S
  <2>1. S = 1..c /\ k \in Nat /\ k > 0
    BY StagesAssumption DEF Prefix, Stage
  <2>. HIDE DEF c
  <2>2. k = c + 1
    <3>1. k > c
      BY <2>1, <1>1, <1>3
    <3>2. CASE k = 1
      BY <3>1, <3>2, <1>1
    <3>3. CASE k # 1
      <4>1. k - 1 \in 1..(k - 1)
        BY <2>1, <3>3
      <4>. QED BY <4>1, <3>1, <2>1, <1>1
    <3>. QED BY <3>2, <3>3
  <2>3. S \cup {k} = 1..(c + 1)
    BY <2>1, <2>2, <1>1
  <2>4. Cardinality(1..(c + 1)) = c + 1
    BY <1>1, FS_Interval
  <2>. QED BY <2>3, <2>4 DEF Prefix
<1>. QED BY <1>2, <1>3

\* The stages below the current one are those of the cursor.
LEMMA CurrentStage ==
    ASSUME SessionInv
    PROVE  Current \in Nat /\ Cursor = 1..(Current - 1) /\ Current - 1 \in Nat
<1>1. IsFiniteSet(Cursor) /\ Cursor = 1..Cardinality(Cursor)
  BY StagesFinite DEF SessionInv, Earned, Prefix
<1>2. Cardinality(Cursor) \in Nat
  BY <1>1, FS_CardinalityType
<1>. QED BY <1>1, <1>2 DEF Current

\* The stages before that of an attempt are in the cursor.
LEMMA DueStages ==
    ASSUME SessionInv, NEW a \in Places("requested")
    PROVE  1..(ledger[a].stage - 1) \subseteq Cursor
  BY DEF SessionInv, Earned, Due, EarlierThan, Cursor

\* Every step keeps the cursor earned.
LEMMA EarnedStep ==
    ASSUME SessionInv, SessionNext
    PROVE  Earned'
<1>1. Grows /\ Refers /\ Earned
  BY LedgerGrows DEF SessionInv
<1>2. Cursor' \subseteq Stage /\ Prefix(Cursor')
  <2>1. CASE Cursor' = Cursor
    BY <2>1, <1>1 DEF Earned
  <2>2. CASE RecordCompletion /\ Cursor' = Cursor \cup {ledger[cmd.attempt].stage}
    <3>1. cmd.attempt \in Places("requested")
      BY <2>2 DEF RecordCompletion, CmdAt, SessionInv, CommandInv, Attempting, Unsettled
    <3>2. ledger[cmd.attempt].stage \in Stage /\ 1..(ledger[cmd.attempt].stage - 1) \subseteq Cursor
      BY <3>1, <1>1, DueStages DEF Refers
    <3>. QED BY <2>2, <3>2, <1>1, PrefixGrows DEF Earned
  <2>. QED BY <2>1, <2>2, CursorStep
<1>3. CASE ledger' = ledger
  <2>1. \A kind : Places(kind)' = Places(kind)
    BY <1>3 DEF Places
  <2>2. \A i : Due(i) => Due(i)'
    BY <2>1, <1>3 DEF Due, EarlierThan
  <2>3. /\ \A i, j \in Places("settled")' : ledger'[i].on = ledger'[j].on => i = j
        /\ \A i \in Places("completed")' : \E j \in EarlierThan(i, "settled")' :
              ledger'[j].on = ledger'[i].on /\ Advances(ledger'[i].stage, ledger'[j].status)
    BY <2>1, <1>3, <1>1 DEF Earned, EarlierThan
  <2>. QED BY <2>1, <2>2, <2>3, <1>1, <1>2 DEF Earned
<1>4. CASE \E record : Records(record) /\ ledger' = Append(ledger, record)
  <2>1. PICK record : Records(record) /\ ledger' = Append(ledger, record)
    BY <1>4
  <2>. DEFINE n == Len(ledger) + 1
  <2>2. /\ ledger'[n] = record
        /\ \A kind : Places(kind)' =
             IF record.kind = kind THEN Places(kind) \cup {n} ELSE Places(kind)
        /\ \A kind : \A i \in Places(kind) : i < n /\ i \in Nat
    BY <2>1, <1>1, PlacesAfter DEF SessionInv, Appended, Grows
  <2>3. ASSUME NEW i \in Places("requested")'
        PROVE  Due(i)'
    <3>1. CASE i \in Places("requested")
      <4>1. Due(i) /\ ledger'[i] = ledger[i]
        BY <3>1, <1>1 DEF Earned, Grows
      <4>2. \A kind : EarlierThan(i, kind) \subseteq EarlierThan(i, kind)'
        BY <1>1 DEF EarlierThan, Grows
      <4>3. \A kind : \A j \in EarlierThan(i, kind) : ledger'[j] = ledger[j]
        BY <1>1 DEF EarlierThan, Grows
      <4>. QED BY <4>1, <4>2, <4>3 DEF Due
    <3>2. CASE i = n /\ record.kind = "requested"
      <4>1. /\ ~Blocked /\ ledger'[i].stage = Current
        BY <3>2, <2>1, <2>2, RecordKinds DEF RunCapture, Requested
      <4>2. /\ \A kind : Places(kind) \subseteq EarlierThan(i, kind)'
            /\ \A kind : \A j \in Places(kind) : ledger'[j] = ledger[j]
        BY <3>2, <2>2, <1>1 DEF EarlierThan, Grows
      <4>3. ASSUME NEW s \in 1..(Current - 1)
            PROVE  /\ \E j \in Places("completed") : ledger[j].stage = s
                   /\ s \in GateAfter => \E j \in Places("gate_passed") : ledger[j].stage = s
        <5>1. PICK j \in Places("completed") : ledger[j].stage = s
          BY CurrentStage DEF Cursor
        <5>2. ASSUME s \in GateAfter
              PROVE  \E q \in Places("gate_passed") : ledger[q].stage = s
          <6>1. CASE s = Current - 1
            BY <6>1, <5>2, <4>1 DEF Blocked
          <6>2. CASE s # Current - 1
            <7>1. Current - 1 \in Cursor /\ s < Current - 1 /\ s \in Nat /\ s > 0
              BY <6>2, CurrentStage
            <7>2. PICK q \in Places("completed") : ledger[q].stage = Current - 1
              BY <7>1 DEF Cursor
            <7>3. /\ ledger[q].on \in Places("requested")
                  /\ ledger[ledger[q].on].stage = Current - 1
              BY <7>2, <1>1 DEF Refers
            <7>4. s \in 1..(Current - 1 - 1)
              BY <7>1, CurrentStage
            <7>. QED BY <7>3, <7>4, <5>2, <1>1 DEF Earned, Due, EarlierThan
          <6>. QED BY <6>1, <6>2
        <5>. QED BY <5>1, <5>2
      <4>. QED BY <4>1, <4>2, <4>3 DEF Due
    <3>. QED BY <3>1, <3>2, <2>2
  <2>4. ASSUME NEW i \in Places("settled")', NEW j \in Places("settled")',
               ledger'[i].on = ledger'[j].on
        PROVE  i = j
    <3>1. CASE i \in Places("settled") /\ j \in Places("settled")
      BY <3>1, <2>4, <1>1 DEF Earned, Grows
    <3>2. ASSUME record.kind = "settled", NEW q \in Places("settled")
          PROVE  ledger[q].on # record.on
      <4>1. RecordSettlement /\ record.on = cmd.attempt
        BY <3>2, <2>1, RecordKinds DEF Settled
      <4>2. ~Has("settled", cmd.attempt)
        BY <4>1 DEF RecordSettlement, CmdAt, SessionInv, CommandInv, Unsettled
      <4>. QED BY <4>1, <4>2 DEF Has
    <3>3. CASE record.kind = "settled"
      <4>1. \A q \in Places("settled") : ledger'[q].on # record.on
        BY <3>2, <3>3, <1>1 DEF Grows
      <4>. QED BY <4>1, <3>1, <2>2, <2>4
    <3>. QED BY <3>1, <3>3, <2>2
  <2>5. ASSUME NEW i \in Places("completed")'
        PROVE  \E j \in EarlierThan(i, "settled")' :
                    ledger'[j].on = ledger'[i].on /\ Advances(ledger'[i].stage, ledger'[j].status)
    <3>1. CASE i \in Places("completed")
      <4>1. PICK j \in EarlierThan(i, "settled") :
                ledger[j].on = ledger[i].on /\ Advances(ledger[i].stage, ledger[j].status)
        BY <3>1, <1>1 DEF Earned
      <4>2. ledger'[i] = ledger[i] /\ ledger'[j] = ledger[j] /\ j \in EarlierThan(i, "settled")'
        BY <3>1, <4>1, <1>1 DEF Grows, EarlierThan
      <4>. QED BY <4>1, <4>2
    <3>2. CASE i = n /\ record.kind = "completed"
      <4>1. RecordCompletion /\ record = Completed(cmd.attempt)
        BY <3>2, <2>1, RecordKinds
      <4>2. PICK j \in Places("settled") : /\ ledger[j].on = cmd.attempt
                                          /\ Advances(ledger[cmd.attempt].stage, ledger[j].status)
        BY <4>1 DEF RecordCompletion, CmdAt, SessionInv, CommandInv
      <4>3. ledger'[j] = ledger[j] /\ j \in EarlierThan(i, "settled")'
        BY <3>2, <2>2, <1>1 DEF Grows, EarlierThan
      <4>. QED BY <3>2, <2>2, <4>1, <4>2, <4>3 DEF Completed
    <3>. QED BY <3>1, <3>2, <2>2
  <2>. QED BY <1>2, <2>3, <2>4, <2>5 DEF Earned
<1>. QED BY <1>3, <1>4, StepWrites

---------------------------------------------------------------------------
(* The command, step by step.                                              *)

\* The command goes on about its attempt, or begins about one, or rewrites.
On(step, status) ==
    cmd'.pc = step /\ cmd'.attempt = cmd.attempt /\ cmd'.status = status
About(step, a, status) ==
    cmd'.pc = step /\ cmd'.attempt = a /\ cmd'.status = status
Writing(step, copy) ==
    cmd'.pc = step /\ cmd'.status = Unset /\ cmd'.base = manifest /\ cmd'.copy = copy
Kept == cmd'.base = cmd.base /\ cmd'.copy = cmd.copy

\* The steps of a run: where the command was, and where it goes.
LEMMA RunForms ==
    ASSUME Typed
    PROVE  /\ \A t : RunResume(t) => About("gates", Latest(Open(manifest.fence)), Unset)
           /\ Gates => CmdAt("gates") /\ (On("deny", cmd.status) \/ On("consume", cmd.status))
           /\ ConsumeApproval =>
                CmdAt("consume") /\ (On("deny", cmd.status) \/ On("execute", cmd.status))
           /\ Execute =>
                /\ CmdAt("execute")
                /\ On("deny", cmd.status) \/ On("admit", "succeeded") \/ On("admit", "failed")
           /\ RecordAdmission => CmdAt("admit") /\ On("settle", cmd.status)
           /\ RecordDenial => CmdAt("deny") /\ On("settle", "rejected")
<1>. USE DEF Typed, Command, On, About, Goto, NoCommand
<1>1. \A t : RunResume(t) => About("gates", Latest(Open(manifest.fence)), Unset)
  BY DEF RunResume
<1>2. Gates => CmdAt("gates") /\ (On("deny", cmd.status) \/ On("consume", cmd.status))
  BY DEF Gates
<1>3. ConsumeApproval => CmdAt("consume") /\ (On("deny", cmd.status) \/ On("execute", cmd.status))
  BY DEF ConsumeApproval
<1>4. Execute => /\ CmdAt("execute")
                 /\ On("deny", cmd.status) \/ On("admit", "succeeded") \/ On("admit", "failed")
  BY DEF Execute
<1>5. RecordAdmission => CmdAt("admit") /\ On("settle", cmd.status)
  BY DEF RecordAdmission
<1>6. RecordDenial => CmdAt("deny") /\ On("settle", "rejected")
  BY DEF RecordDenial
<1>. QED BY <1>1, <1>2, <1>3, <1>4, <1>5, <1>6

\* The steps of a settlement: where the command was, and where it goes.
LEMMA SettleForms ==
    ASSUME Typed
    PROVE  /\ \A t, a, status : Settle(t, a, status) => About("settle", a, status)
           /\ \A t, a, status : SettleAgain(t, a, status) =>
                IF ledger[a].stage \in Cursor
                THEN About("project", a, status) ELSE About("complete", a, status)
           /\ RecordSettlement =>
                /\ CmdAt("settle")
                /\ IF Advances(ledger[cmd.attempt].stage, cmd.status)
                   THEN On("complete", cmd.status) ELSE cmd' = NoCommand
           /\ RecordCompletion => CmdAt("complete") /\ On("project", cmd.status)
           /\ ReadLines => CmdAt("project") /\ On("anchor", cmd.status)
           /\ ReadProjection =>
                /\ CmdAt("anchor") /\ On("write", cmd.status)
                /\ cmd'.base = manifest
                /\ cmd'.copy = [manifest EXCEPT !.completed = Cursor]
<1>. USE DEF Typed, Command, On, About, Goto, NoCommand
<1>1. \A t, a, status : Settle(t, a, status) => About("settle", a, status)
  BY DEF Settle
<1>2. \A t, a, status : SettleAgain(t, a, status) =>
        IF ledger[a].stage \in Cursor
        THEN About("project", a, status) ELSE About("complete", a, status)
  BY DEF SettleAgain
<1>3. RecordSettlement =>
        /\ CmdAt("settle")
        /\ IF Advances(ledger[cmd.attempt].stage, cmd.status)
           THEN On("complete", cmd.status) ELSE cmd' = NoCommand
  BY DEF RecordSettlement, Return
<1>4. RecordCompletion => CmdAt("complete") /\ On("project", cmd.status)
  BY DEF RecordCompletion
<1>5. ReadProjection => /\ CmdAt("anchor") /\ On("write", cmd.status)
                        /\ cmd'.base = manifest
                        /\ cmd'.copy = [manifest EXCEPT !.completed = Cursor]
  BY DEF ReadProjection
<1>6. ReadLines => CmdAt("project") /\ On("anchor", cmd.status)
  BY DEF ReadLines
<1>. QED BY <1>1, <1>2, <1>3, <1>4, <1>5, <1>6

\* The commands that rewrite the manifest: where they were, and where they go.
LEMMA WriteForms ==
    ASSUME Typed
    PROVE  /\ \A stage : Approve(stage) => Writing("approve", manifest)
           /\ \A t : RenewLease(t) => Writing("lease", manifest)
           /\ Continue => \E step \in {"route", "write"} :
                Writing(step, [manifest EXCEPT !.status = "executing"])
           /\ \A status : End(status) => Writing("write", [manifest EXCEPT !.status = status])
           /\ RecordApproval => CmdAt("approve") /\ On("write", cmd.status) /\ Kept
           /\ WriteRouted =>
                /\ CmdAt("route") /\ On("write", cmd.status)
                /\ cmd'.base = manifest' /\ cmd'.copy = cmd.copy
<1>. USE DEF Typed, Command, On, Writing, Rewriting, Kept, Goto, NoCommand
<1>1. \A stage : Approve(stage) => Writing("approve", manifest)
  BY DEF Approve
<1>2. \A t : RenewLease(t) => Writing("lease", manifest)
  BY DEF RenewLease
<1>3. Continue => \E step \in {"route", "write"} :
                    Writing(step, [manifest EXCEPT !.status = "executing"])
  BY DEF Continue
<1>4. \A status : End(status) => Writing("write", [manifest EXCEPT !.status = status])
  BY DEF End
<1>5. RecordApproval => CmdAt("approve") /\ On("write", cmd.status) /\ Kept
  BY DEF RecordApproval
<1>6. WriteRouted => /\ CmdAt("route") /\ On("write", cmd.status)
                     /\ cmd'.base = manifest' /\ cmd'.copy = cmd.copy
  BY DEF WriteRouted
<1>. QED BY <1>1, <1>2, <1>3, <1>4, <1>5, <1>6

\* Only RecordSettlement settles, and it leaves the steps of an attempt.
LEMMA SettledOnce ==
    ASSUME SessionInv, SessionNext
    PROVE  RecordSettlement \/ \A a : Has("settled", a)' => Has("settled", a)
<1>1. CASE ledger' = ledger
  BY <1>1 DEF Has, Places
<1>2. CASE \E record : Records(record) /\ ledger' = Append(ledger, record)
  <2>1. PICK record : Records(record) /\ ledger' = Append(ledger, record)
    BY <1>2
  <2>2. CASE record.kind = "settled"
    BY <2>1, <2>2, RecordKinds
  <2>3. CASE record.kind # "settled"
    <3>1. Places("settled")' = Places("settled")
            /\ \A i \in Places("settled") : ledger'[i] = ledger[i]
      BY <2>1, <2>3, PlacesAfter, LedgerGrows DEF SessionInv, Grows
    <3>. QED BY <3>1 DEF Has
  <2>. QED BY <2>2, <2>3
<1>. QED BY <1>1, <1>2, StepWrites

\* Every step keeps what the command knows of its attempt.
LEMMA CommandStep ==
    ASSUME SessionInv, SessionNext
    PROVE  CommandInv'
<1>. USE DEF CmdAt
<1>1. Grows /\ Typed /\ CommandInv /\ Refers
  BY LedgerGrows DEF SessionInv
<1>2. /\ Places("requested") \subseteq Places("requested")'
      /\ \A a \in Places("requested") : ledger'[a] = ledger[a]
      /\ Cursor \subseteq Cursor'
  BY <1>1 DEF Grows
<1>3. /\ \A j \in Places("settled") : j \in Places("settled")' /\ ledger'[j] = ledger[j]
  BY <1>1 DEF Grows
<1>4. CASE UNCHANGED cmd
  <2>1. ~RecordSettlement /\ ~RecordCompletion
    BY <1>1, <1>4, SettleForms DEF On, NoCommand
  <2>2. Cursor' = Cursor /\ \A a : Has("settled", a)' => Has("settled", a)
    BY <2>1, CursorStep, SettledOnce
  <2>3. cmd.pc \in Attempting =>
            cmd.attempt \in Places("requested") /\ ledger'[cmd.attempt] = ledger[cmd.attempt]
    BY <1>1, <1>2 DEF CommandInv
  <2>4. (cmd.pc = "complete" =>
            \E j \in Places("settled")' :
                /\ ledger'[j].on = cmd.attempt
                /\ Advances(ledger'[cmd.attempt].stage, ledger'[j].status))
    BY <1>1, <1>3, <2>3 DEF CommandInv, Attempting
  <2>5. (cmd.pc = "write" /\ cmd.status # Unset) =>
            /\ cmd.attempt \in Places("requested")'
            /\ ledger'[cmd.attempt].stage \in Cursor'
            /\ cmd.copy.completed = Cursor'
    BY <1>1, <1>2, <2>2 DEF CommandInv
  <2>. QED BY <1>1, <1>2, <1>4, <2>2, <2>3, <2>4, <2>5 DEF CommandInv, Attempting
<1>5. CASE cmd' = NoCommand
  BY <1>5 DEF CommandInv, NoCommand, Attempting, Unsettled
<1>6. ASSUME NEW t, RunResume(t)
      PROVE  CommandInv'
  <2>1. About("gates", Latest(Open(manifest.fence)), Unset)
    BY <1>1, <1>6, RunForms
  <2>2. Latest(Open(manifest.fence)) \in Open(manifest.fence)
    BY <1>1, <1>6, LatestOpen DEF RunResume
  <2>3. cmd'.attempt \in Places("requested") /\ StatusOf(cmd'.attempt) = "requested"
    BY <2>1, <2>2 DEF About, Open
  <2>4. ~Has("settled", cmd'.attempt)
    <3>1. CASE Has("expired", cmd'.attempt)
      BY <2>3, <3>1 DEF StatusOf
    <3>. QED BY <2>3, <3>1 DEF StatusOf
  <2>5. ledger' = ledger
    BY <1>6 DEF RunResume
  <2>6. cmd'.attempt \in Places("requested")' /\ ~Has("settled", cmd.attempt)'
    BY <2>3, <2>4, <2>5 DEF Places, Has
  <2>. QED BY <2>1, <2>6 DEF About, CommandInv, Attempting, Unsettled
<1>7. CASE Gates \/ ConsumeApproval \/ Execute \/ RecordAdmission \/ RecordDenial
  <2>1. /\ cmd.pc \in Unsettled /\ cmd'.pc \in Unsettled /\ cmd'.attempt = cmd.attempt
        /\ cmd'.pc \in {"gates", "consume", "execute", "deny"} => cmd'.status = Unset
        /\ cmd'.pc \in {"admit", "settle"} => cmd'.status # Unset
    BY <1>1, <1>7, RunForms, UnsetAssumption DEF On, Unsettled, CommandInv
  <2>2. ~Has("settled", cmd.attempt)' /\ cmd'.attempt \in Places("requested")'
    <3>1. ~RecordSettlement
      BY <1>1, <1>7, RunForms, SettleForms
    <3>2. ~Has("settled", cmd.attempt) /\ cmd.attempt \in Places("requested")
      BY <2>1, <1>1 DEF CommandInv, Attempting
    <3>3. ~Has("settled", cmd'.attempt)
      BY <3>2, <2>1
    <3>4. \A a : Has("settled", a)' => Has("settled", a)
      BY <3>1, SettledOnce
    <3>. QED BY <2>1, <3>2, <3>4, <1>2 DEF Has
  <2>. QED BY <2>1, <2>2 DEF CommandInv, Attempting, Unsettled
<1>8. CASE RecordSettlement
  <2>1. cmd.pc = "settle" /\ cmd.attempt \in Places("requested") /\ cmd.status # Unset
    BY <1>1, <1>8, SettleForms DEF CommandInv, Attempting, Unsettled
  <2>2. CASE /\ Advances(ledger[cmd.attempt].stage, cmd.status)
             /\ On("complete", cmd.status)
    <3>1. ledger' = Append(ledger, Settled(cmd.attempt, cmd.status))
      BY <1>8 DEF RecordSettlement, Write
    <3>2. /\ Len(ledger) + 1 \in Places("settled")'
          /\ ledger'[Len(ledger) + 1] = Settled(cmd.attempt, cmd.status)
      BY <3>1, <1>1, PlacesAfter DEF Appended, Settled
    <3>3. /\ ledger'[Len(ledger) + 1].on = cmd'.attempt
          /\ Advances(ledger'[cmd'.attempt].stage, ledger'[Len(ledger) + 1].status)
      BY <3>2, <2>1, <2>2, <1>2 DEF Settled, On
    <3>. QED BY <3>2, <3>3, <2>1, <2>2, <1>2 DEF On, CommandInv, Attempting, Unsettled
  <2>. QED BY <1>1, <1>5, <1>8, <2>2, SettleForms
<1>9. CASE RecordCompletion
  <2>1. cmd.attempt \in Places("requested") /\ On("project", cmd.status)
    BY <1>1, <1>9, SettleForms DEF CommandInv, Attempting
  <2>2. ledger' = Append(ledger, Completed(cmd.attempt))
    BY <1>9 DEF RecordCompletion, Write
  <2>3. /\ Len(ledger) + 1 \in Places("completed")'
        /\ ledger'[Len(ledger) + 1] = Completed(cmd.attempt)
    BY <2>2, <1>1, PlacesAfter DEF Appended, Completed
  <2>4. ledger'[cmd'.attempt].stage \in Cursor'
    BY <2>1, <2>3, <1>2 DEF Cursor, Completed, On
  <2>. QED BY <2>1, <2>4, <1>2 DEF On, CommandInv, Attempting, Unsettled
<1>10. CASE ReadProjection
  <2>1. /\ cmd.attempt \in Places("requested") /\ On("write", cmd.status)
        /\ ledger[cmd.attempt].stage \in Cursor
        /\ cmd'.copy.completed = Cursor
    BY <1>1, <1>10, SettleForms DEF CommandInv, Attempting, Typed, Manifest
  <2>2. Cursor' = Cursor /\ ledger' = ledger
    BY <1>10 DEF ReadProjection, Cursor, Places
  <2>. QED BY <2>1, <2>2, <1>2 DEF On, CommandInv, Attempting, Unsettled
<1>11. ASSUME NEW t, NEW a \in Places("requested"),
              NEW status \in {"succeeded", "skipped", "failed"},
              Settle(t, a, status) \/ SettleAgain(t, a, status)
       PROVE  CommandInv'
  <2>1. ledger' = ledger /\ status # Unset
    BY <1>11, UnsetAssumption DEF Settle, SettleAgain
  <2>2. CASE Settle(t, a, status)
    <3>1. About("settle", a, status) /\ ~Has("settled", a)
      BY <2>2, <1>1, SettleForms DEF Settle
    <3>2. ~Has("settled", cmd'.attempt) /\ cmd'.attempt \in Places("requested")
      BY <3>1 DEF About
    <3>3. ~Has("settled", cmd.attempt)' /\ cmd'.attempt \in Places("requested")'
      BY <3>2, <2>1 DEF Has, Places
    <3>. QED BY <3>1, <3>3, <2>1 DEF About, CommandInv, Attempting, Unsettled
  <2>3. CASE SettleAgain(t, a, status)
    <3>1. /\ SettledAs(a, status) /\ Advances(ledger[a].stage, status)
          /\ \/ About("project", a, status) /\ ledger[a].stage \in Cursor
             \/ About("complete", a, status)
      BY <2>3, <1>1, SettleForms DEF SettleAgain
    <3>2. PICK j \in Places("settled") : ledger[j] = Settled(a, status)
      BY <3>1 DEF SettledAs
    <3>3. ledger[j].on = a /\ Advances(ledger[a].stage, ledger[j].status)
      BY <3>1, <3>2 DEF Settled
    <3>4. j \in Places("settled")' /\ cmd'.attempt = a /\ a \in Places("requested")'
      BY <3>1, <3>2, <2>1 DEF Places, About
    <3>5. CASE About("project", a, status) /\ ledger[a].stage \in Cursor
      BY <3>4, <3>5, <2>1, <1>2 DEF About, CommandInv, Attempting, Unsettled
    <3>6. CASE About("complete", a, status)
      BY <3>3, <3>4, <3>6, <2>1 DEF About, CommandInv, Attempting, Unsettled
    <3>. QED BY <3>1, <3>5, <3>6
  <2>. QED BY <1>11, <2>2, <2>3
<1>12. CASE \E step \in Rewrites : \E copy : Writing(step, copy)
  BY <1>12 DEF Rewrites, Writing, CommandInv, Attempting, Unsettled
<1>13. CASE RecordApproval \/ WriteRouted
  <2>1. On("write", Unset)
    BY <1>1, <1>13, WriteForms DEF CommandInv, On
  <2>. QED BY <2>1 DEF On, CommandInv, Attempting, Unsettled
<1>14. CASE \/ (\E stage \in GateAfter : Approve(stage)) \/ (\E t \in Token : RenewLease(t))
            \/ Continue
                \/ \E status \in {"aborted", "completed"} : End(status)
  BY <1>1, <1>12, <1>14, WriteForms DEF Rewrites
<1>15. CASE ReadLines
  <2>1. /\ cmd.attempt \in Places("requested") /\ On("anchor", cmd.status)
        /\ ledger[cmd.attempt].stage \in Cursor
    BY <1>1, <1>15, SettleForms DEF CommandInv, Attempting
  <2>2. Cursor' = Cursor /\ ledger' = ledger
    BY <1>15 DEF ReadLines, Cursor, Places
  <2>. QED BY <2>1, <2>2, <1>2 DEF On, CommandInv, Attempting, Unsettled
<1>. QED BY <1>4, <1>5, <1>6, <1>7, <1>8, <1>9, <1>10, <1>11, <1>13, <1>14, <1>15, CommandMoves
        DEF Moves

---------------------------------------------------------------------------
(* The manifest and its fence.                                             *)

\* A manifest that is sound after the step.
StillSound(m) ==
    /\ m \in Manifest
    /\ m.token \in 1..Len(minted') /\ m.fence = minted'[m.token]
    /\ m.completed \subseteq Cursor' /\ Prefix(m.completed)

\* Leases and the cursor only grow, so what was sound still is.
LEMMA SoundStays ==
    ASSUME SessionInv, SessionNext, NEW m, Sound(m)
    PROVE  StillSound(m)
<1>1. Grows /\ Mints
  BY LedgerGrows, LeasesStay DEF SessionInv
<1>. QED BY <1>1 DEF Grows, Mints, Sound, StillSound, Token

\* The status is not part of it.
LEMMA SoundStatus ==
    ASSUME NEW m, StillSound(m), NEW status \in Status
    PROVE  StillSound([m EXCEPT !.status = status])
<1>1. /\ [m EXCEPT !.status = status].token = m.token
      /\ [m EXCEPT !.status = status].fence = m.fence
      /\ [m EXCEPT !.status = status].completed = m.completed
  BY DEF StillSound, Manifest
<1>. QED BY <1>1, ManifestWith DEF StillSound

\* What is written is sound, whoever writes it.
LEMMA ManifestStep ==
    ASSUME SessionInv, SessionNext
    PROVE  StillSound(manifest')
<1>. USE DEF CmdAt
<1>1. Sound(manifest) /\ ManifestInv /\ console \in Request
  BY DEF SessionInv, ManifestInv, Typed
<1>2. CASE UNCHANGED <<manifest, raced>>
  BY <1>1, <1>2, SoundStays
<1>3. CASE WriteManifest
  BY <1>1, <1>3, SoundStays DEF WriteManifest, ManifestInv, Rewrites
<1>4. CASE WriteLease
  <2>1. Sound(cmd.base)
    BY <1>1, <1>4 DEF WriteLease, ManifestInv, Rewrites
  <2>2. cmd.base \in Manifest /\ cmd.base.fence + 1 \in Nat
    BY <2>1 DEF Sound, Manifest
  <2>3. /\ minted' = Append(minted, cmd.base.fence + 1)
        /\ manifest' = [cmd.base EXCEPT !.fence = cmd.base.fence + 1, !.token = Len(minted')]
    BY <1>4, <2>2 DEF WriteLease, Manifest
  <2>4. Len(minted') \in 1..Len(minted') /\ minted'[Len(minted')] = cmd.base.fence + 1
    BY <2>2, <2>3 DEF SessionInv, Typed
  <2>5. /\ manifest'.token = Len(minted') /\ manifest'.fence = cmd.base.fence + 1
        /\ manifest'.completed = cmd.base.completed
    BY <2>2, <2>3 DEF Manifest
  <2>. QED BY <2>1, <2>4, <2>5, SoundStays, ManifestTyped DEF StillSound
<1>5. CASE WriteRouted
  <2>1. Sound(cmd.base) /\ "routed" \in Status
    BY <1>1, <1>5, StatusSet DEF WriteRouted, ManifestInv, Rewrites
  <2>. QED BY <2>1, <1>5, SoundStays, SoundStatus DEF WriteRouted
<1>6. CASE ConsoleWrite
  <2>1. Sound(console.base)
    BY <1>1, <1>6 DEF ConsoleWrite, ManifestInv
  <2>2. Head(console.targets) \in Status
    BY <1>1, <1>6 DEF ConsoleWrite, Request, SessionInv, Typed
  <2>. QED BY <2>1, <2>2, <1>6, SoundStays, SoundStatus DEF ConsoleWrite
<1>. QED BY <1>2, <1>3, <1>4, <1>5, <1>6, Frames

\* What the command will write is sound, and of the lease it read.
LEMMA CopyStep ==
    ASSUME SessionInv, SessionNext, cmd'.pc \in Rewrites
    PROVE  /\ StillSound(cmd'.base) /\ StillSound(cmd'.copy)
           /\ cmd'.copy.fence = cmd'.base.fence /\ cmd'.copy.token = cmd'.base.token
<1>. USE DEF CmdAt
<1>1. Sound(manifest) /\ ManifestInv /\ Typed /\ StillSound(manifest) /\ manifest \in Manifest
  BY SoundStays DEF SessionInv, ManifestInv, Sound
<1>2. CASE UNCHANGED cmd
  BY <1>1, <1>2, SoundStays DEF ManifestInv
<1>3. CASE cmd' = NoCommand
  BY <1>3 DEF NoCommand, Rewrites
<1>4. CASE ReadProjection
  <2>1. cmd'.base = manifest /\ cmd'.copy = [manifest EXCEPT !.completed = Cursor]
    BY <1>1, <1>4, SettleForms
  <2>2. /\ cmd'.copy.token = manifest.token /\ cmd'.copy.fence = manifest.fence
        /\ cmd'.copy.completed = Cursor /\ cmd'.copy \in Manifest
    BY <1>1, <2>1, ManifestWith DEF Manifest, SessionInv, Earned
  <2>3. Cursor \subseteq Cursor' /\ Prefix(Cursor)
    BY LedgerGrows DEF SessionInv, Earned, Grows
  <2>. QED BY <1>1, <2>1, <2>2, <2>3 DEF StillSound
<1>5. CASE RecordApproval
  BY <1>1, <1>5, SoundStays, WriteForms DEF Kept, ManifestInv, Rewrites
<1>6. CASE WriteRouted
  <2>1. /\ cmd'.base = manifest' /\ cmd'.copy = cmd.copy /\ cmd.pc = "route"
        /\ manifest' = [cmd.base EXCEPT !.status = "routed"]
    BY <1>1, <1>6, WriteForms DEF WriteRouted
  <2>2. /\ Sound(cmd.base) /\ Sound(cmd.copy)
        /\ cmd.copy.fence = cmd.base.fence /\ cmd.copy.token = cmd.base.token
    BY <2>1, <1>1 DEF ManifestInv, Rewrites
  <2>3. manifest'.fence = cmd.base.fence /\ manifest'.token = cmd.base.token
    BY <2>1, <2>2 DEF Sound, Manifest
  <2>. QED BY <2>1, <2>2, <2>3, SoundStays, ManifestStep
<1>7. CASE \E step : Writing(step, manifest)
  BY <1>1, <1>7 DEF Writing
<1>8. CASE \E step : \E status \in Status : Writing(step, [manifest EXCEPT !.status = status])
  <2>1. PICK status \in Status :
            cmd'.base = manifest /\ cmd'.copy = [manifest EXCEPT !.status = status]
    BY <1>8 DEF Writing
  <2>2. cmd'.copy.fence = manifest.fence /\ cmd'.copy.token = manifest.token
    BY <2>1, <1>1 DEF Manifest
  <2>. QED BY <1>1, <2>1, <2>2, SoundStatus
<1>9. "executing" \in Status /\ "aborted" \in Status /\ "completed" \in Status
  BY StatusSet
<1>10. CASE \/ (\E stage \in GateAfter : Approve(stage)) \/ (\E t \in Token : RenewLease(t))
            \/ Continue
                \/ \E status \in {"aborted", "completed"} : End(status)
  BY <1>1, <1>7, <1>8, <1>9, <1>10, WriteForms
<1>11. CASE (\E t \in Token : RunResume(t)) \/ Gates \/ ConsumeApproval \/ Execute
                \/ RecordAdmission \/ RecordDenial
  BY <1>1, <1>11, RunForms DEF On, About, Rewrites
<1>12. CASE RecordSettlement \/ RecordCompletion \/ ReadLines
  BY <1>1, <1>3, <1>12, SettleForms DEF On, Rewrites
<1>13. CASE \E t \in Token : \E a \in Places("requested") :
                \E status \in {"succeeded", "skipped", "failed"} :
                    Settle(t, a, status) \/ SettleAgain(t, a, status)
  BY <1>1, <1>13, SettleForms DEF About, Rewrites
<1>. QED BY <1>2, <1>3, <1>4, <1>5, <1>6, <1>10, <1>11, <1>12, <1>13, CommandMoves DEF Moves

\* What the console will write back was sound when it was read.
LEMMA ReadingStep ==
    ASSUME SessionInv, SessionNext, console'.pc = "writing"
    PROVE  StillSound(console'.base)
<1>1. Sound(manifest) /\ ManifestInv /\ console \in Request
  BY DEF SessionInv, ManifestInv, Typed
<1>2. CASE UNCHANGED console
  BY <1>1, <1>2, SoundStays DEF ManifestInv
<1>3. CASE ConsoleRead
  <2>1. console'.base = manifest
    BY <1>1, <1>3 DEF ConsoleRead, Request
  <2>. QED BY <1>1, <2>1, SoundStays
<1>4. CASE ConsoleControl \/ (\E stage \in GateAfter : ConsoleApprove(stage)) \/ ConsoleWrite
  <2>1. \A targets : Serving(targets) => console'.pc = "waiting"
    BY DEF Serving, NoRequest
  <2>2. ConsoleWrite => console'.pc \in {"idle", "waiting"}
    <3>1. CASE Len(console.targets) = 1
      BY <3>1 DEF ConsoleWrite, NoRequest
    <3>2. CASE Len(console.targets) # 1
      BY <3>2 DEF ConsoleWrite, NoRequest
    <3>. QED BY <3>1, <3>2
  <2>3. UNCHANGED console \/ console'.pc # "writing"
    BY <1>4, <2>1, <2>2 DEF ConsoleControl, ConsoleApprove
  <2>. QED BY <1>2, <2>3
<1>. QED BY <1>2, <1>3, <1>4, Frames

\* Every step keeps the manifest, and what will be written to it, sound.
LEMMA ManifestInvStep ==
    ASSUME SessionInv, SessionNext
    PROVE  ManifestInv'
<1>1. Sound(manifest)'
  BY ManifestStep DEF StillSound, Sound
<1>2. (cmd.pc \in Rewrites)' =>
        /\ Sound(cmd.base)' /\ Sound(cmd.copy)'
        /\ (cmd.copy.fence = cmd.base.fence)' /\ (cmd.copy.token = cmd.base.token)'
  BY CopyStep DEF StillSound, Sound, Rewrites
<1>3. (console.pc = "writing")' => Sound(console.base)'
  BY ReadingStep DEF StillSound, Sound
<1>. QED BY <1>1, <1>2, <1>3 DEF ManifestInv

\* A manifest that was not written from a stale reading keeps the newest fence.
LEMMA NewestStep ==
    ASSUME SessionInv, SessionNext, ~raced', Newest(manifest.fence)
    PROVE  Newest(manifest.fence)'
<1>. USE DEF CmdAt
<1>1. Sound(manifest) /\ ManifestInv /\ Mints /\ manifest \in Manifest
  BY LeasesStay DEF SessionInv, ManifestInv, Sound
<1>2. minted \in Seq(Nat)
  BY DEF SessionInv, Typed
<1>3. CASE WriteLease
  <2>1. manifest = cmd.base
    BY <1>3 DEF WriteLease
  <2>2. /\ manifest.fence \in Nat /\ minted' = Append(minted, manifest.fence + 1)
        /\ manifest' = [manifest EXCEPT !.fence = manifest.fence + 1, !.token = Len(minted')]
    BY <1>1, <1>3, <2>1 DEF WriteLease, Manifest
  <2>3. manifest'.fence = manifest.fence + 1
    BY <1>1, <2>2 DEF Manifest
  <2>4. ASSUME NEW t \in 1..Len(minted')
        PROVE  minted'[t] <= manifest.fence + 1
    <3>1. /\ Len(minted') = Len(minted) + 1
          /\ minted'[Len(minted) + 1] = manifest.fence + 1
          /\ \A u \in 1..Len(minted) : minted'[u] = minted[u] /\ minted[u] \in Nat
          /\ Len(minted) \in Nat
      BY <1>2, <2>2
    <3>2. \A u \in 1..Len(minted) : minted[u] <= manifest.fence
      BY DEF Newest, Token
    <3>3. CASE t = Len(minted) + 1
      BY <3>1, <3>3, <2>2
    <3>4. CASE t # Len(minted) + 1
      <4>1. t \in 1..Len(minted)
        BY <3>1, <3>4
      <4>. QED BY <4>1, <3>1, <3>2, <2>2
    <3>. QED BY <3>3, <3>4
  <2>. QED BY <2>3, <2>4 DEF Newest, Token
<1>4. CASE ~WriteLease
  <2>1. minted' = minted
    BY <1>4, Frames
  <2>2. manifest'.fence = manifest.fence
    <3>1. CASE UNCHANGED <<manifest, raced>>
      BY <3>1
    <3>2. CASE WriteManifest
      BY <3>2, <1>1 DEF WriteManifest, ManifestInv, Rewrites
    <3>3. CASE WriteRouted
      <4>1. manifest' = [manifest EXCEPT !.status = "routed"]
        BY <3>3 DEF WriteRouted
      <4>. QED BY <4>1, <1>1 DEF Manifest
    <3>4. CASE ConsoleWrite
      <4>1. manifest' = [manifest EXCEPT !.status = Head(console.targets)]
        BY <3>4 DEF ConsoleWrite
      <4>. QED BY <4>1, <1>1 DEF Manifest
    <3>. QED BY <3>1, <3>2, <3>3, <3>4, <1>4, Frames
  <2>. QED BY <2>1, <2>2 DEF Newest, Token
<1>. QED BY <1>3, <1>4

\* Once raced, for ever.
LEMMA RacedStays ==
    ASSUME SessionNext, raced
    PROVE  raced'
  BY Frames DEF WriteManifest, WriteLease, WriteRouted, ConsoleWrite

\* A command that goes on to settle goes on with the attempt, or has just
\* taken up one of the fence of the manifest.
LEMMA AttemptStep ==
    ASSUME SessionInv, SessionNext, cmd'.pc \in Unsettled
    PROVE  /\ minted' = minted
           /\ \/ cmd.pc \in Unsettled /\ cmd'.attempt = cmd.attempt
              \/ /\ cmd'.attempt \in Places("requested")
                 /\ ledger[cmd'.attempt].fence = manifest.fence
<1>. USE DEF CmdAt
<1>1. Typed /\ ManifestInv /\ Sound(manifest)
  BY DEF SessionInv, ManifestInv
<1>2. ~WriteLease
  BY DEF WriteLease, Return, NoCommand, Unsettled
<1>3. CASE UNCHANGED cmd
  BY <1>2, <1>3, Frames
<1>4. CASE cmd' = NoCommand
  BY <1>4 DEF NoCommand, Unsettled
<1>5. CASE \E t \in Token : RunResume(t)
  <2>1. cmd'.attempt = Latest(Open(manifest.fence)) /\ Open(manifest.fence) # {}
    BY <1>1, <1>5, RunForms DEF About, RunResume
  <2>2. cmd'.attempt \in Open(manifest.fence)
    BY <1>1, <2>1, LatestOpen
  <2>. QED BY <2>2, <1>2, Frames DEF Open
<1>6. CASE Gates \/ ConsumeApproval \/ Execute \/ RecordAdmission \/ RecordDenial
  BY <1>1, <1>2, <1>6, RunForms, Frames DEF On, Unsettled
<1>7. CASE \E t \in Token : \E a \in Places("requested") :
                \E status \in {"succeeded", "skipped", "failed"} :
                    Settle(t, a, status) \/ SettleAgain(t, a, status)
  <2>1. PICK t \in Token, a \in Places("requested"), status \in {"succeeded", "skipped", "failed"} :
            Settle(t, a, status) \/ SettleAgain(t, a, status)
    BY <1>7
  <2>2. CASE SettleAgain(t, a, status)
    BY <1>1, <2>2, SettleForms DEF About, Unsettled
  <2>3. CASE Settle(t, a, status)
    <3>1. cmd'.attempt = a
      BY <1>1, <2>3, SettleForms DEF About
    <3>2. manifest.token = t /\ ledger[a].fence = minted[t]
      BY <2>3 DEF Settle, MaySettle, HoldsLease
    <3>. QED BY <3>1, <3>2, <1>1, <1>2, Frames DEF Sound
  <2>. QED BY <2>1, <2>2, <2>3
<1>8. CASE RecordSettlement \/ RecordCompletion \/ ReadLines \/ ReadProjection
  BY <1>1, <1>4, <1>8, SettleForms DEF On, Unsettled
<1>9. CASE \/ (\E stage \in GateAfter : Approve(stage)) \/ (\E t \in Token : RenewLease(t))
           \/ Continue
           \/ (\E status \in {"aborted", "completed"} : End(status))
           \/ RecordApproval \/ WriteRouted
  BY <1>1, <1>9, WriteForms DEF Writing, On, Unsettled
<1>. QED BY <1>3, <1>4, <1>5, <1>6, <1>7, <1>8, <1>9, CommandMoves DEF Moves

\* Every step keeps the newest fence, or writes from a stale reading.
LEMMA FenceStep ==
    ASSUME SessionInv, SessionNext
    PROVE  FenceInv'
<1>1. CASE raced'
  BY <1>1 DEF FenceInv
<1>2. CASE ~raced'
  <2>1. /\ Newest(manifest.fence)
        /\ cmd.pc \in Unsettled => Newest(ledger[cmd.attempt].fence)
    BY <1>2, RacedStays DEF SessionInv, FenceInv
  <2>2. Newest(manifest.fence)'
    BY <1>2, <2>1, NewestStep
  <2>3. ASSUME cmd'.pc \in Unsettled
        PROVE  Newest(ledger[cmd.attempt].fence)'
    <3>1. CASE cmd.pc \in Unsettled /\ cmd'.attempt = cmd.attempt
      <4>1. cmd.attempt \in Places("requested")
        BY <3>1 DEF SessionInv, CommandInv, Attempting
      <4>2. ledger'[cmd.attempt] = ledger[cmd.attempt]
        BY <4>1, LedgerGrows DEF SessionInv, Grows
      <4>. QED BY <3>1, <4>2, <2>1, <2>3, AttemptStep DEF Newest, Token
    <3>2. CASE /\ cmd'.attempt \in Places("requested")
               /\ ledger[cmd'.attempt].fence = manifest.fence
      <4>1. ledger'[cmd'.attempt].fence = manifest.fence
        BY <3>2, LedgerGrows DEF SessionInv, Grows
      <4>. QED BY <4>1, <2>1, <2>3, AttemptStep DEF Newest, Token
    <3>. QED BY <3>1, <3>2, <2>3, AttemptStep
  <2>. QED BY <2>2, <2>3 DEF FenceInv, Unsettled
<1>. QED BY <1>1, <1>2

---------------------------------------------------------------------------
(* The theorems.                                                           *)

\* The initial state satisfies the invariant.
LEMMA SessionInvStarts ==
    ASSUME SessionInit
    PROVE  SessionInv
<1>. USE DEF SessionInit
<1>1. /\ manifest \in Manifest /\ manifest.token = 1 /\ manifest.fence = 1
      /\ manifest.completed = {} /\ cmd.pc = "idle" /\ cmd.status = Unset
      /\ console.pc = "idle" /\ "created" \in Status
  BY StatusSet DEF Manifest, NoCommand, NoRequest
<1>2. /\ ledger = << >> /\ \A kind : Places(kind) = {} 
      /\ Cursor = {} /\ Len(minted) = 1 /\ minted[1] = 1
  BY DEF Places, Cursor
<1>3. Prefix({})
  <2>1. Cardinality({}) = 0 /\ 1..0 = {}
    BY FS_EmptySet
  <2>. QED BY <2>1 DEF Prefix
<1>4. console \in Request
  BY DEF NoRequest, Request
<1>5. Typed
  <2>1. << >> \in Seq(LinesOf(<< >>)) /\ Len(ledger) = 0
    BY <1>2
  <2>2. minted \in Seq(Nat)
    OBVIOUS
  <2>3. cmd \in Command
    BY NoCommandType
  <2>4. lapsed \in 0..Len(minted) /\ overdue \in 0..Len(ledger)
    BY <1>2, <2>1
  <2>. QED BY <1>1, <1>2, <1>4, <2>1, <2>2, <2>3, <2>4 DEF Typed
<1>6. Refers /\ Earned
  BY <1>2, <1>3 DEF Refers, Earned
<1>7. ManifestInv
  BY <1>1, <1>2, <1>3 DEF ManifestInv, Sound, Rewrites
<1>8. CommandInv /\ FenceInv
  BY <1>1, <1>2 DEF CommandInv, Attempting, Unsettled, FenceInv, Newest, Token
<1>. QED BY <1>5, <1>6, <1>7, <1>8 DEF SessionInv

\* Every step keeps the invariant.
LEMMA SessionInvStays ==
    ASSUME SessionInv, [SessionNext]_sessionVars
    PROVE  SessionInv'
<1>1. CASE SessionNext
  BY <1>1, TypedStep, RefersStep, EarnedStep, ManifestInvStep, CommandStep, FenceStep DEF SessionInv
<1>2. CASE UNCHANGED sessionVars
  <2>. USE <1>2 DEF sessionVars, timeVars, counters
  <2>1. /\ \A kind : Places(kind)' = Places(kind)
        /\ Cursor' = Cursor /\ ledger' = ledger
    BY DEF Places, Cursor
  <2>2. Typed' /\ Refers'
    BY <2>1 DEF SessionInv, Typed, Refers
  <2>3. Earned'
    <3>1. \A i : Due(i) => Due(i)'
      BY <2>1 DEF Due, EarlierThan
    <3>. QED BY <2>1, <3>1 DEF SessionInv, Earned, EarlierThan, Prefix
  <2>4. ManifestInv' /\ FenceInv'
    BY <2>1 DEF SessionInv, ManifestInv, Sound, FenceInv, Newest, Token, Prefix
  <2>5. CommandInv'
    BY <2>1 DEF SessionInv, CommandInv, Has
  <2>. QED BY <2>2, <2>3, <2>4, <2>5 DEF SessionInv
<1>. QED BY <1>1, <1>2

\* Of every behaviour: the invariant that the others rest on.
THEOREM SessionInvariance == SessionSpec => []SessionInv
  BY SessionInvStarts, SessionInvStays, PTL DEF SessionSpec

\* The variables keep their types, and the manifest names a lease that was minted.
THEOREM SessionTypeCorrect == SessionSpec => []SessionTypeOK
<1>1. SessionInv => SessionTypeOK
  <2>. SUFFICES ASSUME SessionInv
                PROVE  SessionTypeOK
    OBVIOUS
  <2>1. manifest.status \in DOMAIN Transitions
    BY DEF SessionInv, Typed, Manifest, Status
  <2>2. \A i \in Places("settled") \cup Places("completed") \cup Places("approved") :
            ledger[ledger[i].on].kind = "requested"
    BY DEF SessionInv, Refers, Places
  <2>. QED BY <2>1, <2>2 DEF SessionTypeOK, SessionInv, Typed, Refers, ManifestInv, Sound, Command,
                     CommandPc,
        Request
<1>. QED BY <1>1, SessionInvariance, PTL

\* The cursor is earned (resolveCurrentStage, settleLocked): for any route.
THEOREM CursorEarned == SessionSpec => []CursorIsEarned
<1>1. SessionInv => CursorIsEarned
  BY DEF SessionInv, Earned, Prefix, Due, CursorIsEarned
<1>. QED BY <1>1, SessionInvariance, PTL

\* The manifest names a prefix of the ledger's cursor (refreshProjection).
THEOREM ProjectionBehind == SessionSpec => []ProjectionIsBehind
<1>1. SessionInv => ProjectionIsBehind
  BY DEF SessionInv, ManifestInv, Sound, Prefix, ProjectionIsBehind
<1>. QED BY <1>1, SessionInvariance, PTL

\* A request with an older fence does not settle (settleLocked).
THEOREM OldFenceIsOut == SessionSpec => FencedOut
<1>1. SessionInv /\ [SessionNext]_sessionVars =>
        [\A i \in (Len(ledger) + 1)..Len(ledger') :
            ledger'[i].kind = "settled" =>
                raced \/ \A t \in Token : minted[t] <= ledger[ledger'[i].on].fence]_sessionVars
  <2>. SUFFICES ASSUME SessionInv, SessionNext, NEW i \in (Len(ledger) + 1)..Len(ledger'),
                       ledger'[i].kind = "settled", ~raced
                PROVE  \A t \in Token : minted[t] <= ledger[ledger'[i].on].fence
    OBVIOUS
  <2>1. Grows
    BY LedgerGrows DEF SessionInv
  <2>2. PICK record : Records(record) /\ ledger' = Append(ledger, record)
    <3>1. ledger' # ledger
      BY <2>1 DEF Grows
    <3>. QED BY <3>1, StepWrites
  <2>3. i = Len(ledger) + 1 /\ ledger'[i] = record
    BY <2>1, <2>2, PlacesAfter DEF Grows, Appended, SessionInv
  <2>4. RecordSettlement /\ ledger'[i].on = cmd.attempt
    BY <2>2, <2>3, RecordKinds DEF Settled
  <2>5. Newest(ledger[cmd.attempt].fence)
    BY <2>4 DEF RecordSettlement, CmdAt, Unsettled, SessionInv, FenceInv
  <2>. QED BY <2>4, <2>5 DEF Newest
<1>. QED BY <1>1, SessionInvariance, PTL DEF SessionSpec, FencedOut

\* When a settlement ends well, the ledger has the stage, and the manifest names
\* what the ledger has, unless the reading of the ledger was overtaken
\* (settleLocked, refreshProjection).
THEOREM ReplayCompletes == SessionSpec => ReplayRebuilds
<1>1. ASSUME SessionInv, SessionNext, EndsWell, Advancing
      PROVE  /\ ledger[cmd.attempt].stage \in Cursor'
             /\ manifest'.completed = Cursor' \/ Overtaken
  <2>. USE DEF CmdAt
  <2>1. cmd.status # Unset /\ CommandInv /\ Typed
    BY <1>1, UnsetAssumption DEF SessionInv, Advancing
  <2>2. cmd.pc \in {"admit", "settle", "complete", "project", "anchor", "write"}
    BY <2>1 DEF CommandInv, Typed, Command, CommandPc
  <2>3. ~Moves
    <3>. USE <1>1 DEF EndsWell, Advancing
    <3>1. ~(\E t \in Token : RunResume(t))
      BY <2>2 DEF RunResume, Begin
    <3>2. ~(Gates \/ ConsumeApproval \/ Execute \/ RecordAdmission \/ RecordDenial)
      BY <2>1, RunForms DEF On
    <3>3. ~(RecordSettlement \/ RecordCompletion \/ ReadLines \/ ReadProjection)
      BY <2>1, SettleForms DEF On
    <3>4. ~(\E t \in Token : \E a \in Places("requested") :
                \E status \in {"succeeded", "skipped", "failed"} :
                    Settle(t, a, status) \/ SettleAgain(t, a, status))
      BY <2>2 DEF Settle, SettleAgain, Begin
    <3>5. ~(\/ (\E stage \in GateAfter : Approve(stage)) \/ (\E t \in Token : RenewLease(t))
            \/ Continue
            \/ (\E status \in {"aborted", "completed"} : End(status))
            \/ RecordApproval \/ WriteRouted)
      BY <2>2 DEF Approve, RenewLease, Continue, End, RecordApproval, WriteRouted, Begin
    <3>. QED BY <3>1, <3>2, <3>3, <3>4, <3>5 DEF Moves
  <2>4. cmd' # cmd
    BY <1>1, <2>2 DEF EndsWell
  <2>5. WriteManifest \/ SkipProjection \/ WriteLease \/ HolderDies
    BY <2>3, <2>4, CommandEnds, <1>1
  <2>6. ~WriteLease /\ ~HolderDies
    BY <1>1, <2>1, <2>2 DEF WriteLease, HolderDies, SessionInv, Typed, EndsWell
  <2>7. CASE WriteManifest
    <3>1. manifest' = cmd.copy /\ cmd.pc = "write" /\ ledger' = ledger
      BY <2>7 DEF WriteManifest
    <3>2. Cursor' = Cursor
      BY <3>1 DEF Cursor, Places
    <3>. QED BY <2>1, <3>1, <3>2 DEF CommandInv
  <2>8. CASE SkipProjection
    <3>1. Overtaken /\ cmd.pc = "anchor" /\ ledger' = ledger
      BY <2>8 DEF SkipProjection, Overtaken
    <3>2. Cursor' = Cursor
      BY <3>1 DEF Cursor, Places
    <3>. QED BY <2>1, <3>1, <3>2 DEF CommandInv
  <2>. QED BY <2>5, <2>6, <2>7, <2>8
<1>2. SessionInv /\ [SessionNext]_sessionVars =>
        [EndsWell /\ Advancing =>
            /\ ledger[cmd.attempt].stage \in Cursor'
            /\ manifest'.completed = Cursor' \/ Overtaken]_sessionVars
  BY <1>1
<1>. QED BY <1>2, SessionInvariance, PTL DEF SessionSpec, ReplayRebuilds

=============================================================================
