-------------------------- MODULE HarnessRunProof --------------------------
(***************************************************************************)
(* Proofs about HarnessRun, and about ExecutionAdapter, which composes its *)
(* calls, for any processes, attempts and bounds.                          *)
(***************************************************************************)
EXTENDS ExecutionAdapter, FiniteSetTheorems, TLAPS

---------------------------------------------------------------------------
(* Values.                                                                 *)

LEMMA CallKinds ==
    ASSUME NEW c \in Call
    PROVE  \/ c.name = "create"
           \/ c.name = "transition" /\ c.to \in Lifecycle!State
           \/ c.name = "attempt" /\ c.id \in Attempt /\ c.state \in AttemptState
BY DEF Call

LEMMA RecordsAreReadable ==
    ASSUME NEW r \in RunRecord
    PROVE  r # Absent /\ r # Corrupt
BY FileAssumption

LEMMA NewRunType ==
    /\ NewRun \in RunRecord
    /\ NewRun.history = <<"created">> /\ NewRun.attempts = 0
<1>1. "created" \in Lifecycle!State
  BY DEF Lifecycle!State
<1>2. <<"created">> \in Seq(Lifecycle!State)
  BY <1>1
<1>3. NoView \in View
  BY DEF View
<1>. QED BY <1>2, <1>3 DEF NewRun, RunRecord

\* A history extended by a legal transition is still a path.
LEMMA LegalAppend ==
    ASSUME NEW h \in Seq(Lifecycle!State), h # << >>, Lifecycle!Legal(h),
           NEW to \in Lifecycle!State, Lifecycle!isLegalTransition(Lifecycle!LastOf(h), to)
    PROVE  /\ Append(h, to) \in Seq(Lifecycle!State)
           /\ Append(h, to) # << >>
           /\ Lifecycle!Legal(Append(h, to))
<1>1. /\ Append(h, to) \in Seq(Lifecycle!State)
      /\ Len(h) \in Nat /\ Len(h) >= 1
      /\ Len(Append(h, to)) = Len(h) + 1
      /\ \A i \in 1..Len(h) : Append(h, to)[i] = h[i]
      /\ Append(h, to)[Len(h) + 1] = to
  OBVIOUS
<1>2. Append(h, to)[1] = "created"
  BY <1>1 DEF Lifecycle!Legal
<1>3. ASSUME NEW i \in 2..Len(Append(h, to))
      PROVE  Lifecycle!isLegalTransition(Append(h, to)[i - 1], Append(h, to)[i])
  <2>1. CASE i = Len(h) + 1
    BY <1>1, <2>1 DEF Lifecycle!LastOf
  <2>2. CASE i # Len(h) + 1
    <3>1. i \in 2..Len(h) /\ i - 1 \in 1..Len(h) /\ i \in 1..Len(h)
      BY <1>1, <2>2
    <3>. QED BY <1>1, <3>1 DEF Lifecycle!Legal
  <2>. QED BY <2>1, <2>2
<1>4. Append(h, to) # << >>
  BY <1>1
<1>. QED BY <1>1, <1>2, <1>3, <1>4 DEF Lifecycle!Legal

\* A history has one event per entry.
LEMMA EventsType ==
    ASSUME NEW h \in Seq(Lifecycle!State)
    PROVE  /\ EventsOf(h) \in Seq(RunEvent)
           /\ Len(EventsOf(h)) = Len(h)
           /\ \A i \in 1..Len(h) : EventsOf(h)[i] \in RunEvent
<1>1. \A i \in 1..Len(h) : EventsOf(h)[i] \in RunEvent
  <2>. TAKE i \in 1..Len(h)
  <2>1. h[i] \in Lifecycle!State
    OBVIOUS
  <2>2. EventsOf(h)[i] = IF i = 1 THEN "created" ELSE eventKindForTransition(h[i - 1], h[i])
    BY DEF EventsOf
  <2>. QED BY <2>1, <2>2 DEF eventKindForTransition, RunEvent, Lifecycle!State
<1>2. Len(h) \in Nat
  OBVIOUS
<1>. QED BY <1>1, <1>2 DEF EventsOf

\* The events of the entries there were do not change when one is added.
LEMMA EventsOfAppend ==
    ASSUME NEW h \in Seq(Lifecycle!State), NEW to \in Lifecycle!State
    PROVE  \A i \in 1..Len(h) : EventsOf(Append(h, to))[i] = EventsOf(h)[i]
<1>. TAKE i \in 1..Len(h)
<1>1. /\ Len(Append(h, to)) = Len(h) + 1
      /\ \A j \in 1..Len(h) : Append(h, to)[j] = h[j]
  OBVIOUS
<1>2. i = 1 \/ i - 1 \in 1..Len(h)
  OBVIOUS
<1>3. i \in 1..Len(Append(h, to))
  BY <1>1
<1>4. CASE i = 1
  BY <1>3, <1>4 DEF EventsOf
<1>5. CASE i # 1
  <2>1. Append(h, to)[i] = h[i] /\ Append(h, to)[i - 1] = h[i - 1]
    BY <1>1, <1>2, <1>5
  <2>. QED BY <1>3, <1>5, <2>1 DEF EventsOf
<1>. QED BY <1>4, <1>5

---------------------------------------------------------------------------
(* A step that touches no file.                                            *)

\* Nothing about the other processes changes.
Others(p) ==
    \A q \in Proc \ {p} :
        pc'[q] = pc[q] /\ op'[q] = op[q] /\ copy'[q] = copy[q] /\ alive'[q] = alive[q]

LEMMA HolderIsAlone ==
    ASSUME IInv, NEW p \in Proc, alive[p], pc[p] \in Locked
    PROVE  holder = {p} /\ \A q \in Proc \ {p} : ~(alive[q] /\ pc[q] \in Locked)
BY DEF IInv, LockInv, TypeOK, Lock!TypeOK

\* Who is not the holder reads the record as it is.
LEMMA HolderReads ==
    ASSUME IInv, NEW p \in Proc, alive[p], pc[p] \in Locked
    PROVE  Reads(p) = {run}
<1>1. \A q \in Proc \ {p} : ~Writing(q)
  <2>. SUFFICES ASSUME NEW q \in Proc \ {p}, Writing(q) PROVE FALSE
    OBVIOUS
  <2>1. alive[q] /\ pc[q] = "write"
    BY DEF Writing, IInv, TypeOK, Steps, Locked
  <2>. QED BY <2>1, HolderIsAlone DEF Locked
<1>. QED BY <1>1 DEF Reads

LEMMA PendingSame ==
    ASSUME \A q \in Proc : At(q, "emit")' <=> At(q, "emit")
    PROVE  Pending' = Pending
BY DEF Pending, Emitting

\* Only the conjuncts about p can be disturbed.
LEMMA LocalStep ==
    ASSUME IInv, NEW p \in Proc, UNCHANGED <<files, alive, crashes, refused>>, Others(p),
           TypeOK', OpOK', LockInv', CallInv(p)',
           ~At(p, "emit"), ~At(p, "emit")',
           SummaryInv'
    PROVE  IInv'
<1>. USE DEF files
<1>1. HistoryIsLegal'
  BY DEF IInv, HistoryIsLegal, Unreadable
<1>2. \A q \in Proc : At(q, "emit")' <=> At(q, "emit")
  BY DEF At, Others
<1>3. TrailInv'
  BY <1>2, PendingSame DEF IInv, TrailInv, Unreadable
<1>4. \A q \in Proc \ {p} : CallInv(q)'
  <2>. SUFFICES ASSUME NEW q \in Proc \ {p} PROVE CallInv(q)'
    OBVIOUS
  <2>1. CallInv(q)
    BY DEF IInv
  <2>. QED BY <2>1 DEF CallInv, WriteInv, At, Others, Unreadable
<1>. QED BY <1>1, <1>3, <1>4 DEF IInv

\* A step outside the summary leaves it as it is.
LEMMA SummarySame ==
    ASSUME IInv, NEW p \in Proc, UNCHANGED <<files, crashes, alive>>, Others(p),
           ~At(p, "summary"), ~At(p, "write"), ~At(p, "summary")', ~At(p, "write")'
    PROVE  SummaryInv'
<1>. USE DEF files
<1>1. Counting' <=> Counting
  BY DEF Counting, At, Others
<1>2. \A q \in Proc : At(q, "write")' <=> At(q, "write")
  BY DEF At, Others
<1>3. Recorded' = Recorded
  BY DEF Recorded
<1>4. \A q \in Proc : At(q, "write")' => copy'[q] = copy[q]
  BY DEF At, Others
<1>. QED BY <1>1, <1>2, <1>3, <1>4 DEF IInv, SummaryInv, Unreadable

---------------------------------------------------------------------------
(* Entering and leaving a call.                                            *)

\* The steps of the processes are Steps.
LEMMA GotoSteps ==
    ASSUME TypeOK, NEW p \in Proc, NEW s \in Steps, Goto(p, s)
    PROVE  /\ pc' \in [Proc -> Steps] /\ pc'[p] = s
           /\ \A q \in Proc \ {p} : pc'[q] = pc[q]
BY DEF TypeOK, Goto

LEMMA BeginInv ==
    ASSUME IInv, NEW p \in Proc, Begin(p)
    PROVE  IInv'
<1>1. /\ TypeOK /\ OpOK /\ LockInv /\ CallInv(p) /\ alive[p] /\ pc[p] = "idle"
  BY DEF IInv, Begin, At
<1>2. PICK name \in Operation \cap DOMAIN Calls : \E call \in Calls[name] : Start(p, call, "idle")
  BY DEF Begin
<1>3. PICK call \in Calls[name] : Start(p, call, "idle")
  BY <1>2
<1>4. call \in Call /\ (call.name = "attempt" => run # Absent)
  <2>1. CASE name = "create"
    BY <2>1 DEF Calls, Created, Call
  <2>2. CASE name = "transition"
    <3>1. "admitted" \in Lifecycle!State
      BY DEF Lifecycle!State
    <3>2. \E to \in Lifecycle!State, c \in BOOLEAN : call = Transition(to, c)
      <4>1. Calls[name] = {Transition(to, TRUE) : to \in Lifecycle!State}
                            \cup {Transition("admitted", FALSE)}
        BY <2>2 DEF Calls
      <4>. QED BY <3>1, <4>1
    <3>. QED BY <3>2 DEF Transition, Call
  <2>3. CASE name = "attempt"
    <3>1. ~Unreadable
      BY <2>3 DEF Calls
    <3>. QED BY <2>3, <3>1 DEF Calls, Record, Call, AttemptState, FinalAttemptStates, Recorded, Unreadable
  <2>. QED BY <2>1, <2>2, <2>3 DEF Calls
<1>5. /\ op' \in [Proc -> [call : Call, then : {"idle"}]]
      /\ op'[p].call = call
      /\ \A q \in Proc \ {p} : op'[q] = op[q]
  BY <1>1, <1>3, <1>4 DEF Start, OpOK
<1>6. /\ pc' \in [Proc -> Steps] /\ pc'[p] = "lock"
      /\ \A q \in Proc \ {p} : pc'[q] = pc[q]
  BY <1>1, <1>3, GotoSteps DEF Start, Steps
<1>7. UNCHANGED <<holder, orphan, run, attempts, events, alive, copy, crashes, refused>>
  BY DEF Begin, lockVars, files
<1>8. Others(p)
  BY <1>5, <1>6, <1>7 DEF Others
<1>9. TypeOK'
  BY <1>1, <1>6, <1>7 DEF TypeOK, Lock!TypeOK, Begin
<1>10. LockInv'
  BY <1>1, <1>6, <1>7 DEF LockInv, Locked
<1>11. CallInv(p)'
  BY <1>4, <1>5, <1>6, <1>7 DEF CallInv, At
<1>12. SummaryInv'
  BY <1>1, <1>6, <1>7, <1>8, SummarySame DEF At, files
<1>. QED
  BY <1>1, <1>5, <1>6, <1>7, <1>8, <1>9, <1>10, <1>11, <1>12, LocalStep DEF OpOK, At, files

LEMMA AcquireInv ==
    ASSUME IInv, NEW p \in Proc, Acquire(p)
    PROVE  IInv'
<1>1. /\ TypeOK /\ OpOK /\ LockInv /\ CallInv(p) /\ alive[p] /\ pc[p] = "lock"
  BY DEF IInv, Acquire, At
<1>2. UNCHANGED <<orphan, run, attempts, events, alive, op, copy, result, calls, crashes, refused>>
  BY DEF Acquire, files, locals, counters, Lock!Acquire
<1>3. holder = {} /\ holder' = {p}
  BY DEF Acquire, Lock!Acquire
<1>4. /\ pc' \in [Proc -> Steps] /\ pc'[p] = "read"
      /\ \A q \in Proc \ {p} : pc'[q] = pc[q]
  BY <1>1, GotoSteps DEF Acquire, Steps, Locked
<1>5. Others(p)
  BY <1>2, <1>4 DEF Others
<1>6. TypeOK'
  BY <1>1, <1>2, <1>3, <1>4 DEF TypeOK, Lock!TypeOK
<1>7. LockInv'
  BY <1>1, <1>2, <1>3, <1>4 DEF LockInv, Locked
<1>8. CallInv(p)'
  BY <1>1, <1>2, <1>4 DEF CallInv, At
<1>9. SummaryInv'
  BY <1>1, <1>2, <1>4, <1>5, SummarySame DEF At, files
<1>. QED
  BY <1>1, <1>2, <1>4, <1>5, <1>6, <1>7, <1>8, <1>9, LocalStep DEF OpOK, At, files

\* The locals of a call that is over.
LEMMA ForgetType ==
    ASSUME TypeOK, OpOK, NEW p \in Proc, Forget(p)
    PROVE  /\ OpOK' /\ copy' \in [Proc -> RunRecord]
           /\ op'[p].call.name = "create"
           /\ \A q \in Proc \ {p} : op'[q] = op[q] /\ copy'[q] = copy[q]
<1>1. NoCall \in [call : Call, then : {"idle"}] /\ NoCall.call.name = "create"
  BY DEF NoCall, Created, Call
<1>. QED BY <1>1, NewRunType DEF Forget, TypeOK, OpOK

LEMMA LockRefusedInv ==
    ASSUME IInv, NEW p \in Proc, LockRefused(p)
    PROVE  IInv'
<1>1. /\ TypeOK /\ OpOK /\ LockInv /\ CallInv(p) /\ alive[p] /\ pc[p] = "lock"
      /\ op[p].then = "idle"
  BY DEF IInv, LockRefused, At, OpOK
<1>2. UNCHANGED <<holder, orphan, run, attempts, events, alive, calls, crashes, refused>>
  BY DEF LockRefused, lockVars, files, counters
<1>3. /\ pc' \in [Proc -> Steps] /\ pc'[p] = "idle"
      /\ \A q \in Proc \ {p} : pc'[q] = pc[q]
  BY <1>1, GotoSteps DEF LockRefused, Return, Steps
<1>4. /\ OpOK' /\ copy' \in [Proc -> RunRecord] /\ op'[p].call.name = "create"
      /\ \A q \in Proc \ {p} : op'[q] = op[q] /\ copy'[q] = copy[q]
  BY <1>1, ForgetType DEF LockRefused
<1>5. Others(p)
  BY <1>2, <1>3, <1>4 DEF Others
<1>6. TypeOK'
  BY <1>1, <1>2, <1>3, <1>4 DEF TypeOK, Lock!TypeOK
<1>7. LockInv'
  BY <1>1, <1>2, <1>3 DEF LockInv, Locked
<1>8. CallInv(p)'
  BY <1>3, <1>4 DEF CallInv, At
<1>9. SummaryInv'
  BY <1>1, <1>2, <1>3, <1>5, SummarySame DEF At, files
<1>. QED
  BY <1>1, <1>2, <1>3, <1>4, <1>5, <1>6, <1>7, <1>8, <1>9, LocalStep DEF At, files

LEMMA UnlockInv ==
    ASSUME IInv, NEW p \in Proc, Unlock(p)
    PROVE  IInv'
<1>1. /\ TypeOK /\ OpOK /\ LockInv /\ CallInv(p) /\ alive[p] /\ pc[p] = "unlock"
      /\ op[p].then = "idle"
  BY DEF IInv, Unlock, At, OpOK
<1>2. UNCHANGED <<orphan, run, attempts, events, alive, calls, crashes, refused>>
  BY DEF Unlock, files, counters, Lock!Release
<1>3. holder = {p} /\ holder' = {}
  BY DEF Unlock, Lock!Release
<1>4. /\ pc' \in [Proc -> Steps] /\ pc'[p] = "idle"
      /\ \A q \in Proc \ {p} : pc'[q] = pc[q]
  BY <1>1, GotoSteps DEF Unlock, Steps
<1>5. /\ OpOK' /\ copy' \in [Proc -> RunRecord] /\ op'[p].call.name = "create"
      /\ \A q \in Proc \ {p} : op'[q] = op[q] /\ copy'[q] = copy[q]
  BY <1>1, ForgetType DEF Unlock
<1>6. Others(p)
  BY <1>2, <1>4, <1>5 DEF Others
<1>7. TypeOK'
  BY <1>1, <1>2, <1>3, <1>4, <1>5 DEF TypeOK, Lock!TypeOK
<1>8. LockInv'
  BY <1>1, <1>2, <1>3, <1>4 DEF LockInv, Locked
<1>9. CallInv(p)'
  BY <1>4, <1>5 DEF CallInv, At
<1>10. SummaryInv'
  BY <1>1, <1>2, <1>4, <1>6, SummarySame DEF At, files
<1>. QED
  BY <1>1, <1>2, <1>4, <1>5, <1>6, <1>7, <1>8, <1>9, <1>10, LocalStep DEF At, files

---------------------------------------------------------------------------
(* The steps that read.                                                    *)

\* A reader that holds the lock: its step, then a step that holds it too.
LEMMA ReaderStep ==
    ASSUME IInv, NEW p \in Proc, At(p, "read") \/ At(p, "summary"), Unchanged(p),
           NEW s \in {"write", "attemptWrite", "unlock"}, Goto(p, s),
           copy' \in [Proc -> RunRecord],
           \A q \in Proc \ {p} : copy'[q] = copy[q],
           CallInv(p)', SummaryInv'
    PROVE  IInv'
<1>1. /\ TypeOK /\ OpOK /\ LockInv /\ alive[p] /\ pc[p] \in {"read", "summary"}
  BY DEF IInv, At
<1>2. UNCHANGED <<holder, orphan, run, attempts, events, alive, op, calls, crashes, refused>>
  BY DEF Unchanged, lockVars, files
<1>3. /\ pc' \in [Proc -> Steps] /\ pc'[p] = s
      /\ \A q \in Proc \ {p} : pc'[q] = pc[q]
  BY <1>1, GotoSteps DEF Steps, Locked
<1>4. Others(p)
  BY <1>2, <1>3 DEF Others
<1>5. TypeOK'
  BY <1>1, <1>2, <1>3 DEF TypeOK, Lock!TypeOK
<1>6. LockInv'
  BY <1>1, <1>2, <1>3 DEF LockInv, Locked
<1>. QED
  BY <1>1, <1>2, <1>3, <1>4, <1>5, <1>6, LocalStep DEF OpOK, At, files

\* A reader that refuses goes to unlock.
LEMMA RefuseInv ==
    ASSUME IInv, NEW p \in Proc, At(p, "read"), Unchanged(p), UNCHANGED copy,
           Goto(p, "unlock")
    PROVE  IInv'
<1>1. TypeOK /\ CallInv(p) /\ alive[p] /\ pc[p] = "read"
  BY DEF IInv, At
<1>2. /\ pc'[p] = "unlock" /\ \A q \in Proc \ {p} : pc'[q] = pc[q]
  BY <1>1, GotoSteps DEF Steps, Locked
<1>3. UNCHANGED <<files, alive, op, crashes>>
  BY DEF Unchanged
<1>4. CallInv(p)'
  BY <1>1, <1>2, <1>3 DEF CallInv, At, files
<1>5. SummaryInv'
  BY <1>1, <1>2, <1>3, SummarySame DEF At, Others
<1>. QED BY <1>1, <1>4, <1>5, ReaderStep DEF TypeOK

\* What createRun or transitionRun is about to write counts the attempts.
LEMMA ReadyToWrite ==
    ASSUME IInv, NEW p \in Proc, At(p, "read"), Unchanged(p), Others(p),
           op[p].call.name # "attempt", pc'[p] = "write",
           \/ run = Absent /\ copy'[p].attempts = 0
           \/ ~Unreadable /\ copy'[p].attempts = run.attempts
    PROVE  SummaryInv'
<1>1. UNCHANGED <<run, attempts, alive, op, crashes>>
  BY DEF Unchanged, files
<1>2. Recorded' = Recorded
  BY <1>1 DEF Recorded
<1>3. \A q \in Proc \ {p} : ~At(q, "write") /\ ~At(q, "summary")
  BY HolderIsAlone DEF At, Locked
<1>4. ~Counting
  BY <1>3 DEF Counting, At
<1>5. \A q \in Proc \ {p} : ~At(q, "write")'
  BY <1>3 DEF At, Others
<1>6. run = Absent => Cardinality(Recorded) = 0
  BY FS_EmptySet DEF IInv, SummaryInv
<1>. QED BY <1>1, <1>2, <1>4, <1>5, <1>6 DEF IInv, SummaryInv, Unreadable

LEMMA ReadForCreateInv ==
    ASSUME IInv, NEW p \in Proc, ReadForCreate(p)
    PROVE  IInv'
<1>1. /\ TypeOK /\ CallInv(p) /\ At(p, "read") /\ Unchanged(p) /\ op[p].call.name = "create"
  BY DEF IInv, ReadForCreate
<1>2. UNCHANGED <<run, attempts, alive, op, crashes>>
  BY <1>1 DEF Unchanged, files
<1>3. CASE run = Absent
  <2>1. /\ copy' \in [Proc -> RunRecord] /\ copy'[p] = NewRun
        /\ \A q \in Proc \ {p} : copy'[q] = copy[q]
    BY <1>1, <1>3, NewRunType DEF ReadForCreate, TypeOK
  <2>2. Goto(p, "write")
    BY <1>3 DEF ReadForCreate
  <2>3. /\ pc'[p] = "write" /\ \A q \in Proc \ {p} : pc'[q] = pc[q]
    BY <1>1, <2>2, GotoSteps DEF Steps, Locked
  <2>4. CallInv(p)'
    BY <1>1, <1>2, <1>3, <2>1, <2>3 DEF CallInv, WriteInv, At
  <2>5. SummaryInv'
    BY <1>1, <1>2, <1>3, <2>1, <2>3, ReadyToWrite, NewRunType DEF Others
  <2>. QED BY <1>1, <2>1, <2>2, <2>4, <2>5, ReaderStep
<1>4. CASE run # Absent
  BY <1>1, <1>4, RefuseInv DEF ReadForCreate, Return
<1>. QED BY <1>3, <1>4

LEMMA ReadForTransitionInv ==
    ASSUME IInv, NEW p \in Proc, ReadForTransition(p)
    PROVE  IInv'
<1>1. /\ TypeOK /\ CallInv(p) /\ At(p, "read") /\ Unchanged(p)
      /\ op[p].call.name = "transition" /\ op[p].call.to \in Lifecycle!State
  BY CallKinds DEF IInv, OpOK, ReadForTransition
<1>2. UNCHANGED <<run, attempts, alive, op, crashes>>
  BY <1>1 DEF Unchanged, files
<1>3. Reads(p) = {run}
  BY <1>1, HolderReads DEF At, Locked
<1>4. CASE Refusal(run, op[p].call) = "none"
  <2>1. /\ ~Unreadable /\ run \in RunRecord
        /\ Lifecycle!isLegalTransition(StateOf(run), op[p].call.to)
    BY <1>1, <1>4 DEF Refusal, Unreadable, TypeOK
  <2>2. /\ copy' = [copy EXCEPT ![p] =
                        [run EXCEPT !.history = Append(run.history, op[p].call.to)]]
        /\ Goto(p, "write")
    BY <1>3, <1>4 DEF ReadForTransition
  <2>3. /\ [run EXCEPT !.history = Append(run.history, op[p].call.to)] \in RunRecord
        /\ [run EXCEPT !.history = Append(run.history, op[p].call.to)].attempts = run.attempts
        /\ [run EXCEPT !.history = Append(run.history, op[p].call.to)].history =
                Append(run.history, op[p].call.to)
    BY <1>1, <2>1 DEF RunRecord
  <2>4. /\ copy' \in [Proc -> RunRecord]
        /\ copy'[p].attempts = run.attempts
        /\ copy'[p].history = Append(run.history, op[p].call.to)
        /\ \A q \in Proc \ {p} : copy'[q] = copy[q]
    BY <1>1, <2>2, <2>3 DEF TypeOK
  <2>5. /\ pc'[p] = "write" /\ \A q \in Proc \ {p} : pc'[q] = pc[q]
    BY <1>1, <2>2, GotoSteps DEF Steps, Locked
  <2>6. CallInv(p)'
    BY <1>1, <1>2, <2>1, <2>4, <2>5 DEF CallInv, WriteInv, At, Unreadable, StateOf
  <2>7. SummaryInv'
    BY <1>1, <1>2, <2>1, <2>4, <2>5, ReadyToWrite DEF Others
  <2>. QED BY <1>1, <2>2, <2>4, <2>6, <2>7, ReaderStep
<1>5. CASE Refusal(run, op[p].call) # "none"
  <2>1. Goto(p, "unlock") /\ UNCHANGED copy
    BY <1>3, <1>5 DEF ReadForTransition, Return
  <2>. QED BY <1>1, <2>1, RefuseInv
<1>. QED BY <1>4, <1>5

LEMMA ReadAttemptInv ==
    ASSUME IInv, NEW p \in Proc, ReadAttempt(p)
    PROVE  IInv'
<1>1. /\ TypeOK /\ CallInv(p) /\ At(p, "read") /\ Unchanged(p) /\ UNCHANGED copy
      /\ op[p].call.name = "attempt"
  BY DEF IInv, ReadAttempt
<1>2. UNCHANGED <<files, alive, op, crashes>>
  BY <1>1 DEF Unchanged
<1>3. CASE Goto(p, "unlock")
  BY <1>1, <1>3, RefuseInv
<1>4. CASE ~Goto(p, "unlock")
  <2>1. Goto(p, "attemptWrite") /\ attempts[op[p].call.id] \notin FinalAttemptStates
    BY <1>4 DEF ReadAttempt, Return
  <2>2. /\ pc'[p] = "attemptWrite" /\ \A q \in Proc \ {p} : pc'[q] = pc[q]
    BY <1>1, <2>1, GotoSteps DEF Steps, Locked
  <2>3. CallInv(p)'
    BY <1>1, <1>2, <2>1, <2>2 DEF CallInv, At, files
  <2>4. SummaryInv'
    BY <1>1, <1>2, <2>2, SummarySame DEF At, Others
  <2>. QED BY <1>1, <2>1, <2>3, <2>4, ReaderStep DEF TypeOK
<1>. QED BY <1>3, <1>4

LEMMA RecordedCount == Cardinality(Recorded) \in Nat
<1>1. IsFiniteSet(Recorded)
  BY AttemptAssumption, FS_Subset DEF Recorded
<1>. QED BY <1>1, FS_CardinalityType

LEMMA RefreshSummaryInv ==
    ASSUME IInv, NEW p \in Proc, RefreshSummary(p)
    PROVE  IInv'
<1>1. /\ TypeOK /\ CallInv(p) /\ At(p, "summary") /\ Unchanged(p)
      /\ op[p].call.name = "attempt"
  BY DEF IInv, RefreshSummary, CallInv, At
<1>2. UNCHANGED <<run, attempts, alive, op, crashes>>
  BY <1>1 DEF Unchanged, files
<1>3. Reads(p) = {run}
  BY <1>1, HolderReads DEF At, Locked
<1>4. \A q \in Proc \ {p} : ~At(q, "write") /\ ~At(q, "summary")
  BY <1>1, HolderIsAlone DEF At, Locked
<1>5. Recorded' = Recorded
  BY <1>2 DEF Recorded
<1>6. CASE Corrupt \in {attempts[id] : id \in Attempt} \/ run \in {Absent, Corrupt}
  <2>1. Goto(p, "unlock") /\ UNCHANGED copy
    BY <1>3, <1>6 DEF RefreshSummary, Return
  <2>2. pc'[p] = "unlock" /\ \A q \in Proc \ {p} : pc'[q] = pc[q]
    BY <1>1, <2>1, GotoSteps DEF Steps, Locked
  <2>3. CallInv(p)'
    BY <1>1, <1>2, <2>2 DEF CallInv, At
  <2>4. \A q \in Proc : ~At(q, "write")'
    BY <1>2, <1>4, <2>2 DEF At
  <2>5. SummaryInv'
    BY <1>2, <1>5, <1>6, <2>4 DEF IInv, SummaryInv, Unreadable
  <2>. QED BY <1>1, <2>1, <2>3, <2>5, ReaderStep DEF TypeOK
<1>7. CASE ~(Corrupt \in {attempts[id] : id \in Attempt} \/ run \in {Absent, Corrupt})
  <2>1. /\ copy' = [copy EXCEPT ![p] = [run EXCEPT !.attempts = Cardinality(Recorded)]]
        /\ Goto(p, "write")
    BY <1>3, <1>7 DEF RefreshSummary
  <2>2. run \in RunRecord /\ ~Unreadable
    BY <1>1, <1>7 DEF TypeOK, Unreadable
  <2>3. /\ [run EXCEPT !.attempts = Cardinality(Recorded)] \in RunRecord
        /\ [run EXCEPT !.attempts = Cardinality(Recorded)].attempts = Cardinality(Recorded)
        /\ [run EXCEPT !.attempts = Cardinality(Recorded)].history = run.history
    BY <2>2, RecordedCount DEF RunRecord
  <2>4. /\ copy' \in [Proc -> RunRecord]
        /\ copy'[p].attempts = Cardinality(Recorded) /\ copy'[p].history = run.history
        /\ \A q \in Proc \ {p} : copy'[q] = copy[q]
    BY <1>1, <2>1, <2>3 DEF TypeOK
  <2>5. pc'[p] = "write" /\ \A q \in Proc \ {p} : pc'[q] = pc[q]
    BY <1>1, <2>1, GotoSteps DEF Steps, Locked
  <2>6. CallInv(p)'
    BY <1>1, <1>2, <2>2, <2>4, <2>5 DEF CallInv, WriteInv, At, Unreadable
  <2>7. Counting'
    BY <1>1, <1>2, <2>5 DEF Counting, At
  <2>8. \A q \in Proc \ {p} : ~At(q, "write")'
    BY <1>2, <1>4, <2>5 DEF At
  <2>9. SummaryInv'
    BY <1>2, <1>5, <2>4, <2>7, <2>8 DEF IInv, SummaryInv, Unreadable
  <2>. QED BY <1>1, <2>1, <2>4, <2>6, <2>9, ReaderStep
<1>. QED BY <1>6, <1>7

---------------------------------------------------------------------------
(* The steps that write.                                                   *)

\* What a holder's step does to the others: they hold nothing.
LEMMA OthersQuiet ==
    ASSUME IInv, NEW p \in Proc, alive[p], pc[p] \in Locked, Others(p), run' # Absent
    PROVE  \A q \in Proc \ {p} : CallInv(q)'
<1>. SUFFICES ASSUME NEW q \in Proc \ {p} PROVE CallInv(q)'
  OBVIOUS
<1>1. ~(alive[q] /\ pc[q] \in Locked)
  BY HolderIsAlone
<1>2. ~(alive[q] /\ pc[q] \in Locked)'
  BY <1>1 DEF Others
<1>. QED BY <1>2 DEF CallInv, At, Locked

LEMMA WriteAttemptInv ==
    ASSUME IInv, NEW p \in Proc, WriteAttempt(p)
    PROVE  IInv'
<1>1. /\ TypeOK /\ OpOK /\ LockInv /\ CallInv(p) /\ alive[p] /\ pc[p] = "attemptWrite"
      /\ op[p].call.name = "attempt" /\ run # Absent
  BY DEF IInv, WriteAttempt, CallInv, At
<1>2. UNCHANGED <<holder, orphan, run, events, alive, op, copy, result, calls, crashes, refused>>
  BY DEF WriteAttempt, lockVars, locals, counters
<1>3. op[p].call.id \in Attempt /\ op[p].call.state \in AttemptState
  BY <1>1, CallKinds DEF OpOK
<1>4. /\ pc' \in [Proc -> Steps] /\ pc'[p] = "summary"
      /\ \A q \in Proc \ {p} : pc'[q] = pc[q]
  BY <1>1, GotoSteps DEF WriteAttempt, Steps, Locked
<1>5. attempts' = [attempts EXCEPT ![op[p].call.id] = op[p].call.state]
  BY DEF WriteAttempt
<1>6. TypeOK'
  BY <1>1, <1>2, <1>3, <1>4, <1>5 DEF TypeOK, Lock!TypeOK
<1>7. LockInv'
  BY <1>1, <1>2, <1>4 DEF LockInv, Locked
<1>8. CallInv(p)'
  BY <1>1, <1>2, <1>4 DEF CallInv, At
<1>9. Others(p)
  BY <1>2, <1>4 DEF Others
<1>10. \A q \in Proc \ {p} : CallInv(q)'
  BY <1>1, <1>2, <1>9, OthersQuiet DEF Locked
<1>11. HistoryIsLegal'
  BY <1>2 DEF IInv, HistoryIsLegal, Unreadable
<1>12. TrailInv'
  <2>1. \A q \in Proc : At(q, "emit")' <=> At(q, "emit")
    BY <1>1, <1>2, <1>4 DEF At
  <2>. QED BY <1>2, <2>1, PendingSame DEF IInv, TrailInv, Unreadable
<1>13. SummaryInv'
  <2>1. Counting'
    BY <1>1, <1>2, <1>4 DEF Counting, At
  <2>2. \A q \in Proc : ~At(q, "write")'
    <3>1. \A q \in Proc \ {p} : ~At(q, "write")
      BY <1>1, HolderIsAlone DEF At, Locked
    <3>. QED BY <1>2, <1>4, <3>1 DEF At
  <2>3. crashes = 0 => \A id \in Attempt : attempts'[id] # Corrupt
    BY <1>1, <1>3, <1>5, FileAssumption DEF IInv, SummaryInv, TypeOK
  <2>. QED BY <1>1, <1>2, <2>1, <2>2, <2>3 DEF SummaryInv
<1>. QED BY <1>1, <1>2, <1>6, <1>7, <1>8, <1>10, <1>11, <1>12, <1>13 DEF IInv, OpOK

---------------------------------------------------------------------------
(* The trail.                                                              *)

Event == RunEvent \cup ExecutionEvent

LEMMA FollowsEmpty ==
    ASSUME NEW h, NEW n \in Nat
    PROVE  Follows(<< >>, h, n)
<1>. DEFINE f == [i \in 1..0 |-> 1]
<1>1. 1..Len(<< >>) = {} /\ 1..0 = {}
  OBVIOUS
<1>2. f \in [1..Len(<< >>) -> 1..n]
  BY <1>1
<1>. HIDE DEF f
<1>. QED BY <1>1, <1>2 DEF Follows

LEMMA FollowsWider ==
    ASSUME NEW trail \in Seq(Event), NEW h, NEW n \in Nat, NEW m \in Nat, n <= m,
           Follows(trail, h, n)
    PROVE  Follows(trail, h, m)
<1>1. PICK f \in [1..Len(trail) -> 1..n] :
        /\ \A i \in 1..Len(trail) : trail[i] = EventsOf(h)[f[i]]
        /\ \A i, j \in 1..Len(trail) : i < j => f[i] < f[j]
  BY DEF Follows
<1>2. f \in [1..Len(trail) -> 1..m]
  OBVIOUS
<1>. QED BY <1>1, <1>2 DEF Follows

LEMMA FollowsAppend ==
    ASSUME NEW trail \in Seq(Event), NEW h \in Seq(Lifecycle!State),
           NEW to \in Lifecycle!State, NEW n \in 0..Len(h), Follows(trail, h, n)
    PROVE  Follows(trail, Append(h, to), n)
<1>1. PICK f \in [1..Len(trail) -> 1..n] :
        /\ \A i \in 1..Len(trail) : trail[i] = EventsOf(h)[f[i]]
        /\ \A i, j \in 1..Len(trail) : i < j => f[i] < f[j]
  BY DEF Follows
<1>2. \A i \in 1..Len(trail) : f[i] \in 1..Len(h)
  OBVIOUS
<1>3. \A i \in 1..Len(trail) : trail[i] = EventsOf(Append(h, to))[f[i]]
  BY <1>1, <1>2, EventsOfAppend
<1>. QED BY <1>1, <1>3 DEF Follows

\* The event of the last entry is appended.
LEMMA FollowsEmit ==
    ASSUME NEW trail \in Seq(Event), NEW h \in Seq(Lifecycle!State), h # << >>,
           Follows(trail, h, Len(h) - 1)
    PROVE  Follows(Append(trail, EventsOf(h)[Len(h)]), h, Len(h))
<1>. DEFINE last == EventsOf(h)[Len(h)]
            longer == Append(trail, last)
<1>1. PICK f \in [1..Len(trail) -> 1..(Len(h) - 1)] :
        /\ \A i \in 1..Len(trail) : trail[i] = EventsOf(h)[f[i]]
        /\ \A i, j \in 1..Len(trail) : i < j => f[i] < f[j]
  BY DEF Follows
<1>. DEFINE g == [i \in 1..Len(longer) |-> IF i = Len(longer) THEN Len(h) ELSE f[i]]
<1>2. Len(h) \in Nat /\ Len(h) >= 1 /\ Len(trail) \in Nat
  OBVIOUS
<1>3. /\ Len(longer) = Len(trail) + 1
      /\ longer[Len(longer)] = last
      /\ \A i \in 1..Len(trail) : longer[i] = trail[i]
  OBVIOUS
<1>4. \A i \in 1..Len(longer) : i = Len(longer) \/ i \in 1..Len(trail)
  BY <1>2, <1>3
<1>5. \A i \in 1..Len(trail) : f[i] \in 1..Len(h) /\ f[i] < Len(h)
  BY <1>2
<1>6. /\ \A i \in 1..Len(trail) : g[i] = f[i]
      /\ g[Len(longer)] = Len(h)
  BY <1>2, <1>3
<1>. HIDE DEF longer
<1>7. g \in [1..Len(longer) -> 1..Len(h)]
  BY <1>2, <1>4, <1>5
<1>. HIDE DEF g, last
<1>8. \A i \in 1..Len(longer) : longer[i] = EventsOf(h)[g[i]]
  BY <1>1, <1>3, <1>4, <1>6 DEF last
<1>9. \A i, j \in 1..Len(longer) : i < j => g[i] < g[j]
  <2>. SUFFICES ASSUME NEW i \in 1..Len(longer), NEW j \in 1..Len(longer), i < j
                PROVE  g[i] < g[j]
    OBVIOUS
  <2>1. i \in 1..Len(trail)
    BY <1>2, <1>3
  <2>2. CASE j = Len(longer)
    BY <1>5, <1>6, <2>1, <2>2
  <2>3. CASE j \in 1..Len(trail)
    BY <1>1, <1>6, <2>1, <2>3
  <2>. QED BY <1>4, <2>2, <2>3
<1>. QED BY <1>7, <1>8, <1>9 DEF Follows, longer, last

---------------------------------------------------------------------------
(* The steps that write the run's record or its trail.                     *)

\* What a call built is a record, and a legal one.
LEMMA WritesLegal ==
    ASSUME IInv, NEW p \in Proc, At(p, "write")
    PROVE  /\ copy[p] \in RunRecord /\ run # Corrupt
           /\ copy[p].history # << >> /\ Lifecycle!Legal(copy[p].history)
<1>1. /\ TypeOK /\ WriteInv(p) /\ HistoryIsLegal /\ op[p].call \in Call
  BY DEF IInv, OpOK, CallInv
<1>2. copy[p] \in RunRecord
  BY <1>1 DEF TypeOK
<1>3. CASE op[p].call.name = "create"
  <2>1. copy[p] = NewRun /\ run = Absent
    BY <1>1, <1>3 DEF WriteInv
  <2>2. Lifecycle!Legal(<<"created">>)
    BY DEF Lifecycle!Legal
  <2>. QED BY <1>2, <2>1, <2>2, NewRunType, FileAssumption
<1>4. CASE op[p].call.name = "transition"
  <2>1. /\ run \in RunRecord /\ op[p].call.to \in Lifecycle!State
        /\ Lifecycle!isLegalTransition(Lifecycle!LastOf(run.history), op[p].call.to)
        /\ copy[p].history = Append(run.history, op[p].call.to)
        /\ run.history # << >> /\ Lifecycle!Legal(run.history)
    BY <1>1, <1>4, CallKinds DEF WriteInv, Unreadable, TypeOK, HistoryIsLegal, StateOf
  <2>2. run.history \in Seq(Lifecycle!State) /\ run # Corrupt
    BY <2>1, FileAssumption DEF RunRecord
  <2>. QED BY <1>2, <2>1, <2>2, LegalAppend
<1>5. CASE op[p].call.name = "attempt"
  BY <1>1, <1>2, <1>5 DEF WriteInv, Unreadable, HistoryIsLegal
<1>. QED BY <1>1, <1>3, <1>4, <1>5, CallKinds

\* A written record has the trail of the one before it; a created or advanced
\* one is an entry ahead of it.
LEMMA WritesTrail ==
    ASSUME IInv, NEW p \in Proc, At(p, "write")
    PROVE  LET ahead == IF op[p].call.name = "attempt" THEN 0 ELSE 1 IN
           /\ Len(copy[p].history) - ahead \in Nat
           /\ Follows(events, copy[p].history, Len(copy[p].history) - ahead)
           /\ Len(copy[p].history) <= Len(events) + crashes + refused + ahead
<1>1. /\ TypeOK /\ WriteInv(p) /\ TrailInv /\ op[p].call \in Call
      /\ alive[p] /\ pc[p] = "write"
  BY DEF IInv, OpOK, CallInv, At
<1>2. Pending = 0
  BY <1>1, HolderIsAlone DEF Pending, Emitting, At, Locked
<1>3. /\ events \in Seq(Event) /\ Len(events) \in Nat /\ crashes \in Nat /\ refused \in Nat
      /\ copy[p].history \in Seq(Lifecycle!State)
  BY <1>1 DEF TypeOK, Event, RunRecord
<1>4. CASE op[p].call.name = "create"
  <2>1. copy[p].history = <<"created">> /\ events = << >>
    BY <1>1, <1>4, NewRunType DEF WriteInv, TrailInv
  <2>2. Len(<<"created">>) = 1 /\ Len(events) = 0
    BY <2>1
  <2>3. Follows(events, copy[p].history, 0)
    BY <2>1, FollowsEmpty
  <2>. QED BY <1>3, <1>4, <2>1, <2>2, <2>3
<1>5. CASE op[p].call.name = "transition"
  <2>1. /\ run \in RunRecord /\ op[p].call.to \in Lifecycle!State
        /\ copy[p].history = Append(run.history, op[p].call.to)
    BY <1>1, <1>5, CallKinds DEF WriteInv, Unreadable, TypeOK
  <2>2. /\ run.history \in Seq(Lifecycle!State) /\ Len(run.history) \in Nat
        /\ Len(copy[p].history) = Len(run.history) + 1
    BY <2>1 DEF RunRecord
  <2>3. /\ Follows(events, run.history, Len(run.history))
        /\ Len(run.history) <= Len(events) + crashes + refused
    BY <1>1, <1>2, <1>3, <1>5, <2>2 DEF WriteInv, TrailInv
  <2>4. Follows(events, copy[p].history, Len(run.history))
    BY <1>3, <2>1, <2>2, <2>3, FollowsAppend
  <2>5. Len(copy[p].history) - 1 = Len(run.history)
    BY <2>2
  <2>. QED BY <1>3, <1>5, <2>2, <2>3, <2>4, <2>5
<1>6. CASE op[p].call.name = "attempt"
  <2>1. copy[p].history = run.history /\ ~Unreadable
    BY <1>1, <1>6 DEF WriteInv
  <2>2. Len(copy[p].history) \in Nat /\ Len(copy[p].history) - 0 = Len(copy[p].history)
    BY <1>3
  <2>3. /\ Follows(events, copy[p].history, Len(copy[p].history))
        /\ Len(copy[p].history) <= Len(events) + crashes + refused
    BY <1>1, <1>2, <1>3, <2>1, <2>2 DEF TrailInv
  <2>. QED BY <1>3, <1>6, <2>2, <2>3
<1>. QED BY <1>1, <1>4, <1>5, <1>6, CallKinds

LEMMA WriteInvStep ==
    ASSUME IInv, NEW p \in Proc, Write(p)
    PROVE  IInv'
<1>1. /\ TypeOK /\ OpOK /\ LockInv /\ CallInv(p) /\ TrailInv /\ SummaryInv
      /\ At(p, "write") /\ alive[p] /\ pc[p] = "write"
  BY DEF IInv, Write, At
<1>2. UNCHANGED <<holder, orphan, attempts, events, alive, op, copy, calls, crashes, refused>>
  BY DEF Write, lockVars, counters
<1>3. /\ run' = copy[p] /\ run' \in RunRecord /\ run' # Absent /\ ~Unreadable'
      /\ run'.history # << >> /\ Lifecycle!Legal(run'.history)
  BY <1>1, WritesLegal, RecordsAreReadable DEF Write, Unreadable
<1>. DEFINE next == IF op[p].call.name = "attempt" THEN "unlock" ELSE "emit"
<1>4. /\ pc' \in [Proc -> Steps] /\ pc'[p] = next
      /\ \A q \in Proc \ {p} : pc'[q] = pc[q]
  BY <1>1, GotoSteps DEF Write, Return, Steps, Locked
<1>5. Others(p)
  BY <1>2, <1>4 DEF Others
<1>6. TypeOK'
  BY <1>1, <1>2, <1>3, <1>4 DEF TypeOK, Lock!TypeOK
<1>7. LockInv'
  BY <1>1, <1>2, <1>4 DEF LockInv, Locked
<1>8. CallInv(p)'
  BY <1>1, <1>2, <1>3, <1>4 DEF CallInv, At
<1>9. \A q \in Proc \ {p} : CallInv(q)'
  BY <1>1, <1>3, <1>5, OthersQuiet DEF Locked
<1>10. HistoryIsLegal'
  BY <1>3 DEF HistoryIsLegal
<1>11. \A q \in Proc \ {p} : ~At(q, "write")' /\ ~At(q, "summary")' /\ ~At(q, "emit")'
  BY <1>1, <1>5, HolderIsAlone DEF At, Locked, Others
<1>12. SummaryInv'
  <2>1. ~Counting' /\ \A q \in Proc : ~At(q, "write")'
    BY <1>4, <1>11 DEF Counting, At
  <2>2. Recorded' = Recorded
    BY <1>2 DEF Recorded
  <2>. QED BY <1>1, <1>2, <1>3, <2>1, <2>2 DEF SummaryInv
<1>13. TrailInv'
  <2>1. Pending' = IF op[p].call.name = "attempt" THEN 0 ELSE 1
    BY <1>2, <1>4, <1>11, <1>1 DEF Pending, Emitting, At
  <2>. QED BY <1>1, <1>2, <1>3, <2>1, WritesTrail DEF TrailInv
<1>. QED
  BY <1>1, <1>2, <1>6, <1>7, <1>8, <1>9, <1>10, <1>12, <1>13 DEF IInv, OpOK

LEMMA EmitInv ==
    ASSUME IInv, NEW p \in Proc, Emit(p)
    PROVE  IInv'
<1>1. /\ TypeOK /\ OpOK /\ LockInv /\ CallInv(p) /\ TrailInv /\ SummaryInv /\ HistoryIsLegal
      /\ At(p, "emit") /\ alive[p] /\ pc[p] = "emit"
  BY DEF IInv, Emit, At
<1>2. UNCHANGED <<holder, orphan, run, attempts, alive, op, copy, calls, crashes>>
  BY DEF Emit, lockVars
<1>3. /\ ~Unreadable /\ run = copy[p] /\ run \in RunRecord
      /\ run.history \in Seq(Lifecycle!State) /\ run.history # << >>
  BY <1>1 DEF CallInv, Unreadable, TypeOK, RunRecord, HistoryIsLegal
<1>. DEFINE h == run.history
            last == EventsOf(h)[Len(h)]
<1>4. /\ Len(h) \in Nat /\ Len(h) >= 1
      /\ Len(EventsOf(h)) = Len(h) /\ last \in Event
  BY <1>3, EventsType DEF Event
<1>5. \/ events' = Append(events, last) /\ refused' = refused
      \/ events' = events /\ refused' = refused + 1
  BY <1>3, <1>4 DEF Emit, AppendEvent
<1>6. /\ events \in Seq(Event) /\ Len(events) \in Nat /\ refused \in Nat /\ crashes \in Nat
  BY <1>1 DEF TypeOK, Event
<1>. HIDE DEF last
<1>7. events' \in Seq(Event) /\ refused' \in Nat
  BY <1>4, <1>5, <1>6
<1>8. /\ pc' \in [Proc -> Steps] /\ pc'[p] = "unlock"
      /\ \A q \in Proc \ {p} : pc'[q] = pc[q]
  BY <1>1, GotoSteps DEF Emit, Return, Steps, Locked
<1>9. Others(p)
  BY <1>2, <1>8 DEF Others
<1>10. TypeOK'
  BY <1>1, <1>2, <1>7, <1>8 DEF TypeOK, Lock!TypeOK, Event
<1>11. LockInv'
  BY <1>1, <1>2, <1>8 DEF LockInv, Locked
<1>12. CallInv(p)'
  BY <1>1, <1>2, <1>8 DEF CallInv, At
<1>13. \A q \in Proc \ {p} : CallInv(q)'
  BY <1>1, <1>2, <1>3, <1>9, OthersQuiet DEF Locked, Unreadable
<1>14. HistoryIsLegal'
  BY <1>1, <1>2 DEF HistoryIsLegal, Unreadable
<1>15. SummaryInv'
  <2>1. Counting' <=> Counting
    BY <1>1, <1>2, <1>8 DEF Counting, At
  <2>2. \A q \in Proc : At(q, "write")' <=> At(q, "write")
    BY <1>1, <1>2, <1>8 DEF At
  <2>3. Recorded' = Recorded
    BY <1>2 DEF Recorded
  <2>. QED BY <1>1, <1>2, <2>1, <2>2, <2>3 DEF SummaryInv, Unreadable
<1>16. TrailInv'
  <2>1. Pending = 1
    BY <1>1 DEF Pending, Emitting
  <2>2. Pending' = 0
    <3>1. \A q \in Proc : ~At(q, "emit")'
      BY <1>1, <1>2, <1>8, HolderIsAlone DEF At, Locked
    <3>. QED BY <3>1 DEF Pending, Emitting
  <2>3. Follows(events, h, Len(h) - 1) /\ Len(h) <= Len(events) + crashes + refused + 1
    BY <1>1, <1>3, <2>1 DEF TrailInv
  <2>4. Follows(events', h, Len(h)) /\ Len(h) <= Len(events') + crashes + refused'
    <3>1. CASE events' = Append(events, last) /\ refused' = refused
      <4>1. Follows(events', h, Len(h))
        BY <1>3, <1>6, <2>3, <3>1, FollowsEmit DEF last
      <4>2. Len(events') = Len(events) + 1
        BY <1>4, <1>6, <3>1
      <4>. QED BY <1>4, <1>6, <2>3, <3>1, <4>1, <4>2
    <3>2. CASE events' = events /\ refused' = refused + 1
      <4>1. Follows(events', h, Len(h))
        BY <1>4, <1>6, <2>3, <3>2, FollowsWider
      <4>. QED BY <1>4, <1>6, <2>3, <3>2, <4>1
    <3>. QED BY <1>5, <3>1, <3>2
  <2>5. Len(h) - Pending' = Len(h)
    BY <1>4, <2>2
  <2>6. Len(h) <= Len(events') + crashes + refused' + Pending'
    BY <1>4, <1>6, <1>7, <2>2, <2>4
  <2>7. run' # Absent /\ run' = run
    BY <1>2, <1>3 DEF Unreadable
  <2>. QED BY <1>2, <2>4, <2>5, <2>6, <2>7 DEF TrailInv
<1>. QED
  BY <1>1, <1>2, <1>10, <1>11, <1>12, <1>13, <1>14, <1>15, <1>16 DEF IInv, OpOK

---------------------------------------------------------------------------
(* The environment.                                                        *)

LEMMA ReclaimInv ==
    ASSUME IInv, Reclaim
    PROVE  IInv'
<1>1. UNCHANGED <<holder, files, alive, pc, locals, counters>> /\ orphan' = FALSE
  BY DEF Reclaim, Lock!Reclaim
<1>2. TypeOK' /\ OpOK' /\ LockInv' /\ HistoryIsLegal'
  BY <1>1 DEF IInv, TypeOK, Lock!TypeOK, OpOK, LockInv, HistoryIsLegal, Unreadable, files,
              locals, counters
<1>3. SummaryInv'
  BY <1>1 DEF IInv, SummaryInv, Counting, At, Recorded, Unreadable, files, locals, counters
<1>4. TrailInv'
  BY <1>1 DEF IInv, TrailInv, Pending, Emitting, At, Unreadable, files, locals, counters
<1>5. \A p \in Proc : CallInv(p)'
  BY <1>1 DEF IInv, CallInv, WriteInv, At, Unreadable, files, locals, counters
<1>. QED BY <1>2, <1>3, <1>4, <1>5 DEF IInv

\* The record after a crash: the old one, or what the process was writing.
LEMMA CrashRecord ==
    ASSUME IInv, NEW p \in Proc, Crash(p)
    PROVE  \/ run' = run
           \/ run' = Corrupt
           \/ At(p, "write") /\ run' = copy[p]
<1>1. Writing(p) => At(p, "write")
  BY DEF IInv, TypeOK, Steps, Locked, Writing, At
<1>. QED BY <1>1 DEF Crash

LEMMA CrashInv ==
    ASSUME IInv, NEW p \in Proc, Crash(p)
    PROVE  IInv'
<1>1. /\ TypeOK /\ OpOK /\ LockInv /\ TrailInv /\ SummaryInv /\ HistoryIsLegal
      /\ \A q \in Proc : CallInv(q)
      /\ alive[p] /\ crashes \in Nat /\ refused \in Nat
      /\ events \in Seq(Event) /\ Len(events) \in Nat
  BY DEF IInv, Crash, TypeOK, Event
<1>2. /\ UNCHANGED <<events, pc, op, copy, result, calls, refused>>
      /\ crashes' = crashes + 1
      /\ alive' \in [Proc -> BOOLEAN] /\ ~alive'[p]
      /\ \A q \in Proc \ {p} : alive'[q] = alive[q]
  BY <1>1 DEF Crash, locals, TypeOK
<1>3. run' = Absent => run = Absent
  BY <1>1, CrashRecord, WritesLegal, RecordsAreReadable, FileAssumption
<1>4. run' \in RunRecord \cup {Absent, Corrupt}
  BY <1>1, CrashRecord, WritesLegal DEF TypeOK
<1>5. pc[p] = "attemptWrite" => op[p].call.name = "attempt"
  BY <1>1 DEF CallInv
<1>6. attempts' \in [Attempt -> AttemptState \cup {Absent, Corrupt}]
  <2>1. CASE pc[p] # "attemptWrite"
    BY <1>1, <2>1 DEF Crash, TypeOK
  <2>2. CASE pc[p] = "attemptWrite"
    <3>1. op[p].call.state \in AttemptState
      BY <1>1, <1>5, <2>2, CallKinds DEF OpOK
    <3>. QED BY <1>1, <2>2, <3>1 DEF Crash, TypeOK
  <2>. QED BY <2>1, <2>2
<1>7. /\ holder' \in SUBSET Proc /\ orphan' \in BOOLEAN
      /\ holder' = holder \ {p}
  <2>1. CASE pc[p] \in Locked
    BY <1>1, <2>1, HolderIsAlone DEF Crash, Lock!Crash
  <2>2. CASE pc[p] \notin Locked
    BY <1>1, <2>2 DEF Crash, lockVars, LockInv, TypeOK, Lock!TypeOK
  <2>. QED BY <2>1, <2>2
<1>8. TypeOK'
  BY <1>1, <1>2, <1>4, <1>6, <1>7 DEF TypeOK, Lock!TypeOK
<1>9. LockInv'
  BY <1>1, <1>2, <1>7 DEF LockInv
\* A process that goes on with the lock saw nothing of the crash.
<1>10. ASSUME NEW q \in Proc, NEW s \in Locked, At(q, s)'
       PROVE  At(q, s) /\ run' = run /\ attempts' = attempts
  <2>1. At(q, s) /\ q # p
    BY <1>2, <1>10 DEF At
  <2>2. pc[p] \notin Locked
    BY <1>1, <2>1, HolderIsAlone DEF At
  <2>3. attempts' = attempts
    BY <2>2 DEF Crash, Locked
  <2>. QED BY <2>1, <2>2, <2>3, CrashRecord DEF Crash, Writing, At, Locked, IInv, TypeOK, Steps
<1>11. HistoryIsLegal'
  BY <1>1, CrashRecord, WritesLegal DEF HistoryIsLegal, Unreadable
<1>12. ASSUME NEW q \in Proc PROVE CallInv(q)'
  <2>1. CallInv(q)
    BY <1>1
  <2>2. op'[q].call.name = "attempt" => run' # Absent
    BY <1>2, <1>3, <2>1 DEF CallInv
  <2>3. At(q, "write")' => WriteInv(q)'
    BY <1>2, <1>10, <2>1 DEF CallInv, WriteInv, Unreadable, Locked
  <2>4. At(q, "emit")' => ~Unreadable' /\ run' = copy'[q]
    BY <1>2, <1>10, <2>1 DEF CallInv, Unreadable, Locked
  <2>5. (alive[q] /\ pc[q] \in {"attemptWrite", "summary"})' => op'[q].call.name = "attempt"
    BY <1>2, <2>1 DEF CallInv
  <2>6. At(q, "attemptWrite")' => attempts'[op'[q].call.id] \notin FinalAttemptStates
    BY <1>2, <1>10, <2>1 DEF CallInv, Locked
  <2>. QED BY <2>2, <2>3, <2>4, <2>5, <2>6 DEF CallInv
<1>13. SummaryInv'
  <2>1. run' = Absent => Recorded' = {}
    <3>1. run = Absent => pc[p] # "attemptWrite"
      BY <1>1, <1>5 DEF CallInv
    <3>2. run = Absent => attempts' = attempts
      BY <3>1 DEF Crash
    <3>. QED BY <1>1, <1>3, <3>2 DEF SummaryInv, Recorded
  <2>2. crashes' # 0
    BY <1>1, <1>2
  <2>. QED BY <2>1, <2>2 DEF SummaryInv
<1>14. TrailInv'
  <2>1. /\ Pending \in {0, 1} /\ Pending' \in {0, 1} /\ Pending' <= Pending
    BY <1>10 DEF Pending, Emitting, Locked
  <2>2. run' = Absent => events' = << >>
    BY <1>1, <1>2, <1>3 DEF TrailInv
  <2>. SUFFICES ASSUME ~Unreadable'
                PROVE  /\ Follows(events, run'.history, Len(run'.history) - Pending')
                       /\ Len(run'.history) <= Len(events) + crashes' + refused + Pending'
    BY <1>2, <2>2 DEF TrailInv
  <2>3. CASE run' = run
    <3>1. ~Unreadable /\ run \in RunRecord /\ run.history \in Seq(Lifecycle!State)
      BY <1>1, <2>3 DEF Unreadable, TypeOK, RunRecord
    <3>2. Len(run.history) \in Nat /\ Len(run.history) >= 1
      BY <1>1, <3>1 DEF HistoryIsLegal
    <3>3. /\ Follows(events, run.history, Len(run.history) - Pending)
          /\ Len(run.history) <= Len(events) + crashes + refused + Pending
      BY <1>1, <3>1 DEF TrailInv
    <3>4. Follows(events, run.history, Len(run.history) - Pending')
      BY <1>1, <2>1, <3>2, <3>3, FollowsWider
    <3>. QED BY <1>1, <1>2, <2>1, <2>3, <3>2, <3>3, <3>4
  <2>4. CASE At(p, "write") /\ run' = copy[p]
    <3>1. Pending' = 0
      <4>1. \A q \in Proc : ~At(q, "emit")'
        BY <1>10, <2>4, HolderIsAlone DEF At, Locked
      <4>. QED BY <4>1 DEF Pending, Emitting
    <3>2. copy[p] \in RunRecord /\ copy[p].history \in Seq(Lifecycle!State)
      BY <2>4, WritesLegal DEF RunRecord
    <3>3. Len(copy[p].history) \in Nat
      BY <3>2
    <3>. DEFINE ahead == IF op[p].call.name = "attempt" THEN 0 ELSE 1
    <3>4. /\ Len(copy[p].history) - ahead \in Nat
          /\ Follows(events, copy[p].history, Len(copy[p].history) - ahead)
          /\ Len(copy[p].history) <= Len(events) + crashes + refused + ahead
      BY <2>4, WritesTrail
    <3>5. ahead \in {0, 1}
      OBVIOUS
    <3>. HIDE DEF ahead
    <3>6. Follows(events, copy[p].history, Len(copy[p].history))
      BY <1>1, <3>3, <3>4, <3>5, FollowsWider
    <3>7. Len(copy[p].history) - 0 = Len(copy[p].history)
      BY <3>3
    <3>. QED BY <1>1, <1>2, <2>4, <3>1, <3>3, <3>4, <3>5, <3>6, <3>7
  <2>. QED BY <2>3, <2>4, CrashRecord DEF Unreadable
<1>15. OpOK'
  BY <1>1, <1>2 DEF OpOK
<1>. QED BY <1>8, <1>9, <1>11, <1>12, <1>13, <1>14, <1>15 DEF IInv

---------------------------------------------------------------------------
(* The invariant.                                                          *)

LEMMA InitIInv == Init => IInv
<1>. SUFFICES ASSUME Init PROVE IInv
  OBVIOUS
<1>1. NoCall \in [call : Call, then : {"idle"}] /\ NoCall.call.name = "create"
  BY DEF NoCall, Created, Call
<1>2. Unreadable
  BY DEF Init, Unreadable
<1>3. TypeOK
  <2>1. Lock!TypeOK
    BY DEF Init, Lock!TypeOK
  <2>2. /\ events \in Seq(RunEvent \cup ExecutionEvent)
        /\ run \in RunRecord \cup {Absent, Corrupt}
        /\ attempts \in [Attempt -> AttemptState \cup {Absent, Corrupt}]
        /\ alive \in [Proc -> BOOLEAN]
    BY DEF Init
  <2>3. /\ pc \in [Proc -> Steps] /\ copy \in [Proc -> RunRecord]
        /\ calls \in [Proc -> Nat] /\ crashes \in Nat /\ refused \in Nat
    BY NewRunType DEF Init, Steps
  <2>. QED BY <2>1, <2>2, <2>3 DEF TypeOK
<1>4. OpOK /\ LockInv /\ HistoryIsLegal /\ TrailInv
  BY <1>1, <1>2 DEF Init, OpOK, LockInv, Locked, HistoryIsLegal, TrailInv
<1>5. SummaryInv
  BY <1>2, FileAssumption DEF Init, SummaryInv, Recorded, At
<1>6. \A p \in Proc : CallInv(p)
  BY <1>1 DEF Init, CallInv, At
<1>. QED BY <1>3, <1>4, <1>5, <1>6 DEF IInv

LEMMA NextIInv == IInv /\ [Next]_harnessVars => IInv'
<1>. SUFFICES ASSUME IInv, [Next]_harnessVars PROVE IInv'
  OBVIOUS
<1>1. CASE UNCHANGED harnessVars
  <2>1. UNCHANGED <<holder, orphan, run, attempts, events, alive, pc, op, copy, result, calls,
                    crashes, refused>>
    BY <1>1 DEF harnessVars, lockVars, files, locals, counters
  <2>2. TypeOK' /\ OpOK' /\ LockInv' /\ HistoryIsLegal'
    BY <2>1 DEF IInv, TypeOK, Lock!TypeOK, OpOK, LockInv, HistoryIsLegal, Unreadable
  <2>3. SummaryInv' /\ TrailInv'
    BY <2>1 DEF IInv, SummaryInv, TrailInv, Counting, Pending, Emitting, At, Recorded, Unreadable
  <2>4. \A p \in Proc : CallInv(p)'
    BY <2>1 DEF IInv, CallInv, WriteInv, At, Unreadable
  <2>. QED BY <2>2, <2>3, <2>4 DEF IInv
<1>2. CASE Reclaim
  BY <1>2, ReclaimInv
<1>3. ASSUME NEW p \in Proc, Begin(p) \/ Step(p) \/ Crash(p)
      PROVE  IInv'
  <2>1. CASE Begin(p)
    BY <2>1, BeginInv
  <2>2. CASE Crash(p)
    BY <2>2, CrashInv
  <2>3. CASE Acquire(p) \/ LockRefused(p) \/ Unlock(p)
    BY <2>3, AcquireInv, LockRefusedInv, UnlockInv
  <2>4. CASE ReadForCreate(p) \/ ReadForTransition(p) \/ ReadAttempt(p) \/ RefreshSummary(p)
    BY <2>4, ReadForCreateInv, ReadForTransitionInv, ReadAttemptInv, RefreshSummaryInv
  <2>5. CASE WriteAttempt(p) \/ Write(p) \/ Emit(p)
    BY <2>5, WriteAttemptInv, WriteInvStep, EmitInv
  <2>. QED BY <1>3, <2>1, <2>2, <2>3, <2>4, <2>5 DEF Step
<1>. QED BY <1>1, <1>2, <1>3 DEF Next

LEMMA Invariant == Spec => []IInv
BY InitIInv, NextIInv, PTL DEF Spec

---------------------------------------------------------------------------
(* What follows from it.                                                   *)

\* Every variable has its type.
THEOREM TypeCorrect == Spec => []TypeOK
<1>1. IInv => TypeOK
  BY DEF IInv
<1>. QED BY <1>1, Invariant, PTL

\* However calls interleave and crash, a readable record's history is a path of
\* the state machine that transitionRun enforces.
THEOREM LegalHistories == Spec => []HistoryIsLegal
<1>1. IInv => HistoryIsLegal
  BY DEF IInv
<1>. QED BY <1>1, Invariant, PTL

\* The event ledger names a run's transitions in their order, and each one it
\* misses is a crash after the record's write or an append that was refused.
THEOREM TrailAccounted == Spec => []TrailFollowsRecord
<1>1. IInv => TrailFollowsRecord
  <2>. SUFFICES ASSUME IInv, ~Unreadable
                PROVE  /\ Follows(events, run.history, Len(run.history))
                       /\ Len(run.history) <= Len(events) + crashes + refused
                                                + (IF Emitting THEN 1 ELSE 0)
    BY DEF TrailFollowsRecord
  <2>1. /\ events \in Seq(Event) /\ run \in RunRecord /\ run.history # << >>
        /\ run.history \in Seq(Lifecycle!State)
    BY DEF IInv, TypeOK, Event, Unreadable, HistoryIsLegal, RunRecord
  <2>2. Len(run.history) \in Nat /\ Len(run.history) >= 1
    BY <2>1
  <2>3. /\ Follows(events, run.history, Len(run.history) - Pending)
        /\ Len(run.history) <= Len(events) + crashes + refused + Pending
        /\ Pending = IF Emitting THEN 1 ELSE 0
    BY DEF IInv, TrailInv, Pending
  <2>4. Pending \in {0, 1}
    BY DEF Pending
  <2>5. Len(run.history) - Pending \in Nat /\ Len(run.history) - Pending <= Len(run.history)
    BY <2>2, <2>4
  <2>6. Follows(events, run.history, Len(run.history))
    BY <2>1, <2>2, <2>3, <2>5, FollowsWider
  <2>. QED BY <2>3, <2>6
<1>. QED BY <1>1, Invariant, PTL

\* While nothing crashed, refreshAttemptSummary leaves the number of attempt
\* records in the run's summary.
THEOREM SummaryCorrect == Spec => []SummaryIsCurrent
<1>1. IInv => SummaryIsCurrent
  <2>. SUFFICES ASSUME IInv, holder = {}, crashes = 0, ~Unreadable
                PROVE  run.attempts = Cardinality(Recorded)
    BY DEF SummaryIsCurrent
  <2>1. ~Counting
    BY DEF IInv, LockInv, Counting, At, Locked
  <2>. QED BY <2>1 DEF IInv, SummaryInv
<1>. QED BY <1>1, Invariant, PTL

\* recordAttempt rewrites no attempt that has settled.
THEOREM SettledOnce == Spec => AttemptSettlesOnce
<1>1. ASSUME IInv, [Next]_harnessVars, NEW id \in Attempt, attempts[id] \in FinalAttemptStates
      PROVE  attempts'[id] = attempts[id]
  <2>1. CASE attempts' = attempts
    BY <2>1
  <2>2. CASE attempts' # attempts
    <3>1. PICK p \in Proc : WriteAttempt(p) \/ (Crash(p) /\ pc[p] = "attemptWrite")
      BY <1>1, <2>2 DEF Next, Begin, Step, Acquire, LockRefused, ReadForCreate,
           ReadForTransition, ReadAttempt, RefreshSummary, Write, Emit, Unlock, Crash,
           Reclaim, Unchanged, harnessVars, files
    <3>2. /\ At(p, "attemptWrite") /\ attempts[op[p].call.id] \notin FinalAttemptStates
          /\ attempts \in [Attempt -> AttemptState \cup {Absent, Corrupt}]
      BY <1>1, <3>1 DEF IInv, CallInv, WriteAttempt, Crash, At, TypeOK
    <3>3. id # op[p].call.id
      BY <1>1, <3>2
    <3>4. attempts'[id] = attempts[id]
      BY <3>1, <3>2, <3>3 DEF WriteAttempt, Crash
    <3>. QED BY <3>4
  <2>. QED BY <2>1, <2>2
<1>2. IInv /\ [Next]_harnessVars =>
        [\A id \in Attempt :
            attempts[id] \in FinalAttemptStates => attempts'[id] = attempts[id]]_harnessVars
  BY <1>1
<1>. QED BY <1>2, Invariant, PTL DEF Spec, AttemptSettlesOnce

\* The record goes through the abstract lifecycle one legal edge at a time,
\* until a crash in a write loses it as a whole.
THEOREM Refinement == Spec => ImplementsRunLifecycle
<1>1. Init => Lifecycle!LifecycleInit
  BY FileAssumption DEF Init, Lifecycle!LifecycleInit, History, Unreadable
<1>2. IInv /\ [Next]_harnessVars => [Lifecycle!LifecycleNext]_(Lifecycle!lifecycle)
  <2>. SUFFICES ASSUME IInv, [Next]_harnessVars
                PROVE  Lifecycle!LifecycleNext \/ UNCHANGED <<History, run = Corrupt>>
    BY DEF Lifecycle!lifecycle
  <2>1. CASE run' = run
    BY <2>1 DEF History, Unreadable
  <2>2. CASE run' # run
    <3>1. PICK p \in Proc : At(p, "write") /\ (run' = copy[p] \/ run' = Corrupt)
      <4>1. PICK p \in Proc : Write(p) \/ Crash(p)
        BY <2>2 DEF Next, Begin, Step, Acquire, LockRefused, ReadForCreate,
           ReadForTransition, ReadAttempt, RefreshSummary, WriteAttempt, Emit, Unlock,
           Reclaim, Unchanged, harnessVars, files
      <4>2. CASE Write(p)
        BY <4>2 DEF Write
      <4>3. CASE Crash(p)
        <5>1. Writing(p) => At(p, "write")
          BY DEF IInv, TypeOK, Steps, Locked, Writing, At
        <5>. QED BY <2>2, <4>3, <5>1 DEF Crash
      <4>. QED BY <4>1, <4>2, <4>3
    <3>2. /\ WriteInv(p) /\ op[p].call \in Call /\ HistoryIsLegal /\ TypeOK
          /\ run # Corrupt /\ copy[p] \in RunRecord /\ copy[p] # Absent /\ copy[p] # Corrupt
      BY <3>1, WritesLegal, RecordsAreReadable DEF IInv, CallInv, OpOK
    <3>3. CASE run' = Corrupt
      BY <3>2, <3>3 DEF Lifecycle!LifecycleNext, Lifecycle!Lose, History, Unreadable
    <3>4. CASE run' = copy[p]
      <4>1. /\ (run = Corrupt) = FALSE /\ (run' = Corrupt) = FALSE
            /\ ~Unreadable' /\ History' = copy[p].history
        BY <3>2, <3>4 DEF History, Unreadable
      <4>2. CASE op[p].call.name = "create"
        <5>1. History = << >> /\ History' = <<"created">>
          BY <3>2, <4>1, <4>2, NewRunType DEF WriteInv, History, Unreadable
        <5>. QED BY <4>1, <5>1 DEF Lifecycle!LifecycleNext, Lifecycle!Create
      <4>3. CASE op[p].call.name = "transition"
        <5>1. /\ History = run.history /\ History # << >>
              /\ op[p].call.to \in Lifecycle!State
              /\ Lifecycle!isLegalTransition(Lifecycle!LastOf(History), op[p].call.to)
              /\ History' = Append(History, op[p].call.to)
          BY <3>2, <4>1, <4>3, CallKinds DEF WriteInv, History, Unreadable, HistoryIsLegal,
             StateOf
        <5>. QED BY <4>1, <5>1 DEF Lifecycle!LifecycleNext, Lifecycle!Advance
      <4>4. CASE op[p].call.name = "attempt"
        <5>1. History' = History
          BY <3>2, <4>1, <4>4 DEF WriteInv, History, Unreadable
        <5>. QED BY <4>1, <5>1
      <4>. QED BY <3>2, <4>2, <4>3, <4>4, CallKinds
    <3>. QED BY <3>1, <3>3, <3>4
  <2>. QED BY <2>1, <2>2
<1>. QED BY <1>1, <1>2, Invariant, PTL DEF Spec, ImplementsRunLifecycle, Lifecycle!LifecycleSpec

---------------------------------------------------------------------------
(* The execution adapter.                                                  *)

Tables ==
    /\ pc = [q \in Proc |-> pc[q]] /\ op = [q \in Proc |-> op[q]]
    /\ copy = [q \in Proc |-> copy[q]] /\ calls = [q \in Proc |-> calls[q]]
    /\ alive = [q \in Proc |-> alive[q]]

\* A record whose history is a path of the state machine, whatever else is in it.
Historied(r) ==
    /\ r = [f \in {"history", "attempts", "execution"} |-> r[f]]
    /\ r.history \in Seq(Lifecycle!State)
    /\ r.history # << >> /\ Lifecycle!Legal(r.history)

Histories ==
    /\ Unreadable \/ Historied(run)
    /\ \A p \in Proc : Historied(copy[p])

\* The steps a call within a larger operation returns to.
Thens == {"idle", "evaluated", "started", "refused", "outcome"}

Stopped == Unreadable \/ StateOf(run) \notin RUN_EXECUTABLE_STATES

\* The call that stops the run will not be refused.
WillStop(p) ==
    /\ op[p].call.name = "transition" /\ op[p].call.checks
    /\ Unreadable \/ /\ StopFor(StateOf(run)) # "none"
                     /\ op[p].call.to = StopFor(StateOf(run))

Stopping(p) ==
    /\ pc[p] = "violation" => run = copy[p]
    /\ (pc[p] = "evaluated" /\ NewViolation(p)) => Stopped
    /\ op[p].then = "evaluated" =>
        /\ pc[p] \in {"lock", "read"} => WillStop(p)
        /\ pc[p] = "write" =>
            /\ op[p].call.name = "transition"
            /\ StateOf(copy[p]) \in {"blocked", "cancelled"}
        /\ pc[p] \in {"emit", "unlock"} => Stopped
        /\ pc[p] \notin {"attemptWrite", "summary"}

\* One process makes all the calls, and while it lives nothing else takes the lock.
OneCaller ==
    /\ \A p \in Proc : calls[p] = 0 => pc[p] = "idle" /\ alive[p]
    /\ \A p, q \in Proc : calls[p] # 0 /\ calls[q] # 0 => p = q
    /\ \A p \in Proc : op[p].then \in Thens
    /\ \A p \in Proc : calls[p] \in Nat
    /\ (\A p \in Proc : alive[p]) =>
        /\ ~orphan /\ holder = {p \in Proc : pc[p] \in Locked}
        /\ \A p \in Proc : Stopping(p)

SoloInv == instance.solo => OneCaller

AdapterInv == Tables /\ Histories /\ instance \in Instances /\ SoloInv

\* An entry that is replaced, and the others.
LEMMA PutAt ==
    ASSUME NEW f, f = [q \in Proc |-> f[q]], NEW p \in Proc, NEW x
    PROVE  /\ [f EXCEPT ![p] = x] = [q \in Proc |-> [f EXCEPT ![p] = x][q]]
           /\ [f EXCEPT ![p] = x][p] = x
           /\ \A q \in Proc \ {p} : [f EXCEPT ![p] = x][q] = f[q]
  OBVIOUS

\* A step of p writes the entries of p.
Moves(p) ==
    /\ UNCHANGED pc \/ \E s : pc' = [pc EXCEPT ![p] = s]
    /\ UNCHANGED op \/ \E x : op' = [op EXCEPT ![p] = x]
    /\ UNCHANGED copy \/ \E c : copy' = [copy EXCEPT ![p] = c]
    /\ UNCHANGED calls \/ \E n : calls' = [calls EXCEPT ![p] = n]
    /\ UNCHANGED alive \/ \E b : alive' = [alive EXCEPT ![p] = b]

\* A step of p leaves the entries of the others alone.
LEMMA MovesOnly ==
    ASSUME Tables, NEW p \in Proc, Moves(p)
    PROVE  /\ Tables'
           /\ \A q \in Proc \ {p} :
                /\ pc'[q] = pc[q] /\ op'[q] = op[q] /\ copy'[q] = copy[q]
                /\ calls'[q] = calls[q] /\ alive'[q] = alive[q]
<1>1. pc' = [q \in Proc |-> pc'[q]] /\ \A q \in Proc \ {p} : pc'[q] = pc[q]
  BY PutAt DEF Tables, Moves
<1>2. op' = [q \in Proc |-> op'[q]] /\ \A q \in Proc \ {p} : op'[q] = op[q]
  BY PutAt DEF Tables, Moves
<1>3. copy' = [q \in Proc |-> copy'[q]] /\ \A q \in Proc \ {p} : copy'[q] = copy[q]
  BY PutAt DEF Tables, Moves
<1>4. calls' = [q \in Proc |-> calls'[q]] /\ \A q \in Proc \ {p} : calls'[q] = calls[q]
  BY PutAt DEF Tables, Moves
<1>5. alive' = [q \in Proc |-> alive'[q]] /\ \A q \in Proc \ {p} : alive'[q] = alive[q]
  BY PutAt DEF Tables, Moves
<1>. QED BY <1>1, <1>2, <1>3, <1>4, <1>5 DEF Tables

\* A call of the harness writes the entries of its own process.
LEMMA HarnessMoves ==
    ASSUME NEW p \in Proc, Begin(p) \/ Step(p) \/ Crash(p)
    PROVE  Moves(p)
<1>. USE DEF Moves, Goto, Return, Forget, Start, lockVars, files, locals, counters, Unchanged
<1>1. CASE Begin(p)
  BY <1>1 DEF Begin
<1>2. CASE Acquire(p) \/ LockRefused(p)
  BY <1>2 DEF Acquire, LockRefused
<1>3. CASE ReadForCreate(p)
  BY <1>3 DEF ReadForCreate
<1>4. CASE ReadForTransition(p)
  BY <1>4 DEF ReadForTransition
<1>5. CASE ReadAttempt(p) \/ WriteAttempt(p)
  BY <1>5 DEF ReadAttempt, WriteAttempt
<1>6. CASE RefreshSummary(p)
  BY <1>6 DEF RefreshSummary
<1>7. CASE Write(p) \/ Emit(p) \/ Unlock(p)
  BY <1>7 DEF Write, Emit, Unlock
<1>8. CASE Crash(p)
  BY <1>8 DEF Crash
<1>. QED BY <1>1, <1>2, <1>3, <1>4, <1>5, <1>6, <1>7, <1>8 DEF Step

\* An operation of the adapter writes the entries of its own process.
LEMMA ExecutionMoves ==
    ASSUME NEW p \in Proc, BeginExecution(p) \/ ExecutionStep(p)
    PROVE  Moves(p)
<1>. USE DEF Moves, Goto, Return, Forget, Start, lockVars, files, locals, counters, Quiet, Done,
             Proceed, Throws
<1>1. CASE BeginExecution(p)
  BY <1>1 DEF BeginExecution
<1>2. CASE PrepareCheck(p) \/ PrepareWorkspace(p) \/ PrepareWrite(p)
  BY <1>2 DEF PrepareCheck, PrepareWorkspace, PrepareWrite
<1>3. CASE EvaluateRead(p) \/ EvaluateWrite(p)
  BY <1>3 DEF EvaluateRead, EvaluateWrite
<1>4. CASE EvaluateRun(p)
  BY <1>4 DEF EvaluateRun
<1>5. CASE PutEvaluation(p) \/ EmitViolation(p)
  BY <1>5 DEF PutEvaluation, EmitViolation
<1>6. CASE Evaluated(p) \/ RunRecordCheck(p)
  BY <1>6 DEF Evaluated, RunRecordCheck
<1>7. CASE RunCheck(p)
  BY <1>7 DEF RunCheck
<1>8. CASE Started(p) \/ CommandRefused(p) \/ CommandRuns(p)
  BY <1>8 DEF Started, CommandRefused, CommandRuns
<1>9. CASE RefusedEmit(p) \/ Observe(p) \/ Outcome(p)
  BY <1>9 DEF RefusedEmit, Observe, Outcome
<1>10. CASE ReleaseRead(p) \/ ReleaseWorkspace(p) \/ ReleaseWrite(p)
  BY <1>10 DEF ReleaseRead, ReleaseWorkspace, ReleaseWrite
<1>11. CASE ReleaseRun(p) \/ PutRelease(p)
  BY <1>11 DEF ReleaseRun, PutRelease
<1>. QED BY <1>1, <1>2, <1>3, <1>4, <1>5, <1>6, <1>7, <1>8, <1>9, <1>10, <1>11 DEF ExecutionStep

\* A checkpoint writes the entries of its own process.
LEMMA CheckpointMoves ==
    ASSUME NEW p \in Proc, CheckpointStep(p)
    PROVE  Moves(p)
<1>. USE DEF Moves, Goto, Return, Forget, Start, lockVars, files, locals, counters, Quiet, Done,
             Proceed
<1>1. CASE CheckpointRead(p)
  BY <1>1 DEF CheckpointRead
<1>2. CASE CheckpointRefs(p)
  BY <1>2 DEF CheckpointRefs
<1>3. CASE CheckpointWrite(p) \/ CheckpointRun(p)
  BY <1>3 DEF CheckpointWrite, CheckpointRun
<1>4. CASE PutCheckpoint(p)
  BY <1>4 DEF PutCheckpoint
<1>. QED BY <1>1, <1>2, <1>3, <1>4 DEF CheckpointStep

\* Every step is of one process, but for the lock's.
LEMMA Actors ==
    ASSUME ExecutionNext
    PROVE  \/ Reclaim /\ UNCHANGED execVars
           \/ \E p \in Proc :
                /\ Moves(p)
                /\ \/ Begin(p) /\ MayCall(p) /\ UNCHANGED execVars
                   \/ Step(p) /\ UNCHANGED execVars
                   \/ BeginExecution(p) \/ CheckpointStep(p) \/ CrashExecution(p)
                   \/ ExecutionStep(p) /\ UNCHANGED restVars
<1>. QED BY HarnessMoves, ExecutionMoves, CheckpointMoves
        DEF ExecutionNext, HarnessStep, CrashExecution

---------------------------------------------------------------------------
(* Histories.                                                              *)

\* A new run has the history of a run.
LEMMA HistoriedNew == Historied(NewRun)
<1>1. NewRun.history = <<"created">> /\ "created" \in Lifecycle!State
  BY DEF NewRun, Lifecycle!State
<1>2. NewRun = [f \in {"history", "attempts", "execution"} |-> NewRun[f]]
  BY DEF NewRun
<1>. QED BY <1>1, <1>2 DEF Historied, Lifecycle!Legal

\* What the record says beside its history does not matter.
LEMMA HistoriedWith ==
    ASSUME NEW r, Historied(r)
    PROVE  \A x : Historied([r EXCEPT !.execution = x]) /\ Historied([r EXCEPT !.attempts = x])
<1>. SUFFICES ASSUME NEW x
              PROVE  Historied([r EXCEPT !.execution = x]) /\ Historied([r EXCEPT !.attempts = x])
  OBVIOUS
<1>1. r = [f \in {"history", "attempts", "execution"} |-> r[f]]
  BY DEF Historied
<1>2. /\ [r EXCEPT !.execution = x].history = r.history
      /\ [r EXCEPT !.attempts = x].history = r.history
  BY <1>1
<1>3. /\ [r EXCEPT !.execution = x] =
            [f \in {"history", "attempts", "execution"} |-> [r EXCEPT !.execution = x][f]]
      /\ [r EXCEPT !.attempts = x] =
            [f \in {"history", "attempts", "execution"} |-> [r EXCEPT !.attempts = x][f]]
  BY <1>1
<1>. QED BY <1>2, <1>3 DEF Historied

\* A state and its successors are states.
LEMMA LegalTarget ==
    ASSUME NEW from \in Lifecycle!State, NEW to, Lifecycle!isLegalTransition(from, to)
    PROVE  to \in Lifecycle!State
  BY DEF Lifecycle!isLegalTransition, Lifecycle!TRANSITIONS, Lifecycle!State

\* The state of a record is one of the state machine.
LEMMA LastState ==
    ASSUME NEW r, Historied(r)
    PROVE  StateOf(r) \in Lifecycle!State
<1>1. r.history \in Seq(Lifecycle!State) /\ r.history # << >>
  BY DEF Historied
<1>2. Len(r.history) \in 1..Len(r.history)
  BY <1>1
<1>. QED BY <1>1, <1>2 DEF StateOf, Lifecycle!LastOf

\* A legal transition appended.
LEMMA HistoriedAppend ==
    ASSUME NEW r, Historied(r), NEW to, Lifecycle!isLegalTransition(StateOf(r), to)
    PROVE  /\ Historied([r EXCEPT !.history = Append(r.history, to)])
           /\ StateOf([r EXCEPT !.history = Append(r.history, to)]) = to
<1>. DEFINE h == Append(r.history, to)
            new == [r EXCEPT !.history = h]
<1>1. to \in Lifecycle!State
  BY LastState, LegalTarget
<1>2. h \in Seq(Lifecycle!State) /\ h # << >> /\ Lifecycle!Legal(h)
  BY <1>1, LegalAppend DEF Historied, StateOf
<1>3. h[Len(h)] = to
  BY <1>1 DEF Historied
<1>. HIDE DEF h
<1>4. r = [f \in {"history", "attempts", "execution"} |-> r[f]]
  BY DEF Historied
<1>5. new.history = h /\ new = [f \in {"history", "attempts", "execution"} |-> new[f]]
  BY <1>4
<1>6. Historied(new) /\ StateOf(new) = to
  BY <1>2, <1>3, <1>5 DEF Historied, StateOf, Lifecycle!LastOf
<1>. QED BY <1>6 DEF h

\* A record that was read and is one is the run's.
LEMMA ReadRecord ==
    ASSUME Histories, NEW p \in Proc, NEW record \in Reads(p), record \notin {Absent, Corrupt}
    PROVE  record = run /\ Historied(record)
  BY DEF Reads, Histories, Unreadable

\* A copy is made of the record, and the record is a copy.
Copied(p) ==
    /\ UNCHANGED copy \/ \E c : Historied(c) /\ copy' = [copy EXCEPT ![p] = c]
    /\ run' \in {run, copy[p], Corrupt}

\* A call of the harness keeps the histories of the record and of its copy.
LEMMA HarnessCopies ==
    ASSUME Histories, NEW p \in Proc, Begin(p) \/ Step(p) \/ Crash(p)
    PROVE  Copied(p)
<1>. USE DEF Copied, Goto, Return, Forget, Start, lockVars, files, locals, counters, Unchanged
<1>1. CASE Begin(p) \/ Acquire(p)
  BY <1>1 DEF Begin, Acquire
<1>2. CASE LockRefused(p) \/ Unlock(p)
  BY <1>2, HistoriedNew DEF LockRefused, Unlock
<1>3. CASE ReadForCreate(p)
  BY <1>3, HistoriedNew DEF ReadForCreate
<1>4. CASE ReadForTransition(p)
  <2>1. PICK record \in Reads(p) :
            \/ UNCHANGED copy
            \/ /\ Refusal(record, op[p].call) = "none"
               /\ copy' = [copy EXCEPT ![p] =
                    [record EXCEPT !.history = Append(record.history, op[p].call.to)]]
    BY <1>4 DEF ReadForTransition
  <2>2. CASE Refusal(record, op[p].call) = "none"
    <3>1. /\ record \notin {Absent, Corrupt}
          /\ Lifecycle!isLegalTransition(StateOf(record), op[p].call.to)
      BY <2>2 DEF Refusal
    <3>2. Historied([record EXCEPT !.history = Append(record.history, op[p].call.to)])
      BY <3>1, ReadRecord, HistoriedAppend
    <3>. QED BY <2>1, <3>2, <1>4 DEF ReadForTransition
  <2>. QED BY <2>1, <2>2, <1>4 DEF ReadForTransition
<1>5. CASE ReadAttempt(p) \/ WriteAttempt(p)
  BY <1>5 DEF ReadAttempt, WriteAttempt
<1>6. CASE RefreshSummary(p)
  <2>1. PICK record \in Reads(p) :
            \/ UNCHANGED copy
            \/ /\ record \notin {Absent, Corrupt}
               /\ copy' = [copy EXCEPT ![p] = [record EXCEPT !.attempts = Cardinality(Recorded)]]
    BY <1>6 DEF RefreshSummary
  <2>2. record \notin {Absent, Corrupt} =>
            Historied([record EXCEPT !.attempts = Cardinality(Recorded)])
    BY ReadRecord, HistoriedWith
  <2>. QED BY <2>1, <2>2, <1>6 DEF RefreshSummary
<1>7. CASE Write(p) \/ Emit(p)
  BY <1>7 DEF Write, Emit
<1>8. CASE Crash(p)
  BY <1>8 DEF Crash
<1>. QED BY <1>1, <1>2, <1>3, <1>4, <1>5, <1>6, <1>7, <1>8 DEF Step

\* An operation of the adapter keeps the histories of the record and of its copy.
LEMMA ExecutionCopies ==
    ASSUME Histories, NEW p \in Proc, BeginExecution(p) \/ ExecutionStep(p)
    PROVE  Copied(p)
<1>. USE DEF Copied, Goto, Return, Start, lockVars, files, locals, counters, Quiet, Done,
             Proceed, Throws
<1>1. CASE BeginExecution(p)
  BY <1>1 DEF BeginExecution
<1>2. CASE PrepareCheck(p) \/ PrepareWorkspace(p) \/ PrepareWrite(p)
  BY <1>2 DEF PrepareCheck, PrepareWorkspace, PrepareWrite
<1>3. CASE EvaluateRead(p) \/ EvaluateWrite(p)
  BY <1>3 DEF EvaluateRead, EvaluateWrite
<1>4. CASE EvaluateRun(p)
  <2>1. PICK record \in Reads(p) :
            \/ UNCHANGED copy
            \/ /\ record \notin {Absent, Corrupt}
               /\ copy' = [copy EXCEPT ![p] = [record EXCEPT !.execution =
                    [verdict |-> task[p].record.verdict, released |-> record.execution.released]]]
    BY <1>4 DEF EvaluateRun
  <2>2. record \notin {Absent, Corrupt} => \A x : Historied([record EXCEPT !.execution = x])
    BY ReadRecord, HistoriedWith
  <2>. QED BY <2>1, <2>2, <1>4 DEF EvaluateRun
<1>5. CASE PutEvaluation(p) \/ EmitViolation(p)
  BY <1>5 DEF PutEvaluation, EmitViolation
<1>6. CASE Evaluated(p)
  BY <1>6, HistoriedNew DEF Evaluated, Forget
<1>7. CASE RunRecordCheck(p) \/ RunCheck(p)
  BY <1>7 DEF RunRecordCheck, RunCheck
<1>8. CASE Started(p) \/ CommandRefused(p) \/ CommandRuns(p)
  BY <1>8 DEF Started, CommandRefused, CommandRuns
<1>9. CASE RefusedEmit(p) \/ Observe(p) \/ Outcome(p)
  BY <1>9 DEF RefusedEmit, Observe, Outcome
<1>10. CASE ReleaseRead(p) \/ ReleaseWorkspace(p) \/ ReleaseWrite(p)
  BY <1>10 DEF ReleaseRead, ReleaseWorkspace, ReleaseWrite
<1>11. CASE ReleaseRun(p)
  <2>1. PICK record \in Reads(p) :
            \/ UNCHANGED copy
            \/ /\ record \notin {Absent, Corrupt}
               /\ copy' = [copy EXCEPT ![p] = [record EXCEPT !.execution.released = TRUE]]
    BY <1>11 DEF ReleaseRun
  <2>2. record \notin {Absent, Corrupt} => \A x : Historied([record EXCEPT !.execution = x])
    BY ReadRecord, HistoriedWith
  <2>3. record \notin {Absent, Corrupt} =>
            [record EXCEPT !.execution.released = TRUE] =
                [record EXCEPT !.execution = [record.execution EXCEPT !.released = TRUE]]
    <3>1. record \notin {Absent, Corrupt} =>
            record = [f \in {"history", "attempts", "execution"} |-> record[f]]
      BY ReadRecord DEF Historied
    <3>. QED BY <3>1
  <2>. QED BY <2>1, <2>2, <2>3, <1>11 DEF ReleaseRun
<1>12. CASE PutRelease(p)
  BY <1>12, HistoriedNew DEF PutRelease, Forget
<1>. QED BY <1>1, <1>2, <1>3, <1>4, <1>5, <1>6, <1>7, <1>8, <1>9, <1>10, <1>11, <1>12
        DEF ExecutionStep

\* A checkpoint keeps the histories of the record and of its copy.
LEMMA CheckpointCopies ==
    ASSUME Histories, NEW p \in Proc, CheckpointStep(p)
    PROVE  Copied(p)
<1>. USE DEF Copied, Goto, Return, lockVars, files, locals, counters, Quiet, Done, Proceed
<1>1. CASE CheckpointRead(p) \/ CheckpointWrite(p)
  BY <1>1 DEF CheckpointRead, CheckpointWrite
<1>2. CASE CheckpointRefs(p)
  BY <1>2 DEF CheckpointRefs
<1>3. CASE CheckpointRun(p)
  <2>1. PICK record \in Reads(p) :
            \/ UNCHANGED copy
            \/ record \notin {Absent, Corrupt} /\ copy' = [copy EXCEPT ![p] = record]
    BY <1>3 DEF CheckpointRun, Reads
  <2>. QED BY <2>1, <1>3, ReadRecord DEF CheckpointRun
<1>4. CASE PutCheckpoint(p)
  BY <1>4, HistoriedNew DEF PutCheckpoint, Forget
<1>. QED BY <1>1, <1>2, <1>3, <1>4 DEF CheckpointStep

\* Every step keeps the histories.
LEMMA HistoriesStep ==
    ASSUME Tables, Histories, ExecutionNext
    PROVE  Tables' /\ Histories'
<1>1. CASE Reclaim /\ UNCHANGED execVars
  BY <1>1 DEF Reclaim, Tables, Histories, Unreadable, files, locals, counters
<1>2. ASSUME NEW p \in Proc, Moves(p), Copied(p)
      PROVE  Tables' /\ Histories'
  <2>1. Tables' /\ \A q \in Proc \ {p} : copy'[q] = copy[q]
    BY <1>2, MovesOnly
  <2>2. Historied(copy[p]) /\ (Unreadable \/ Historied(run))
    BY DEF Histories
  <2>3. Unreadable' \/ Historied(run')
    BY <1>2, <2>2 DEF Copied, Unreadable
  <2>4. Historied(copy'[p])
    BY <1>2, <2>2, PutAt DEF Copied, Tables
  <2>5. \A q \in Proc : Historied(copy'[q])
    BY <2>1, <2>4 DEF Histories
  <2>. QED BY <2>1, <2>3, <2>5 DEF Histories, Historied
<1>. QED BY <1>1, <1>2, Actors, HarnessCopies, ExecutionCopies, CheckpointCopies DEF CrashExecution

---------------------------------------------------------------------------
(* One caller.                                                             *)

\* Where a process goes, and where the call it starts returns to.
LEMMA Control ==
    ASSUME Tables, NEW p \in Proc
    PROVE  /\ \A s : Goto(p, s) => pc'[p] = s
           /\ \A call, then : Start(p, call, then) =>
                pc'[p] = "lock" /\ op'[p].call = call /\ op'[p].then = then
           /\ Forget(p) => op'[p].then = "idle"
<1>1. \A s : Goto(p, s) => pc'[p] = s
  BY PutAt DEF Tables, Goto
<1>2. \A call, then : Start(p, call, then) =>
        op'[p] = [call |-> call, then |-> then] /\ pc'[p] = "lock"
  BY <1>1, PutAt DEF Tables, Start
<1>3. Forget(p) => op'[p] = NoCall
  BY PutAt DEF Tables, Forget
<1>4. ASSUME NEW call, NEW then, Start(p, call, then)
      PROVE  pc'[p] = "lock" /\ op'[p].call = call /\ op'[p].then = then
  <2>1. op'[p] = [call |-> call, then |-> then] /\ pc'[p] = "lock"
    BY <1>2, <1>4
  <2>. QED BY <2>1
<1>5. Forget(p) => op'[p].then = "idle"
  BY <1>3 DEF NoCall
<1>. QED BY <1>1, <1>4, <1>5

\* The others have called nothing, and what p does leaves them out.
LEMMA SoloStep ==
    ASSUME AdapterInv, instance.solo, NEW p \in Proc, Moves(p),
           \A q \in Proc \ {p} : calls[q] = 0,
           calls'[p] \in Nat \ {0}, op'[p].then \in Thens,
           alive'[p] =>
                /\ alive[p]
                /\ (~orphan /\ holder = IF pc[p] \in Locked THEN {p} ELSE {}) =>
                    /\ ~orphan' /\ holder' = IF pc'[p] \in Locked THEN {p} ELSE {}
                    /\ Stopping(p)'
    PROVE  OneCaller'
<1>1. OneCaller
  BY DEF AdapterInv, SoloInv
<1>2. \A q \in Proc \ {p} :
        /\ calls[q] = 0 /\ pc[q] = "idle" /\ alive[q]
        /\ calls'[q] = 0 /\ pc'[q] = "idle" /\ alive'[q] /\ op'[q] = op[q]
  BY <1>1, MovesOnly DEF OneCaller, AdapterInv
<1>3. \A q \in Proc \ {p} : Stopping(q)'
  BY <1>2 DEF Stopping
<1>4. ASSUME \A q \in Proc : alive'[q]
      PROVE  /\ ~orphan' /\ holder' = {q \in Proc : pc'[q] \in Locked}
             /\ \A q \in Proc : Stopping(q)'
  <2>1. \A q \in Proc : alive[q]
    BY <1>2, <1>4
  <2>2. ~orphan /\ holder = IF pc[p] \in Locked THEN {p} ELSE {}
    BY <1>1, <1>2, <2>1 DEF OneCaller, Locked
  <2>3. ~orphan' /\ holder' = (IF pc'[p] \in Locked THEN {p} ELSE {}) /\ Stopping(p)'
    BY <1>4, <2>2
  <2>4. holder' = {q \in Proc : pc'[q] \in Locked}
    BY <1>2, <2>3 DEF Locked
  <2>. QED BY <1>3, <2>3, <2>4
<1>. QED BY <1>1, <1>2, <1>4 DEF OneCaller

\* A step outside the lock and the stopping of the run.
Plain(p) ==
    /\ UNCHANGED <<holder, orphan, alive, calls>>
    /\ alive[p] /\ pc[p] \notin Locked \cup {"idle"}
    /\ pc'[p] \notin Locked \cup {"violation", "evaluated"}
    /\ \/ UNCHANGED op /\ pc'[p] # "lock"
       \/ op'[p].then \in Thens \ {"evaluated"}

\* A step outside the lock and the stopping of the run leaves nothing to stop.
LEMMA PlainStopping ==
    ASSUME NEW p, Plain(p)
    PROVE  Stopping(p)'
  BY DEF Plain, Stopping, Locked

\* Of the operations of the adapter only the violation of a budget stops the run.
LEMMA ExecutionPlain ==
    ASSUME Tables, NEW p \in Proc, ExecutionStep(p)
    PROVE  Plain(p) \/ PutEvaluation(p) \/ EmitViolation(p)
<1>. USE Control DEF Plain, At, Locked, Return, lockVars, files, locals, counters, Quiet, Done,
             Proceed, Throws, Thens
<1>1. CASE PrepareCheck(p)
  BY <1>1 DEF PrepareCheck
<1>2. CASE PrepareWorkspace(p) \/ PrepareWrite(p)
  BY <1>2 DEF PrepareWorkspace, PrepareWrite
<1>3. CASE EvaluateRead(p) \/ EvaluateWrite(p)
  BY <1>3 DEF EvaluateRead, EvaluateWrite
<1>4. CASE EvaluateRun(p)
  BY <1>4 DEF EvaluateRun
<1>5. CASE Evaluated(p)
  BY <1>5 DEF Evaluated
<1>6. CASE RunRecordCheck(p)
  BY <1>6 DEF RunRecordCheck
<1>7. CASE RunCheck(p)
  BY <1>7 DEF RunCheck
<1>8. CASE Started(p) \/ CommandRefused(p) \/ CommandRuns(p)
  BY <1>8 DEF Started, CommandRefused, CommandRuns, AppendEvent
<1>9. CASE RefusedEmit(p) \/ Observe(p) \/ Outcome(p)
  BY <1>9 DEF RefusedEmit, Observe, Outcome
<1>10. CASE ReleaseRead(p) \/ ReleaseWorkspace(p) \/ ReleaseWrite(p)
  BY <1>10 DEF ReleaseRead, ReleaseWorkspace, ReleaseWrite
<1>11. CASE ReleaseRun(p) \/ PutRelease(p)
  BY <1>11 DEF ReleaseRun, PutRelease
<1>. QED BY <1>1, <1>2, <1>3, <1>4, <1>5, <1>6, <1>7, <1>8, <1>9, <1>10, <1>11 DEF ExecutionStep

\* A checkpoint does not stop the run.
LEMMA CheckpointPlain ==
    ASSUME Tables, NEW p \in Proc, CheckpointStep(p)
    PROVE  Plain(p)
<1>. USE Control DEF Plain, At, Locked, Return, lockVars, files, locals, counters, Quiet, Done,
             Proceed, Thens
<1>1. CASE CheckpointRead(p)
  BY <1>1 DEF CheckpointRead
<1>2. CASE CheckpointRefs(p)
  BY <1>2 DEF CheckpointRefs
<1>3. CASE CheckpointWrite(p)
  BY <1>3 DEF CheckpointWrite
<1>4. CASE CheckpointRun(p)
  BY <1>4 DEF CheckpointRun
<1>5. CASE PutCheckpoint(p)
  BY <1>5 DEF PutCheckpoint
<1>. QED BY <1>1, <1>2, <1>3, <1>4, <1>5 DEF CheckpointStep

\* The transition chosen for a violated run is a legal one.
LEMMA StopLegal ==
    ASSUME NEW s \in Lifecycle!State, StopFor(s) # "none"
    PROVE  /\ StopFor(s) \in {"blocked", "cancelled"}
           /\ ~Lifecycle!isFinal(s) /\ Lifecycle!isLegalTransition(s, StopFor(s))
  BY DEF StopFor, Lifecycle!isFinal, Lifecycle!FinalStates, Lifecycle!isLegalTransition,
        Lifecycle!TRANSITIONS, Lifecycle!State

\* A run that needs no stopping is in no state a command may start from.
LEMMA StopNone ==
    ASSUME NEW s, StopFor(s) = "none"
    PROVE  s \notin RUN_EXECUTABLE_STATES
  BY DEF StopFor, Lifecycle!FinalStates, RUN_EXECUTABLE_STATES

\* A step of the caller while all processes live.
Acting(p) ==
    /\ alive[p] /\ Stopping(p) /\ op[p].then \in Thens
    /\ ~orphan /\ holder = IF pc[p] \in Locked THEN {p} ELSE {}
    /\ \A q \in Proc \ {p} : pc[q] = "idle"

\* A new violation starts the transition that stops the run.
LEMMA ViolationStopping ==
    ASSUME AdapterInv, NEW p \in Proc, Acting(p), PutEvaluation(p) \/ EmitViolation(p)
    PROVE  Stopping(p)'
<1>0. Tables
  BY DEF AdapterInv
<1>1. CASE PutEvaluation(p)
  <2>1. /\ run' = copy[p] /\ pc[p] = "putEvaluation"
        /\ pc'[p] = IF NewViolation(p) THEN "violation" ELSE "evaluated"
        /\ UNCHANGED <<holder, orphan, alive, op, copy, calls, task>>
    BY <1>0, <1>1, Control DEF PutEvaluation, Proceed, At, lockVars, counters, execVars
  <2>2. NewViolation(p)' = NewViolation(p)
    BY <2>1 DEF NewViolation
  <2>. QED BY <2>1, <2>2 DEF Stopping, Acting, Locked
<1>2. CASE EmitViolation(p)
  <2>1. /\ pc[p] = "violation" /\ run = copy[p]
        /\ UNCHANGED <<holder, orphan, alive, run, calls, task>>
    BY <1>2 DEF EmitViolation, At, Acting, Stopping, lockVars, execVars
  <2>2. CASE StopFor(StateOf(run)) = "none"
    <3>1. pc'[p] = "evaluated" /\ UNCHANGED op
      BY <1>0, <1>2, <2>1, <2>2, Control DEF EmitViolation
    <3>2. StateOf(run) \notin RUN_EXECUTABLE_STATES
      BY <2>2, StopNone
    <3>. QED BY <2>1, <3>1, <3>2 DEF Stopping, Stopped, Acting, Locked
  <2>3. CASE StopFor(StateOf(run)) # "none"
    <3>1. Start(p, Transition(StopFor(StateOf(run)), TRUE), "evaluated")
      BY <1>2, <2>1, <2>3 DEF EmitViolation
    <3>2. /\ pc'[p] = "lock" /\ op'[p].then = "evaluated"
          /\ op'[p].call = Transition(StopFor(StateOf(run)), TRUE)
      BY <1>0, <3>1, Control
    <3>3. WillStop(p)'
      BY <2>1, <2>3, <3>2 DEF WillStop, Transition
    <3>. QED BY <2>1, <3>2, <3>3 DEF Stopping, Acting, Locked, Thens
  <2>. QED BY <2>2, <2>3
<1>. QED BY <1>1, <1>2

\* A caller that is alone stops the run once it has started to.
LEMMA HarnessStopping ==
    ASSUME AdapterInv, NEW p \in Proc, Acting(p), Step(p), UNCHANGED execVars
    PROVE  /\ Stopping(p)' /\ ~orphan' /\ holder' = IF pc'[p] \in Locked THEN {p} ELSE {}
<1>. USE DEF At
<1>0. Tables /\ Histories /\ UNCHANGED task
  BY DEF AdapterInv, execVars
<1>. USE Control, <1>0
<1>1. Stopping(p) /\ op[p].then \in Thens /\ ~orphan
  BY DEF Acting
<1>2. Reads(p) = {run}
  BY DEF Acting, Reads, Writing
<1>3. CASE Acquire(p)
  <2>1. /\ pc[p] = "lock" /\ pc'[p] = "read" /\ holder' = {p}
        /\ UNCHANGED <<orphan, alive, run, op, calls>>
    BY <1>3 DEF Acquire, Lock!Acquire, files, locals, counters
  <2>2. op[p].then = "evaluated" => WillStop(p)'
    BY <1>1, <2>1 DEF Stopping, WillStop, Unreadable
  <2>. QED BY <1>1, <2>1, <2>2 DEF Stopping, Locked
<1>4. CASE LockRefused(p)
  BY <1>4 DEF LockRefused, Acting, Locked
<1>5. CASE ReadForCreate(p) \/ ReadAttempt(p)
  <2>1. /\ pc[p] = "read" /\ pc'[p] \in {"write", "attemptWrite", "unlock"}
        /\ op[p].call.name \in {"create", "attempt"}
        /\ UNCHANGED <<holder, orphan, alive, run, op, calls>>
    BY <1>5 DEF ReadForCreate, ReadAttempt, Return, Unchanged, lockVars, files
  <2>2. op[p].then # "evaluated"
    BY <1>1, <2>1 DEF Stopping, WillStop
  <2>. QED BY <1>1, <2>1, <2>2 DEF Stopping, Locked, Acting
<1>6. CASE ReadForTransition(p)
  <2>1. /\ pc[p] = "read" /\ UNCHANGED <<holder, orphan, alive, run, op, calls>>
    BY <1>6 DEF ReadForTransition, Unchanged, lockVars, files
  <2>2. \/ Refusal(run, op[p].call) # "none" /\ pc'[p] = "unlock"
        \/ /\ Refusal(run, op[p].call) = "none" /\ pc'[p] = "write"
           /\ copy' = [copy EXCEPT ![p] =
                [run EXCEPT !.history = Append(run.history, op[p].call.to)]]
    BY <1>2, <1>6 DEF ReadForTransition, Return
  <2>3. CASE op[p].then # "evaluated"
    BY <1>1, <2>1, <2>2, <2>3 DEF Stopping, Locked, Acting
  <2>4. CASE op[p].then = "evaluated" /\ Unreadable
    <3>1. Refusal(run, op[p].call) # "none"
      BY <2>4 DEF Refusal, Unreadable
    <3>2. Stopped'
      BY <2>1, <2>4 DEF Stopped, Unreadable
    <3>. QED BY <1>1, <2>1, <2>2, <3>1, <3>2 DEF Stopping, Locked, Acting
  <2>5. CASE op[p].then = "evaluated" /\ ~Unreadable
    <3>1. /\ Historied(run) /\ StopFor(StateOf(run)) # "none"
          /\ op[p].call.to = StopFor(StateOf(run))
      BY <1>1, <2>1, <2>5 DEF Stopping, WillStop, Histories
    <3>2. /\ op[p].call.to \in {"blocked", "cancelled"}
          /\ ~Lifecycle!isFinal(StateOf(run))
          /\ Lifecycle!isLegalTransition(StateOf(run), op[p].call.to)
      BY <3>1, LastState, StopLegal
    <3>3. Refusal(run, op[p].call) = "none"
      BY <2>5, <3>2 DEF Refusal, Unreadable
    <3>4. /\ pc'[p] = "write"
          /\ copy'[p] = [run EXCEPT !.history = Append(run.history, op[p].call.to)]
      BY <2>2, <3>3, PutAt DEF Tables
    <3>5. StateOf(copy'[p]) \in {"blocked", "cancelled"}
      BY <3>1, <3>2, <3>4, HistoriedAppend
    <3>6. op[p].call.name = "transition"
      BY <1>6 DEF ReadForTransition
    <3>. QED BY <1>1, <2>1, <3>4, <3>5, <3>6 DEF Stopping, Locked, Acting
  <2>. QED BY <2>3, <2>4, <2>5
<1>7. CASE WriteAttempt(p) \/ RefreshSummary(p)
  <2>1. /\ pc[p] \in {"attemptWrite", "summary"} /\ pc'[p] \in {"summary", "write", "unlock"}
        /\ UNCHANGED <<holder, orphan, alive, run, op, calls>>
    BY <1>7 DEF WriteAttempt, RefreshSummary, Return, Unchanged, lockVars, files, locals, counters
  <2>2. op[p].then # "evaluated"
    BY <1>1, <2>1 DEF Stopping
  <2>. QED BY <1>1, <2>1, <2>2 DEF Stopping, Locked, Acting
<1>8. CASE Write(p)
  <2>1. /\ pc[p] = "write" /\ run' = copy[p]
        /\ UNCHANGED <<holder, orphan, alive, op, copy, calls>>
        /\ pc'[p] \in {"emit", "unlock"}
    BY <1>8 DEF Write, Return, lockVars, counters
  <2>2. op[p].then = "evaluated" => Stopped'
    BY <1>1, <2>1 DEF Stopping, Stopped, RUN_EXECUTABLE_STATES
  <2>. QED BY <1>1, <2>1, <2>2 DEF Stopping, Locked, Acting
<1>9. CASE Emit(p)
  <2>1. /\ pc[p] = "emit" /\ pc'[p] = "unlock"
        /\ UNCHANGED <<holder, orphan, alive, run, op, calls>>
    BY <1>9 DEF Emit, Return, lockVars
  <2>2. op[p].then = "evaluated" => Stopped'
    BY <1>1, <2>1 DEF Stopping, Stopped, Unreadable
  <2>. QED BY <1>1, <2>1, <2>2 DEF Stopping, Locked, Acting
<1>10. CASE Unlock(p)
  <2>1. /\ pc[p] = "unlock" /\ pc'[p] = op[p].then /\ op'[p].then = "idle"
        /\ holder' = {} /\ UNCHANGED <<orphan, alive, run, calls>>
    BY <1>10 DEF Unlock, Lock!Release, files, counters
  <2>2. op[p].then = "evaluated" => Stopped'
    BY <1>1, <2>1 DEF Stopping, Stopped, Unreadable
  <2>. QED BY <1>1, <2>1, <2>2 DEF Stopping, Locked, Acting, Thens
<1>. QED BY <1>3, <1>4, <1>5, <1>6, <1>7, <1>8, <1>9, <1>10 DEF Step

\* A step of a call keeps its process alive and its bounds.
LEMMA StepFrame ==
    ASSUME Tables, NEW p \in Proc, op[p].then \in Thens, Step(p)
    PROVE  pc[p] # "idle" /\ alive[p] /\ UNCHANGED <<alive, calls>> /\ op'[p].then \in Thens
<1>. USE Control DEF At, Unchanged, lockVars, files, locals, counters, Thens
<1>1. CASE Acquire(p) \/ LockRefused(p) \/ Unlock(p)
  BY <1>1 DEF Acquire, LockRefused, Unlock
<1>2. CASE ReadForCreate(p) \/ ReadForTransition(p) \/ ReadAttempt(p)
  BY <1>2 DEF ReadForCreate, ReadForTransition, ReadAttempt
<1>3. CASE WriteAttempt(p) \/ RefreshSummary(p) \/ Write(p) \/ Emit(p)
  BY <1>3 DEF WriteAttempt, RefreshSummary, Write, Emit
<1>. QED BY <1>1, <1>2, <1>3 DEF Step

\* A violation is recorded without the lock.
LEMMA ViolationFrame ==
    ASSUME Tables, NEW p \in Proc, op[p].then \in Thens, PutEvaluation(p) \/ EmitViolation(p)
    PROVE  /\ pc[p] \notin Locked \cup {"idle"} /\ pc'[p] \notin Locked /\ alive[p]
           /\ UNCHANGED <<holder, orphan, alive, calls>> /\ op'[p].then \in Thens
<1>. USE Control DEF At, lockVars, counters, Thens, Locked
<1>1. CASE PutEvaluation(p)
  BY <1>1 DEF PutEvaluation, Proceed
<1>2. CASE EmitViolation(p)
  BY <1>2 DEF EmitViolation
<1>. QED BY <1>1, <1>2

\* The environment of a behaviour is chosen once.
LEMMA InstanceStays ==
    ASSUME ExecutionNext
    PROVE  UNCHANGED instance
<1>1. \A p \in Proc : CheckpointStep(p) => UNCHANGED instance
  <2>. SUFFICES ASSUME NEW p \in Proc, CheckpointStep(p)
                PROVE  UNCHANGED instance
    OBVIOUS
  <2>1. CASE CheckpointRead(p) \/ CheckpointRefs(p)
    BY <2>1 DEF CheckpointRead, CheckpointRefs, restVars
  <2>2. CASE CheckpointWrite(p) \/ CheckpointRun(p) \/ PutCheckpoint(p)
    BY <2>2 DEF CheckpointWrite, CheckpointRun, PutCheckpoint, restVars
  <2>. QED BY <2>1, <2>2 DEF CheckpointStep
<1>. QED BY <1>1, Actors DEF BeginExecution, CrashExecution, execVars, restVars

\* Every step keeps what a caller that is alone knows.
LEMMA SoloInvStep ==
    ASSUME AdapterInv, ExecutionNext
    PROVE  SoloInv'
<1>0. Tables /\ Histories /\ (instance.solo => OneCaller)
  BY DEF AdapterInv, SoloInv
<1>1. CASE Reclaim /\ UNCHANGED execVars
  <2>1. /\ UNCHANGED <<instance, task, run, attempts, events, alive, pc, op, copy, calls>>
        /\ orphan /\ ~orphan' /\ holder' = holder
    BY <1>1 DEF Reclaim, Lock!Reclaim, execVars, files, locals, counters
  <2>2. instance.solo => ~(\A p \in Proc : alive[p])
    BY <1>0, <2>1 DEF OneCaller
  <2>. QED BY <1>0, <2>1, <2>2 DEF SoloInv, OneCaller
<1>2. ASSUME NEW p \in Proc, Moves(p), instance.solo,
             \/ Begin(p) /\ MayCall(p) /\ UNCHANGED execVars
             \/ Step(p) /\ UNCHANGED execVars
             \/ BeginExecution(p) \/ CheckpointStep(p) \/ CrashExecution(p)
             \/ ExecutionStep(p) /\ UNCHANGED restVars
      PROVE  OneCaller'
  <2>1. OneCaller /\ calls[p] \in Nat /\ op[p].then \in Thens
    BY <1>0, <1>2 DEF OneCaller
  <2>2. ASSUME pc[p] # "idle"
        PROVE  /\ calls[p] # 0 /\ \A q \in Proc \ {p} : calls[q] = 0
               /\ \A q \in Proc \ {p} : pc[q] = "idle" /\ alive[q]
    BY <2>1, <2>2 DEF OneCaller
  <2>3. ASSUME alive[p], pc[p] # "idle",
               ~orphan /\ holder = IF pc[p] \in Locked THEN {p} ELSE {}
        PROVE  Acting(p)
    <3>1. \A q \in Proc : alive[q]
      BY <2>2, <2>3
    <3>. QED BY <2>1, <2>2, <2>3, <3>1 DEF OneCaller, Acting
  <2>4. CASE (Begin(p) /\ MayCall(p)) \/ BeginExecution(p)
    <3>1. /\ \A q \in Proc \ {p} : calls[q] = 0
          /\ alive[p] /\ pc[p] = "idle"
      BY <1>2, <2>4 DEF Begin, BeginExecution, MayCall, At
    <3>2. calls' = [calls EXCEPT ![p] = calls[p] + 1] /\ UNCHANGED <<holder, orphan, run, alive>>
      BY <2>4 DEF Begin, BeginExecution, lockVars, files
    <3>3. calls'[p] \in Nat \ {0}
      BY <1>0, <2>1, <3>2, PutAt DEF Tables
    <3>4. /\ pc'[p] \notin Locked \cup {"violation", "evaluated"}
          /\ op'[p].then \in Thens
          /\ pc'[p] = "lock" => op'[p].then # "evaluated"
      <4>1. CASE Begin(p)
        BY <1>0, <4>1, Control DEF Begin, Locked, Thens
      <4>2. CASE BeginExecution(p)
        <5>1. UNCHANGED op /\ \E name \in instance.operations : Goto(p, FirstStep[name])
          BY <4>2 DEF BeginExecution
        <5>2. \A name \in {"prepare", "evaluate", "run", "release", "checkpoint"} :
                FirstStep[name] \notin Locked \cup {"violation", "evaluated", "lock"}
          BY DEF FirstStep, Locked
        <5>3. instance.operations \subseteq {"prepare", "evaluate", "run", "release", "checkpoint"}
          BY InstancesAssumption DEF AdapterInv
        <5>. QED BY <1>0, <2>1, <5>1, <5>2, <5>3, Control
      <4>. QED BY <2>4, <4>1, <4>2
    <3>5. Stopping(p)'
      BY <3>4 DEF Stopping, Locked
    <3>. QED BY <1>2, <3>1, <3>2, <3>3, <3>4, <3>5, SoloStep DEF Locked
  <2>5. CASE CrashExecution(p)
    <3>1. /\ pc[p] # "idle" /\ alive[p] /\ UNCHANGED <<op, calls>>
          /\ alive' = [alive EXCEPT ![p] = FALSE]
      BY <2>5 DEF CrashExecution, Crash, locals
    <3>2. ~alive'[p]
      BY <1>0, <3>1, PutAt DEF Tables
    <3>. QED BY <1>2, <2>1, <2>2, <3>1, <3>2, SoloStep
  <2>6. CASE Step(p) /\ UNCHANGED execVars
    <3>1. pc[p] # "idle" /\ alive[p] /\ UNCHANGED <<alive, calls>> /\ op'[p].then \in Thens
      BY <1>0, <2>1, <2>6, StepFrame
    <3>. QED BY <1>2, <2>1, <2>2, <2>3, <2>6, <3>1, SoloStep, HarnessStopping
  <2>7. CASE CheckpointStep(p) \/ ExecutionStep(p)
    <3>1. CASE Plain(p)
      <4>1. op'[p].then \in Thens
        BY <2>1, <3>1 DEF Plain
      <4>. QED BY <1>2, <2>1, <2>2, <3>1, <4>1, SoloStep, PlainStopping DEF Plain, Locked
    <3>2. CASE PutEvaluation(p) \/ EmitViolation(p)
      <4>1. /\ pc[p] \notin Locked \cup {"idle"} /\ pc'[p] \notin Locked /\ alive[p]
            /\ UNCHANGED <<holder, orphan, alive, calls>> /\ op'[p].then \in Thens
        BY <1>0, <2>1, <3>2, ViolationFrame
      <4>. QED BY <1>2, <2>1, <2>2, <2>3, <3>2, <4>1, SoloStep, ViolationStopping
    <3>. QED BY <1>0, <2>7, <3>1, <3>2, ExecutionPlain, CheckpointPlain
  <2>. QED BY <1>2, <2>4, <2>5, <2>6, <2>7
<1>3. instance' = instance
  BY InstanceStays
<1>. QED BY <1>1, <1>2, <1>3, Actors DEF SoloInv

\* The initial state satisfies the invariant.
LEMMA AdapterInvStarts ==
    ASSUME ExecutionInit
    PROVE  AdapterInv
<1>. USE DEF ExecutionInit
<1>1. Tables
  BY DEF Tables
<1>2. Historied(run)
  <2>1. /\ "created" \in Lifecycle!State /\ "admitted" \in Lifecycle!State
        /\ "running" \in Lifecycle!State
    BY DEF Lifecycle!State
  <2>2. run.history = <<"created", "admitted", "running">>
    BY DEF StartedRun, NewRun
  <2>3. run = [f \in {"history", "attempts", "execution"} |-> run[f]]
    BY DEF StartedRun, NewRun
  <2>4. /\ Lifecycle!isLegalTransition("created", "admitted")
        /\ Lifecycle!isLegalTransition("admitted", "running")
    BY DEF Lifecycle!isLegalTransition, Lifecycle!TRANSITIONS
  <2>5. Lifecycle!Legal(run.history)
    <3>1. Len(run.history) = 3 /\ run.history[1] = "created" /\ run.history[2] = "admitted"
            /\ run.history[3] = "running"
      BY <2>2
    <3>2. \A i \in 2..3 : i = 2 \/ i = 3
      OBVIOUS
    <3>. QED BY <3>1, <3>2, <2>4 DEF Lifecycle!Legal
  <2>. QED BY <2>1, <2>2, <2>3, <2>5 DEF Historied
<1>3. Histories
  BY <1>2, HistoriedNew DEF Histories
<1>4. OneCaller
  BY DEF OneCaller, Stopping, NoCall, Thens, Locked
<1>. QED BY <1>1, <1>3, <1>4 DEF AdapterInv, SoloInv

\* Every step keeps the invariant.
LEMMA AdapterInvStays ==
    ASSUME AdapterInv, [ExecutionNext]_adapterVars
    PROVE  AdapterInv'
<1>1. CASE ExecutionNext
  BY <1>1, HistoriesStep, SoloInvStep, InstanceStays DEF AdapterInv
<1>2. CASE UNCHANGED adapterVars
  <2>. USE <1>2 DEF adapterVars, harnessVars, execVars, lockVars, files, locals, counters
  <2>1. Tables' /\ Histories'
    BY DEF AdapterInv, Tables, Histories, Unreadable
  <2>2. \A p : Stopping(p) => Stopping(p)'
    BY DEF Stopping, WillStop, Stopped, NewViolation, Unreadable
  <2>3. SoloInv'
    BY <2>2 DEF AdapterInv, SoloInv, OneCaller
  <2>. QED BY <2>1, <2>3 DEF AdapterInv
<1>. QED BY <1>1, <1>2

\* Of every behaviour of the adapter.
THEOREM AdapterInvariant == ExecutionSpec => []AdapterInv
  BY AdapterInvStarts, AdapterInvStays, PTL DEF ExecutionSpec

\* Whatever is written beside the run's lock, and by whom, a readable record's
\* history is a path of the state machine (putRun, transitionRun).
THEOREM LegalBesideTheLock == ExecutionSpec => []HistoryIsLegal
<1>1. AdapterInv => HistoryIsLegal
  BY DEF AdapterInv, Histories, Historied, HistoryIsLegal
<1>. QED BY <1>1, AdapterInvariant, PTL

\* An evaluation that first finds the boundary violated ends only when no command
\* may start from the run's state (evaluateExecution).
THEOREM ViolationStops == ExecutionSpec => NewViolationStopsRun
<1>1. ASSUME AdapterInv, [ExecutionNext]_adapterVars, NEW p \in Proc,
             instance.solo, pc[p] = "evaluated", NewViolation(p), ~Unreadable
      PROVE  pc'[p] = "evaluated" \/ StateOf(run) \notin RUN_EXECUTABLE_STATES
  <2>1. OneCaller /\ Tables
    BY <1>1 DEF AdapterInv, SoloInv
  <2>2. CASE alive[p]
    <3>1. \A q \in Proc : alive[q]
      BY <1>1, <2>1, <2>2 DEF OneCaller
    <3>2. Stopping(p)
      BY <2>1, <3>1 DEF OneCaller
    <3>. QED BY <1>1, <3>2 DEF Stopping, Stopped
  <2>3. CASE ~alive[p]
    <3>1. CASE UNCHANGED pc
      BY <1>1, <3>1
    <3>2. CASE ExecutionNext /\ ~UNCHANGED pc
      <4>1. PICK q \in Proc :
                /\ Moves(q)
                /\ \/ Begin(q) \/ Step(q) \/ BeginExecution(q) \/ CheckpointStep(q)
                   \/ CrashExecution(q) \/ ExecutionStep(q)
        BY <3>2, Actors DEF Reclaim
      <4>2. ~CrashExecution(q)
        BY <3>2 DEF CrashExecution, Crash
      <4>3. alive[q]
        BY <2>1, <4>1, <4>2, StepFrame, ExecutionPlain, CheckpointPlain, ViolationFrame
            DEF Begin, BeginExecution, At, Plain, OneCaller
      <4>. QED BY <1>1, <2>1, <2>3, <4>1, <4>3, MovesOnly
    <3>. QED BY <1>1, <3>1, <3>2 DEF adapterVars, harnessVars
  <2>. QED BY <2>2, <2>3
<1>2. AdapterInv /\ [ExecutionNext]_adapterVars =>
        [\A p \in Proc :
            (instance.solo /\ pc[p] = "evaluated" /\ NewViolation(p) /\ ~Unreadable) =>
                (pc'[p] = "evaluated" \/ StateOf(run) \notin RUN_EXECUTABLE_STATES)]_adapterVars
  BY <1>1
<1>. QED BY <1>2, AdapterInvariant, PTL DEF ExecutionSpec, NewViolationStopsRun

---------------------------------------------------------------------------
(* The types of the adapter, and what the run's lock still protects.       *)

\* Steps of a process in a call of the harness, on its own or for an operation.
Calling == {"lock"} \cup Locked

TaskFields == {"name", "entry", "record", "previous", "attempt", "outcome", "mark"}

Tasked(t) ==
    /\ t = [f \in TaskFields |-> t[f]]
    /\ t.record \in ExecutionRecord
    /\ t.entry \in Observation
    /\ t.outcome \in {"completed", "failed"}

\* What p knows by its step: an attempt is drawn before it is recorded, and a comparison
\* is made before it is written.
Knowing(p) ==
    /\ pc[p] \in Steps \cup ExecSteps
    /\ op[p].call \in Call /\ op[p].then \in Thens
    /\ op[p].then # "idle" => pc[p] \in Calling
    /\ pc[p] = "attemptWrite" => op[p].call.name = "attempt"
    /\ Tasked(task[p])
    /\ (pc[p] \in {"started", "command"} \/ op[p].then = "started") =>
            task[p].attempt \in Attempt
    /\ task[p].name = "run" =>
            pc[p] \in {"runRecord", "runCheck"} \/ task[p].attempt \in Attempt
    /\ pc[p] \in {"evaluateWrite", "evaluateRun"} => task[p].record.verdict \in Verdict

SameTask(p) == task'[p].name = task[p].name /\ task'[p].attempt = task[p].attempt

\* The parts of a record beside its history.
Summed(r) == r.attempts \in Nat /\ r.execution \in View

Summaries ==
    /\ Unreadable \/ Summed(run)
    /\ \A p \in Proc : Summed(copy[p])

FilesTyped ==
    /\ attempts \in [Attempt -> AttemptState \cup {Absent, Corrupt}]
    /\ events \in Seq(RunEvent \cup ExecutionEvent)
    /\ exec \in ExecutionRecord \cup {Absent, Corrupt}
    /\ workspace \in Workspace

\* Only the holder is between an attempt's reading and its writing, and it is about to
\* write one that has not settled.
Settling ==
    /\ Lock!TypeOK /\ alive \in [Proc -> BOOLEAN]
    /\ LockInv
    /\ \A p \in Proc :
        At(p, "attemptWrite") => attempts[op[p].call.id] \notin FinalAttemptStates

ComposedInv ==
    /\ AdapterInv
    /\ task = [p \in Proc |-> task[p]]
    /\ \A p \in Proc : Knowing(p)
    /\ Summaries /\ FilesTyped /\ Settling


\* What a process starts with.
LEMMA FreshTask == Tasked(NoTask) /\ NoTask.name = "none"
<1>1. /\ NoTask = [f \in TaskFields |-> NoTask[f]]
      /\ NoTask.record = NewExecution /\ NoTask.entry = "clean" /\ NoTask.outcome = "failed"
      /\ NoTask.name = "none"
  BY DEF NoTask, TaskFields
<1>2. NewExecution \in ExecutionRecord
  BY DEF NewExecution, ExecutionRecord
<1>. QED BY <1>1, <1>2 DEF Tasked, Observation

\* No call is in progress at first, and none after a return.
LEMMA FreshCall == NoCall.call \in Call /\ NoCall.then = "idle"
  BY DEF NoCall, Call, Created

\* The parts of the records a behaviour begins with.
LEMMA FreshRecord == Summed(NewRun) /\ Summed(StartedRun)
  BY DEF NewRun, StartedRun, Summed, View

\* The calls the processes and the operations make.
LEMMA CallType ==
    /\ Created \in Call
    /\ \A to \in Lifecycle!State, checks \in BOOLEAN : Transition(to, checks) \in Call
    /\ \A id \in Attempt, state \in AttemptState : Record(id, state) \in Call
  BY DEF Call, Created, Transition, Record

\* The calls a process makes on its own.
LEMMA CallsType == \A name \in DOMAIN Calls : \A call \in Calls[name] : call \in Call
<1>1. DOMAIN Calls = {"create", "transition", "attempt"}
  BY DEF Calls
<1>2. \A call \in Calls["create"] : call = Created
  BY DEF Calls
<1>3. \A call \in Calls["transition"] :
        \/ \E to \in Lifecycle!State : call = Transition(to, TRUE)
        \/ call = Transition("admitted", FALSE) /\ "admitted" \in Lifecycle!State
  <2>1. Calls["transition"] = {Transition(to, TRUE) : to \in Lifecycle!State}
                                \cup {Transition("admitted", FALSE)}
    BY DEF Calls
  <2>2. "admitted" \in Lifecycle!State
    BY DEF Lifecycle!State
  <2>. QED BY <2>1, <2>2
<1>4. \A call \in Calls["attempt"] :
        \E id \in Attempt, state \in AttemptState : call = Record(id, state)
  BY DEF Calls, Recorded, FinalAttemptStates, AttemptState
<1>5. \A name \in DOMAIN Calls : name \in {"create", "transition", "attempt"}
  BY <1>1
<1>6. /\ \A call \in Calls["create"] : call \in Call
      /\ \A call \in Calls["transition"] : call \in Call
      /\ \A call \in Calls["attempt"] : call \in Call
  BY <1>2, <1>3, <1>4, CallType
<1>. QED BY <1>5, <1>6

\* A step that replaces one field of p's task.
LEMMA TaskPut ==
    ASSUME task = [q \in Proc |-> task[q]], NEW p \in Proc, Tasked(task[p])
    PROVE  /\ \A x \in ExecutionRecord :
                task' = [task EXCEPT ![p].record = x] => Tasked(task'[p]) /\ SameTask(p)
           /\ \A x \in ExecutionRecord : \A y :
                task' = [task EXCEPT ![p].record = x, ![p].previous = y] =>
                    Tasked(task'[p]) /\ task'[p].record = x /\ SameTask(p)
           /\ \A x : task' = [task EXCEPT ![p].attempt = x] =>
                Tasked(task'[p]) /\ task'[p].attempt = x
           /\ \A x : task' = [task EXCEPT ![p].mark = x] => Tasked(task'[p]) /\ SameTask(p)
           /\ \A x \in {"completed", "failed"} :
                task' = [task EXCEPT ![p].outcome = x] => Tasked(task'[p]) /\ SameTask(p)
           /\ \A x \in Observation :
                task' = [task EXCEPT ![p].entry = x] => Tasked(task'[p]) /\ SameTask(p)
<1>. USE DEF SameTask
<1>1. ASSUME NEW x \in ExecutionRecord, task' = [task EXCEPT ![p].record = x]
      PROVE  Tasked(task'[p]) /\ SameTask(p)
  <2>1. task'[p] = [task[p] EXCEPT !.record = x]
    BY <1>1
  <2>. QED BY <2>1 DEF Tasked, TaskFields
<1>2. ASSUME NEW x \in ExecutionRecord, NEW y,
             task' = [task EXCEPT ![p].record = x, ![p].previous = y]
      PROVE  Tasked(task'[p]) /\ task'[p].record = x /\ SameTask(p)
  <2>1. task'[p] = [task[p] EXCEPT !.record = x, !.previous = y]
    BY <1>2
  <2>. QED BY <2>1 DEF Tasked, TaskFields
<1>3. ASSUME NEW x, task' = [task EXCEPT ![p].attempt = x]
      PROVE  Tasked(task'[p]) /\ task'[p].attempt = x
  <2>1. task'[p] = [task[p] EXCEPT !.attempt = x]
    BY <1>3
  <2>. QED BY <2>1 DEF Tasked, TaskFields
<1>4. ASSUME NEW x, task' = [task EXCEPT ![p].mark = x]
      PROVE  Tasked(task'[p]) /\ SameTask(p)
  <2>1. task'[p] = [task[p] EXCEPT !.mark = x]
    BY <1>4
  <2>. QED BY <2>1 DEF Tasked, TaskFields
<1>5. ASSUME NEW x \in {"completed", "failed"}, task' = [task EXCEPT ![p].outcome = x]
      PROVE  Tasked(task'[p]) /\ SameTask(p)
  <2>1. task'[p] = [task[p] EXCEPT !.outcome = x]
    BY <1>5
  <2>. QED BY <2>1 DEF Tasked, TaskFields
<1>6. ASSUME NEW x \in Observation, task' = [task EXCEPT ![p].entry = x]
      PROVE  Tasked(task'[p]) /\ SameTask(p)
  <2>1. task'[p] = [task[p] EXCEPT !.entry = x]
    BY <1>6
  <2>. QED BY <2>1 DEF Tasked, TaskFields
<1>. QED BY <1>1, <1>2, <1>3, <1>4, <1>5, <1>6

\* A record with one part replaced.
LEMMA SummedWith ==
    ASSUME NEW r, Historied(r), Summed(r)
    PROVE  /\ \A h : Summed([r EXCEPT !.history = h])
           /\ \A n \in Nat : Summed([r EXCEPT !.attempts = n])
           /\ \A view \in View : Summed([r EXCEPT !.execution = view])
  BY DEF Historied, Summed

\* A readable record has the type of a run's.
LEMMA RecordType ==
    ASSUME NEW r, Historied(r), Summed(r)
    PROVE  r \in RunRecord
  BY DEF Historied, Summed, RunRecord

\* What the comparison makes of an execution record.
LEMMA ComparedType ==
    ASSUME NEW r \in ExecutionRecord, NEW entry \in Observation
    PROVE  /\ Compared(r, entry) \in ExecutionRecord
           /\ Compared(r, entry).verdict \in Verdict
<1>1. \A trail : compareBoundaries(trail) \in Verdict
  BY DEF compareBoundaries, Verdict
<1>. QED BY <1>1 DEF Compared, ExecutionRecord

\* What a release makes of one.
LEMMA ReleasedType ==
    ASSUME NEW r \in ExecutionRecord
    PROVE  [r EXCEPT !.released = TRUE] \in ExecutionRecord
  BY DEF ExecutionRecord

\* What reading the execution record returns is one, unless it is refused.
LEMMA ExecRecord ==
    ASSUME FilesTyped, NEW p \in Proc, NEW record \in ExecReads(p), Unusable(record) = "none"
    PROVE  record \in ExecutionRecord
  BY DEF FilesTyped, ExecReads, Unusable


---------------------------------------------------------------------------
(* What a process knows.                                                   *)

\* Where a step leads, and what it leaves in hand.
LEMMA Steering ==
    ASSUME Tables, task = [q \in Proc |-> task[q]], NEW p \in Proc
    PROVE  /\ \A s : Goto(p, s) => pc'[p] = s
           /\ \A call, then : Start(p, call, then) =>
                pc'[p] = "lock" /\ op'[p].call = call /\ op'[p].then = then
           /\ Forget(p) => op'[p] = NoCall
           /\ \A outcome : Done(p, outcome) => pc'[p] = "idle" /\ task'[p] = NoTask
           /\ \A x : task' = [task EXCEPT ![p] = x] => task'[p] = x
<1>1. /\ \A s : Goto(p, s) => pc'[p] = s
      /\ \A call, then : Start(p, call, then) =>
            pc'[p] = "lock" /\ op'[p].call = call /\ op'[p].then = then
  BY Control
<1>2. Forget(p) => op'[p] = NoCall
  BY PutAt DEF Tables, Forget
<1>3. \A x : task' = [task EXCEPT ![p] = x] => task'[p] = x
  BY PutAt
<1>4. \A outcome : Done(p, outcome) => pc'[p] = "idle" /\ task'[p] = NoTask
  BY <1>1, <1>3 DEF Done, Return
<1>. QED BY <1>1, <1>2, <1>3, <1>4

\* Outside the harness's calls.
LEMMA KnowingOn ==
    ASSUME NEW p, Knowing(p), pc[p] \notin Calling,
           (op'[p].call = op[p].call /\ op'[p].then = op[p].then) \/ op'[p] = NoCall,
           pc'[p] \in {"idle"} \cup ExecSteps,
           Tasked(task'[p]),
           pc'[p] \in {"started", "command"} => task'[p].attempt \in Attempt,
           task'[p].name = "run" =>
                pc'[p] \in {"runRecord", "runCheck"} \/ task'[p].attempt \in Attempt,
           pc'[p] \in {"evaluateWrite", "evaluateRun"} => task'[p].record.verdict \in Verdict
    PROVE  Knowing(p)'
<1>1. op'[p].call \in Call /\ op'[p].then = "idle"
  BY FreshCall DEF Knowing
<1>2. pc'[p] # "attemptWrite" /\ pc'[p] \in Steps \cup ExecSteps
  BY DEF ExecSteps, Steps
<1>. QED BY <1>1, <1>2 DEF Knowing, Thens

\* At the start of one.
LEMMA KnowingCall ==
    ASSUME NEW p, pc'[p] = "lock", op'[p].call \in Call, op'[p].then \in Thens,
           Tasked(task'[p]),
           op'[p].then = "started" => task'[p].attempt \in Attempt,
           task'[p].name = "run" => task'[p].attempt \in Attempt
    PROVE  Knowing(p)'
  BY DEF Knowing, Steps, Calling

\* Inside one.
LEMMA KnowingInside ==
    ASSUME NEW p, Knowing(p), UNCHANGED <<op, task>>, pc[p] \in Calling, pc'[p] \in Calling,
           pc'[p] = "attemptWrite" => op[p].call.name = "attempt"
    PROVE  Knowing(p)'
<1>1. pc'[p] \in Steps /\ pc[p] \notin {"runRecord", "runCheck"}
      /\ pc'[p] \notin {"started", "command", "evaluateWrite", "evaluateRun"}
  BY DEF Calling, Steps, Locked
<1>. QED BY <1>1 DEF Knowing

\* At its end the process goes on where it was called from.
LEMMA KnowingReturn ==
    ASSUME NEW p, Knowing(p), UNCHANGED task, pc[p] \in Calling,
           pc'[p] = op[p].then, op'[p] = NoCall
    PROVE  Knowing(p)'
<1>1. /\ pc[p] \notin {"runRecord", "runCheck"}
      /\ pc'[p] \in Steps \cup ExecSteps /\ pc'[p] # "attemptWrite"
      /\ pc'[p] \notin {"command", "evaluateWrite", "evaluateRun"}
  BY DEF Calling, Steps, Locked, Knowing, Thens, ExecSteps
<1>. QED BY <1>1, FreshCall DEF Knowing, Thens

\* A call of the harness keeps what its process knows, and ends where it was made.
LEMMA HarnessKnowing ==
    ASSUME Tables, task = [q \in Proc |-> task[q]], NEW p \in Proc, Knowing(p),
           Begin(p) \/ Step(p) \/ Crash(p), UNCHANGED task
    PROVE  Knowing(p)'
<1>. USE Steering DEF At, Return, Calling, Locked, lockVars, files, locals, counters, Unchanged
<1>1. CASE Begin(p)
  <2>1. PICK name \in Operation \cap DOMAIN Calls :
            \E call \in Calls[name] : Start(p, call, "idle")
    BY <1>1 DEF Begin
  <2>2. \A call \in Calls[name] : call \in Call
    BY CallsType
  <2>3. pc'[p] = "lock" /\ op'[p].call \in Call /\ op'[p].then = "idle"
    BY <2>1, <2>2
  <2>. QED BY <1>1, <2>3, KnowingCall DEF Begin, Knowing, Thens
<1>2. CASE Acquire(p)
  BY <1>2, KnowingInside DEF Acquire
<1>3. CASE LockRefused(p) \/ Unlock(p)
  BY <1>3, KnowingReturn DEF LockRefused, Unlock
<1>4. CASE ReadForCreate(p)
  BY <1>4, KnowingInside DEF ReadForCreate
<1>5. CASE ReadForTransition(p)
  BY <1>5, KnowingInside DEF ReadForTransition
<1>6. CASE ReadAttempt(p) \/ WriteAttempt(p)
  BY <1>6, KnowingInside DEF ReadAttempt, WriteAttempt
<1>7. CASE RefreshSummary(p)
  BY <1>7, KnowingInside DEF RefreshSummary
<1>8. CASE Write(p) \/ Emit(p)
  BY <1>8, KnowingInside DEF Write, Emit
<1>9. CASE Crash(p)
  BY <1>9 DEF Crash, Knowing
<1>. QED BY <1>1, <1>2, <1>3, <1>4, <1>5, <1>6, <1>7, <1>8, <1>9 DEF Step

\* An operation of the adapter draws an attempt before it records it, and compares
\* before it writes.
LEMMA ExecutionKnowing ==
    ASSUME Tables, task = [q \in Proc |-> task[q]], NEW p \in Proc, Knowing(p), FilesTyped,
           AdapterInv, BeginExecution(p) \/ ExecutionStep(p)
    PROVE  Knowing(p)'
<1>. USE Steering, FreshTask, KnowingOn
     DEF At, Return, Calling, Locked, lockVars, files, locals, counters, Quiet, Proceed
<1>0. Tasked(task[p]) /\ op[p].call \in Call /\ op[p].then \in Thens
  BY DEF Knowing
<1>1. CASE BeginExecution(p)
  <2>1. PICK name \in instance.operations, entry \in Observation :
            /\ name # "evaluate" => entry = "clean"
            /\ task' = [task EXCEPT ![p] = [NoTask EXCEPT !.name = name, !.entry = entry]]
            /\ Goto(p, FirstStep[name])
    BY <1>1 DEF BeginExecution
  <2>2. name \in {"prepare", "evaluate", "run", "release", "checkpoint"}
    BY InstancesAssumption DEF AdapterInv
  <2>3. task'[p] = [NoTask EXCEPT !.name = name, !.entry = entry]
    BY <2>1
  <2>4. Tasked(task'[p]) /\ task'[p].name = name
    BY <2>3, FreshTask DEF Tasked, TaskFields
  <2>5. pc'[p] = FirstStep[name] /\ UNCHANGED op /\ pc[p] = "idle"
    BY <1>1, <2>1 DEF BeginExecution
  <2>6. /\ pc'[p] \in {"prepare", "evaluate", "runRecord", "release", "checkpoint"}
        /\ name = "run" => pc'[p] = "runRecord"
    BY <2>2, <2>5 DEF FirstStep
  <2>. QED BY <2>4, <2>5, <2>6 DEF ExecSteps
<1>2. CASE PrepareCheck(p)
  BY <1>2 DEF PrepareCheck, Knowing, ExecSteps
<1>3. CASE PrepareWorkspace(p)
  BY <1>3 DEF PrepareWorkspace, Knowing, ExecSteps
<1>4. CASE PrepareWrite(p)
  BY <1>4 DEF PrepareWrite
<1>5. CASE EvaluateRead(p)
  <2>1. PICK record \in ExecReads(p) :
            \/ Done(p, Unusable(record))
            \/ /\ Unusable(record) = "none"
               /\ task' = [task EXCEPT ![p].record = Compared(record, task[p].entry),
                                       ![p].previous = record.verdict]
               /\ Goto(p, "evaluateWrite")
    BY <1>5 DEF EvaluateRead
  <2>2. CASE Done(p, Unusable(record))
    BY <1>5, <2>2 DEF EvaluateRead
  <2>3. CASE ~Done(p, Unusable(record))
    <3>1. /\ Compared(record, task[p].entry) \in ExecutionRecord
          /\ Compared(record, task[p].entry).verdict \in Verdict
      BY <1>0, <2>1, <2>3, ExecRecord, ComparedType DEF Tasked
    <3>2. Tasked(task'[p]) /\ task'[p].record.verdict \in Verdict /\ SameTask(p)
      <4>. DEFINE x == Compared(record, task[p].entry)
                  y == record.verdict
      <4>1. x \in ExecutionRecord /\ x.verdict \in Verdict
            /\ task' = [task EXCEPT ![p].record = x, ![p].previous = y]
        BY <2>1, <2>3, <3>1
      <4>. HIDE DEF x, y
      <4>. QED BY <1>0, <4>1, TaskPut
    <3>. QED BY <1>5, <2>1, <2>3, <3>2 DEF EvaluateRead, Knowing, ExecSteps, SameTask
  <2>. QED BY <2>2, <2>3
<1>6. CASE EvaluateWrite(p)
  BY <1>6 DEF EvaluateWrite, Knowing, ExecSteps
<1>7. CASE EvaluateRun(p)
  BY <1>7 DEF EvaluateRun, Knowing, ExecSteps
<1>8. CASE PutEvaluation(p)
  BY <1>8 DEF PutEvaluation, Knowing, ExecSteps, execVars
<1>9. CASE EmitViolation(p)
  <2>1. UNCHANGED task /\ pc[p] = "violation"
    BY <1>9 DEF EmitViolation, execVars
  <2>2. CASE Goto(p, "evaluated") /\ UNCHANGED op
    BY <2>1, <2>2 DEF Knowing, ExecSteps
  <2>3. CASE ~(Goto(p, "evaluated") /\ UNCHANGED op)
    <3>1. PICK call \in {Transition("blocked", TRUE), Transition("cancelled", TRUE)} :
                Start(p, call, "evaluated")
      BY <1>9, <2>3 DEF EmitViolation, StopFor
    <3>2. call \in Call
      BY CallType DEF Lifecycle!State
    <3>3. pc'[p] = "lock" /\ op'[p].call \in Call /\ op'[p].then = "evaluated"
      BY <3>1, <3>2
    <3>4. task[p].name = "run" => task[p].attempt \in Attempt
      BY <2>1 DEF Knowing
    <3>. QED BY <1>0, <2>1, <3>3, <3>4, KnowingCall DEF Thens
  <2>. QED BY <2>2, <2>3
<1>10. CASE Evaluated(p)
  <2>1. CASE task[p].name = "run"
    <3>1. /\ task[p].attempt \in Attempt /\ task[p].outcome \in AttemptState
          /\ Start(p, Record(task[p].attempt, task[p].outcome), "outcome") /\ UNCHANGED task
      BY <1>0, <1>10, <2>1 DEF Evaluated, Knowing, Tasked, AttemptState
    <3>. QED BY <1>0, <3>1, CallType, KnowingCall DEF Thens
  <2>2. CASE task[p].name # "run"
    BY <1>10, <2>2 DEF Evaluated
  <2>. QED BY <2>1, <2>2
<1>11. CASE RunRecordCheck(p)
  BY <1>11 DEF RunRecordCheck, Knowing, ExecSteps
<1>12. CASE RunCheck(p)
  <2>1. \/ \E outcome : Done(p, outcome) /\ UNCHANGED op
        \/ \E id \in Attempt : /\ task' = [task EXCEPT ![p].attempt = id]
                               /\ Start(p, Record(id, "running"), "started")
    BY <1>12 DEF RunCheck
  <2>2. CASE \E outcome : Done(p, outcome) /\ UNCHANGED op
    BY <1>12, <2>2 DEF RunCheck
  <2>3. ASSUME NEW id \in Attempt, task' = [task EXCEPT ![p].attempt = id],
               Start(p, Record(id, "running"), "started")
        PROVE  Knowing(p)'
    <3>1. Record(id, "running") \in Call
      BY CallType DEF AttemptState
    <3>2. Tasked(task'[p]) /\ task'[p].attempt = id
      BY <1>0, <2>3, TaskPut
    <3>. QED BY <2>3, <3>1, <3>2, KnowingCall DEF Thens
  <2>. QED BY <2>1, <2>2, <2>3
<1>13. CASE Started(p)
  BY <1>13 DEF Started, Throws, Knowing, ExecSteps
<1>14. CASE CommandRefused(p)
  <2>1. task[p].attempt \in Attempt /\ "refused" \in AttemptState
    BY <1>14 DEF CommandRefused, Knowing, AttemptState
  <2>. QED BY <1>0, <1>14, <2>1, CallType, KnowingCall DEF CommandRefused, execVars, Thens
<1>15. CASE CommandRuns(p)
  <2>1. PICK outcome \in {"completed", "failed"} : task' = [task EXCEPT ![p].outcome = outcome]
    BY <1>15 DEF CommandRuns
  <2>2. Tasked(task'[p]) /\ SameTask(p)
    BY <1>0, <2>1, TaskPut
  <2>. QED BY <1>15, <2>2 DEF CommandRuns, Knowing, ExecSteps, SameTask
<1>16. CASE RefusedEmit(p) \/ Outcome(p)
  BY <1>16 DEF RefusedEmit, Outcome, Throws
<1>17. CASE Observe(p)
  <2>1. PICK entry \in Observation : task' = [task EXCEPT ![p].entry = entry]
    BY <1>17 DEF Observe, Observation
  <2>2. Tasked(task'[p]) /\ SameTask(p)
    BY <1>0, <2>1, TaskPut
  <2>. QED BY <1>17, <2>2 DEF Observe, Knowing, ExecSteps, SameTask
<1>18. CASE ReleaseRead(p)
  <2>1. PICK record \in ExecReads(p) :
            \/ Done(p, Unusable(record))
            \/ /\ Unusable(record) = "none"
               /\ task' = [task EXCEPT ![p].record = [record EXCEPT !.released = TRUE]]
               /\ Goto(p, "releaseWorkspace")
    BY <1>18 DEF ReleaseRead
  <2>2. CASE Done(p, Unusable(record))
    BY <1>18, <2>2 DEF ReleaseRead
  <2>3. CASE ~Done(p, Unusable(record))
    <3>1. [record EXCEPT !.released = TRUE] \in ExecutionRecord
      BY <2>1, <2>3, ReleasedType, ExecRecord
    <3>2. Tasked(task'[p]) /\ SameTask(p)
      BY <1>0, <2>1, <2>3, <3>1, TaskPut
    <3>. QED BY <1>18, <2>1, <2>3, <3>2 DEF ReleaseRead, Knowing, ExecSteps, SameTask
  <2>. QED BY <2>2, <2>3
<1>19. CASE ReleaseWorkspace(p)
  BY <1>19 DEF ReleaseWorkspace, Knowing, ExecSteps
<1>20. CASE ReleaseWrite(p)
  BY <1>20 DEF ReleaseWrite, Knowing, ExecSteps
<1>21. CASE ReleaseRun(p)
  BY <1>21 DEF ReleaseRun, Knowing, ExecSteps
<1>22. CASE PutRelease(p)
  BY <1>22 DEF PutRelease
<1>. QED BY <1>1, <1>2, <1>3, <1>4, <1>5, <1>6, <1>7, <1>8, <1>9, <1>10, <1>11, <1>12, <1>13,
            <1>14, <1>15, <1>16, <1>17, <1>18, <1>19, <1>20, <1>21, <1>22 DEF ExecutionStep

\* A checkpoint makes no call.
LEMMA CheckpointKnowing ==
    ASSUME Tables, task = [q \in Proc |-> task[q]], NEW p \in Proc, Knowing(p),
           CheckpointStep(p)
    PROVE  Knowing(p)'
<1>. USE Steering, FreshTask, KnowingOn
     DEF At, Return, Calling, Locked, lockVars, files, locals, counters, Quiet, Proceed
<1>0. Tasked(task[p])
  BY DEF Knowing
<1>1. ASSUME NEW x, task' = [task EXCEPT ![p].mark = x],
             pc[p] \in {"checkpoint", "checkpointRefs"}, UNCHANGED op,
             pc'[p] \in {"checkpointRefs", "checkpointWrite"}
      PROVE  Knowing(p)'
  <2>1. Tasked(task'[p]) /\ SameTask(p)
    BY <1>0, <1>1, TaskPut
  <2>. QED BY <1>1, <2>1 DEF Knowing, ExecSteps, SameTask
<1>2. CASE CheckpointRead(p)
  BY <1>1, <1>2 DEF CheckpointRead
<1>3. CASE CheckpointRefs(p)
  BY <1>1, <1>3 DEF CheckpointRefs
<1>4. CASE CheckpointWrite(p)
  BY <1>4 DEF CheckpointWrite, Knowing, ExecSteps
<1>5. CASE CheckpointRun(p)
  BY <1>5 DEF CheckpointRun, Knowing, ExecSteps
<1>6. CASE PutCheckpoint(p)
  BY <1>6 DEF PutCheckpoint
<1>. QED BY <1>2, <1>3, <1>4, <1>5, <1>6 DEF CheckpointStep


---------------------------------------------------------------------------
(* Records and files.                                                      *)

\* A copy with typed parts.
CopySummed(p) == UNCHANGED copy \/ \E c : Summed(c) /\ copy' = [copy EXCEPT ![p] = c]

\* A call of the harness copies the record with typed parts.
LEMMA HarnessSummed ==
    ASSUME Histories, Summaries, NEW p \in Proc, Begin(p) \/ Step(p) \/ Crash(p)
    PROVE  CopySummed(p)
<1>. USE DEF CopySummed, Goto, Return, Forget, Start, lockVars, files, locals, counters,
             Unchanged
<1>0. \A record \in Reads(p) :
        record \notin {Absent, Corrupt} => Historied(record) /\ Summed(record)
  BY ReadRecord DEF Summaries, Unreadable
<1>1. CASE Begin(p) \/ Acquire(p)
  BY <1>1 DEF Begin, Acquire
<1>2. CASE LockRefused(p) \/ Unlock(p)
  BY <1>2, FreshRecord DEF LockRefused, Unlock
<1>3. CASE ReadForCreate(p)
  BY <1>3, FreshRecord DEF ReadForCreate
<1>4. CASE ReadForTransition(p)
  <2>1. PICK record \in Reads(p) :
            \/ UNCHANGED copy
            \/ /\ record \notin {Absent, Corrupt}
               /\ copy' = [copy EXCEPT ![p] =
                    [record EXCEPT !.history = Append(record.history, op[p].call.to)]]
    BY <1>4 DEF ReadForTransition, Refusal
  <2>2. record \notin {Absent, Corrupt} => \A h : Summed([record EXCEPT !.history = h])
    BY <1>0, SummedWith
  <2>. QED BY <2>1, <2>2
<1>5. CASE ReadAttempt(p) \/ WriteAttempt(p)
  BY <1>5 DEF ReadAttempt, WriteAttempt
<1>6. CASE RefreshSummary(p)
  <2>1. PICK record \in Reads(p) :
            \/ UNCHANGED copy
            \/ /\ record \notin {Absent, Corrupt}
               /\ copy' = [copy EXCEPT ![p] =
                    [record EXCEPT !.attempts = Cardinality(Recorded)]]
    BY <1>6 DEF RefreshSummary
  <2>2. record \notin {Absent, Corrupt} =>
            Summed([record EXCEPT !.attempts = Cardinality(Recorded)])
    BY <1>0, SummedWith, RecordedCount
  <2>. QED BY <2>1, <2>2
<1>7. CASE Write(p) \/ Emit(p)
  BY <1>7 DEF Write, Emit
<1>8. CASE Crash(p)
  BY <1>8 DEF Crash
<1>. QED BY <1>1, <1>2, <1>3, <1>4, <1>5, <1>6, <1>7, <1>8 DEF Step

\* An operation of the adapter replaces the execution section by one of its type.
LEMMA ExecutionSummed ==
    ASSUME Histories, Summaries, NEW p \in Proc, Knowing(p),
           BeginExecution(p) \/ ExecutionStep(p)
    PROVE  CopySummed(p)
<1>. USE DEF CopySummed, Goto, Return, Start, lockVars, files, locals, counters, Quiet, Done,
             Proceed, Throws
<1>0. \A record \in Reads(p) :
        record \notin {Absent, Corrupt} => Historied(record) /\ Summed(record)
  BY ReadRecord DEF Summaries, Unreadable
<1>1. CASE BeginExecution(p)
  BY <1>1 DEF BeginExecution
<1>2. CASE PrepareCheck(p) \/ PrepareWorkspace(p) \/ PrepareWrite(p)
  BY <1>2 DEF PrepareCheck, PrepareWorkspace, PrepareWrite
<1>3. CASE EvaluateRead(p) \/ EvaluateWrite(p)
  BY <1>3 DEF EvaluateRead, EvaluateWrite
<1>4. CASE EvaluateRun(p)
  <2>1. PICK record \in Reads(p) :
            \/ UNCHANGED copy
            \/ /\ record \notin {Absent, Corrupt}
               /\ copy' = [copy EXCEPT ![p] = [record EXCEPT !.execution =
                    [verdict |-> task[p].record.verdict, released |-> record.execution.released]]]
    BY <1>4 DEF EvaluateRun
  <2>2. task[p].record.verdict \in Verdict
    BY <1>4 DEF EvaluateRun, At, Knowing
  <2>3. record \notin {Absent, Corrupt} => record.execution.released \in BOOLEAN
    <3>. SUFFICES ASSUME record \notin {Absent, Corrupt}
                  PROVE  record.execution.released \in BOOLEAN
      OBVIOUS
    <3>1. record.execution \in View
      BY <1>0 DEF Summed
    <3>2. \A view \in [verdict : Verdict, released : BOOLEAN] : view.released \in BOOLEAN
      OBVIOUS
    <3>3. NoView.released \in BOOLEAN
      BY DEF NoView
    <3>. QED BY <3>1, <3>2, <3>3 DEF View
  <2>4. record \notin {Absent, Corrupt} =>
            [verdict |-> task[p].record.verdict, released |-> record.execution.released] \in View
    BY <2>2, <2>3 DEF View
  <2>5. record \notin {Absent, Corrupt} =>
            \A view \in View : Summed([record EXCEPT !.execution = view])
    BY <1>0, SummedWith
  <2>. QED BY <2>1, <2>4, <2>5
<1>5. CASE PutEvaluation(p) \/ EmitViolation(p)
  BY <1>5 DEF PutEvaluation, EmitViolation
<1>6. CASE Evaluated(p)
  BY <1>6, FreshRecord DEF Evaluated, Forget
<1>7. CASE RunRecordCheck(p) \/ RunCheck(p)
  BY <1>7 DEF RunRecordCheck, RunCheck
<1>8. CASE Started(p) \/ CommandRefused(p) \/ CommandRuns(p)
  BY <1>8 DEF Started, CommandRefused, CommandRuns
<1>9. CASE RefusedEmit(p) \/ Observe(p) \/ Outcome(p)
  BY <1>9 DEF RefusedEmit, Observe, Outcome
<1>10. CASE ReleaseRead(p) \/ ReleaseWorkspace(p) \/ ReleaseWrite(p)
  BY <1>10 DEF ReleaseRead, ReleaseWorkspace, ReleaseWrite
<1>11. CASE ReleaseRun(p)
  <2>1. PICK record \in Reads(p) :
            \/ UNCHANGED copy
            \/ /\ record \notin {Absent, Corrupt} /\ record.execution # NoView
               /\ copy' = [copy EXCEPT ![p] = [record EXCEPT !.execution.released = TRUE]]
    BY <1>11 DEF ReleaseRun
  <2>2. CASE UNCHANGED copy
    BY <2>2
  <2>3. CASE ~UNCHANGED copy
    <3>1. Historied(record) /\ Summed(record) /\ record.execution # NoView
      BY <1>0, <2>1, <2>3
    <3>2. [record.execution EXCEPT !.released = TRUE] \in View
      BY <3>1 DEF Summed, View
    <3>3. [record EXCEPT !.execution.released = TRUE] =
                [record EXCEPT !.execution = [record.execution EXCEPT !.released = TRUE]]
      BY <3>1 DEF Historied
    <3>4. Summed([record EXCEPT !.execution = [record.execution EXCEPT !.released = TRUE]])
      BY <3>1, <3>2, SummedWith
    <3>. QED BY <2>1, <2>3, <3>3, <3>4
  <2>. QED BY <2>2, <2>3
<1>12. CASE PutRelease(p)
  BY <1>12, FreshRecord DEF PutRelease, Forget
<1>. QED BY <1>1, <1>2, <1>3, <1>4, <1>5, <1>6, <1>7, <1>8, <1>9, <1>10, <1>11, <1>12
        DEF ExecutionStep

\* A checkpoint copies the record as it is.
LEMMA CheckpointSummed ==
    ASSUME Histories, Summaries, NEW p \in Proc, CheckpointStep(p)
    PROVE  CopySummed(p)
<1>. USE DEF CopySummed, Goto, Return, lockVars, files, locals, counters, Quiet, Done, Proceed
<1>1. CASE CheckpointRead(p) \/ CheckpointWrite(p)
  BY <1>1 DEF CheckpointRead, CheckpointWrite
<1>2. CASE CheckpointRefs(p)
  BY <1>2 DEF CheckpointRefs
<1>3. CASE CheckpointRun(p)
  <2>1. PICK record \in Reads(p) :
            \/ UNCHANGED copy
            \/ record \notin {Absent, Corrupt} /\ copy' = [copy EXCEPT ![p] = record]
    BY <1>3 DEF CheckpointRun, Reads
  <2>2. record \notin {Absent, Corrupt} => Summed(record)
    BY ReadRecord DEF Summaries, Unreadable
  <2>. QED BY <2>1, <2>2
<1>4. CASE PutCheckpoint(p)
  BY <1>4, FreshRecord DEF PutCheckpoint, Forget
<1>. QED BY <1>1, <1>2, <1>3, <1>4 DEF CheckpointStep

\* A kind the ledger knows is appended, or refused.
LEMMA EventAppended ==
    ASSUME FilesTyped, NEW kind \in RunEvent \cup ExecutionEvent, AppendEvent(kind)
    PROVE  events' \in Seq(RunEvent \cup ExecutionEvent)
  BY DEF FilesTyped, AppendEvent

\* A call of the harness writes attempts and events of their types.
LEMMA HarnessFiles ==
    ASSUME FilesTyped, Histories, NEW p \in Proc, Knowing(p), Begin(p) \/ Step(p) \/ Crash(p)
    PROVE  /\ attempts' \in [Attempt -> AttemptState \cup {Absent, Corrupt}]
           /\ events' \in Seq(RunEvent \cup ExecutionEvent)
<1>. USE DEF FilesTyped, lockVars, files, locals, counters, Unchanged
<1>0. pc[p] = "attemptWrite" => op[p].call.id \in Attempt /\ op[p].call.state \in AttemptState
  BY CallKinds DEF Knowing
<1>1. CASE Begin(p) \/ Acquire(p) \/ LockRefused(p)
  BY <1>1 DEF Begin, Acquire, LockRefused
<1>2. CASE ReadForCreate(p) \/ ReadForTransition(p) \/ ReadAttempt(p)
  BY <1>2 DEF ReadForCreate, ReadForTransition, ReadAttempt
<1>3. CASE WriteAttempt(p)
  BY <1>0, <1>3 DEF WriteAttempt, At
<1>4. CASE RefreshSummary(p) \/ Write(p) \/ Unlock(p)
  BY <1>4 DEF RefreshSummary, Write, Unlock
<1>5. CASE Emit(p)
  <2>. DEFINE trail == EventsOf(copy[p].history)
  <2>1. copy[p].history \in Seq(Lifecycle!State) /\ copy[p].history # << >>
    BY DEF Histories, Historied
  <2>2. Len(copy[p].history) \in 1..Len(copy[p].history)
    BY <2>1
  <2>3. trail[Len(trail)] \in RunEvent
    BY <2>1, <2>2, EventsType
  <2>4. AppendEvent(trail[Len(trail)])
    BY <1>5 DEF Emit
  <2>5. UNCHANGED attempts
    BY <1>5 DEF Emit
  <2>. HIDE DEF trail
  <2>. QED BY <2>3, <2>4, <2>5, EventAppended
<1>6. CASE Crash(p)
  BY <1>0, <1>6 DEF Crash
<1>. QED BY <1>1, <1>2, <1>3, <1>4, <1>5, <1>6 DEF Step

\* An operation of the adapter writes its record, its workspace and its events.
LEMMA ExecutionFiles ==
    ASSUME FilesTyped, NEW p \in Proc, Knowing(p), BeginExecution(p) \/ ExecutionStep(p)
    PROVE  FilesTyped'
<1>. USE DEF FilesTyped, lockVars, files, locals, counters, Quiet
<1>0. task[p].record \in ExecutionRecord /\ NewExecution \in ExecutionRecord
  BY FreshTask DEF Knowing, Tasked, NewExecution, ExecutionRecord
<1>emits. \A kind \in ExecutionEvent :
            AppendEvent(kind) => events' \in Seq(RunEvent \cup ExecutionEvent)
  BY EventAppended
<1>1. CASE BeginExecution(p) \/ PrepareCheck(p)
  BY <1>1 DEF BeginExecution, PrepareCheck
<1>2. CASE PrepareWorkspace(p)
  BY <1>2 DEF PrepareWorkspace, Workspace
<1>3. CASE PrepareWrite(p) \/ EvaluateWrite(p) \/ ReleaseWrite(p)
  BY <1>0, <1>3 DEF PrepareWrite, EvaluateWrite, ReleaseWrite
<1>4. CASE EvaluateRead(p) \/ EvaluateRun(p) \/ PutEvaluation(p)
  BY <1>4 DEF EvaluateRead, EvaluateRun, PutEvaluation, execVars
<1>5. CASE EmitViolation(p)
  BY <1>emits, <1>5 DEF EmitViolation, execVars, ExecutionEvent
<1>6. CASE Evaluated(p) \/ RunRecordCheck(p) \/ RunCheck(p)
  BY <1>6 DEF Evaluated, RunRecordCheck, RunCheck
<1>7. CASE Started(p)
  BY <1>emits, <1>7 DEF Started, Throws, ExecutionEvent
<1>8. CASE CommandRefused(p) \/ Observe(p)
  BY <1>8 DEF CommandRefused, Observe, execVars
<1>9. CASE CommandRuns(p)
  BY <1>9 DEF CommandRuns, Workspace
<1>10. CASE RefusedEmit(p) \/ Outcome(p)
  BY <1>emits, <1>10 DEF RefusedEmit, Outcome, Throws, ExecutionEvent
<1>11. CASE ReleaseRead(p) \/ ReleaseRun(p) \/ PutRelease(p)
  BY <1>11 DEF ReleaseRead, ReleaseRun, PutRelease
<1>12. CASE ReleaseWorkspace(p)
  BY <1>12 DEF ReleaseWorkspace, Workspace
<1>. QED BY <1>1, <1>2, <1>3, <1>4, <1>5, <1>6, <1>7, <1>8, <1>9, <1>10, <1>11, <1>12
        DEF ExecutionStep

\* A checkpoint writes none of these files.
LEMMA CheckpointFiles ==
    ASSUME FilesTyped, NEW p \in Proc, CheckpointStep(p)
    PROVE  FilesTyped'
<1>. USE DEF FilesTyped, lockVars, files, locals, counters, Quiet, restVars
<1>1. CASE CheckpointRead(p) \/ CheckpointRefs(p) \/ CheckpointWrite(p)
  BY <1>1 DEF CheckpointRead, CheckpointRefs, CheckpointWrite
<1>2. CASE CheckpointRun(p) \/ PutCheckpoint(p)
  BY <1>2 DEF CheckpointRun, PutCheckpoint
<1>. QED BY <1>1, <1>2 DEF CheckpointStep


---------------------------------------------------------------------------
(* The lock and the attempts.                                              *)

\* Settled attempts stay as they are.
Settles == \A id \in Attempt : attempts[id] \in FinalAttemptStates => attempts'[id] = attempts[id]

\* A step that leaves the lock and the attempts alone.
LEMMA SettlingKept ==
    ASSUME Tables, Settling, NEW p \in Proc, Moves(p),
           UNCHANGED <<holder, orphan, alive, attempts>>,
           pc[p] \in Locked <=> pc'[p] \in Locked,
           pc'[p] = "attemptWrite" => attempts[op'[p].call.id] \notin FinalAttemptStates
    PROVE  Settling' /\ Settles
<1>1. \A q \in Proc \ {p} : pc'[q] = pc[q] /\ op'[q] = op[q]
  BY MovesOnly
<1>2. \A q \in Proc : pc[q] \in Locked <=> pc'[q] \in Locked
  BY <1>1
<1>3. LockInv'
  BY <1>2 DEF Settling, LockInv
<1>4. ASSUME NEW q \in Proc, At(q, "attemptWrite")'
      PROVE  attempts'[op'[q].call.id] \notin FinalAttemptStates
  BY <1>1, <1>4 DEF Settling, At
<1>. QED BY <1>3, <1>4 DEF Settling, Settles, Lock!TypeOK

\* A call of the harness writes an attempt under the lock only, and none that has settled.
LEMMA HarnessSettling ==
    ASSUME Tables, Settling, FilesTyped, NEW p \in Proc, Knowing(p), Moves(p),
           Begin(p) \/ Step(p) \/ Crash(p)
    PROVE  Settling' /\ Settles
<1>. USE DEF At, Return, lockVars, files, locals, counters, Unchanged
<1>goes. /\ \A s : Goto(p, s) => pc'[p] = s
         /\ \A call, then : Start(p, call, then) => pc'[p] = "lock"
         /\ op[p].then \notin Locked
  BY Control DEF Knowing, Thens, Locked
<1>others. \A q \in Proc \ {p} : pc'[q] = pc[q] /\ op'[q] = op[q] /\ alive'[q] = alive[q]
  BY MovesOnly
<1>alone. (alive[p] /\ pc[p] \in Locked) =>
            holder = {p} /\ \A q \in Proc \ {p} : ~(alive[q] /\ pc[q] \in Locked)
  BY DEF Settling, LockInv, Lock!TypeOK
<1>1. CASE Begin(p)
  BY <1>goes, <1>1, SettlingKept DEF Begin, Locked
<1>2. CASE Acquire(p)
  <2>1. /\ alive[p] /\ pc[p] = "lock" /\ pc'[p] = "read" /\ holder = {} /\ holder' = {p}
        /\ UNCHANGED <<orphan, alive, attempts, op>>
    BY <1>goes, <1>2 DEF Acquire, Lock!Acquire
  <2>2. \A q \in Proc \ {p} : ~(alive[q] /\ pc[q] \in Locked)
    BY <2>1 DEF Settling, LockInv
  <2>3. LockInv'
    BY <1>others, <2>1, <2>2 DEF LockInv, Locked
  <2>. QED BY <1>others, <2>1, <2>3 DEF Settling, Settles, Lock!TypeOK
<1>3. CASE LockRefused(p)
  <2>1. /\ alive[p] /\ pc[p] = "lock" /\ Goto(p, op[p].then)
        /\ UNCHANGED <<holder, orphan, alive, attempts>>
    BY <1>3 DEF LockRefused
  <2>2. pc'[p] = op[p].then
    BY <1>goes, <2>1
  <2>3. pc[p] \notin Locked /\ pc'[p] \notin Locked
    BY <1>goes, <2>1, <2>2 DEF Locked
  <2>. QED BY <2>1, <2>3, SettlingKept DEF Locked
<1>4. CASE ReadForCreate(p)
  BY <1>goes, <1>4, SettlingKept DEF ReadForCreate, Locked
<1>5. CASE ReadForTransition(p)
  BY <1>goes, <1>5, SettlingKept DEF ReadForTransition, Locked
<1>6. CASE ReadAttempt(p)
  BY <1>goes, <1>6, SettlingKept DEF ReadAttempt, Locked
<1>7. CASE WriteAttempt(p)
  <2>1. /\ alive[p] /\ pc[p] = "attemptWrite" /\ pc'[p] = "summary"
        /\ attempts' = [attempts EXCEPT ![op[p].call.id] = op[p].call.state]
        /\ UNCHANGED <<holder, orphan, alive, op>>
    BY <1>goes, <1>7 DEF WriteAttempt
  <2>2. attempts[op[p].call.id] \notin FinalAttemptStates
    BY <2>1 DEF Settling
  <2>3. Settles
    BY <2>1, <2>2 DEF Settles, FilesTyped
  <2>4. \A q \in Proc : pc'[q] \in Locked <=> pc[q] \in Locked
    BY <1>others, <2>1 DEF Locked
  <2>5. LockInv'
    BY <2>1, <2>4 DEF Settling, LockInv
  <2>6. \A q \in Proc : ~At(q, "attemptWrite")'
    BY <1>others, <1>alone, <2>1 DEF Locked
  <2>. QED BY <2>1, <2>3, <2>5, <2>6 DEF Settling, Lock!TypeOK
<1>8. CASE RefreshSummary(p)
  BY <1>goes, <1>8, SettlingKept DEF RefreshSummary, Locked
<1>9. CASE Write(p)
  BY <1>goes, <1>9, SettlingKept DEF Write, Locked
<1>10. CASE Emit(p)
  BY <1>goes, <1>10, SettlingKept DEF Emit, Locked
<1>11. CASE Unlock(p)
  <2>leaves. Goto(p, op[p].then) /\ Lock!Release(p)
    BY <1>11 DEF Unlock
  <2>there. pc'[p] = op[p].then /\ op[p].then \notin Locked
    BY <1>goes, <2>leaves
  <2>1. /\ alive[p] /\ pc[p] = "unlock" /\ pc'[p] \notin Locked
        /\ holder = {p} /\ holder' = {} /\ UNCHANGED <<orphan, alive, attempts>>
    BY <1>11, <2>leaves, <2>there DEF Unlock, Lock!Release
  <2>2. \A q \in Proc \ {p} : ~(alive[q] /\ pc[q] \in Locked)
    BY <1>alone, <2>1 DEF Locked
  <2>3. LockInv'
    BY <1>others, <2>1, <2>2 DEF LockInv
  <2>4. \A q \in Proc : ~At(q, "attemptWrite")'
    BY <1>others, <2>1, <2>2 DEF Locked
  <2>. QED BY <2>1, <2>3, <2>4 DEF Settling, Settles, Lock!TypeOK
<1>12. CASE Crash(p)
  <2>1. /\ alive[p] /\ ~alive'[p] /\ alive' \in [Proc -> BOOLEAN] /\ UNCHANGED <<pc, op>>
        /\ IF pc[p] \in Locked THEN Lock!Crash(p) ELSE UNCHANGED <<holder, orphan>>
    BY <1>12 DEF Crash, Settling
  <2>2. Lock!TypeOK'
    BY <2>1 DEF Lock!Crash, Lock!TypeOK, Settling
  <2>3. LockInv'
    BY <1>others, <1>alone, <2>1 DEF LockInv, Lock!Crash, Settling
  <2>4. CASE pc[p] # "attemptWrite"
    <3>1. UNCHANGED attempts
      BY <1>12, <2>4 DEF Crash
    <3>. QED BY <1>others, <2>1, <2>2, <2>3, <3>1 DEF Settling, Settles
  <2>5. CASE pc[p] = "attemptWrite"
    <3>1. \/ UNCHANGED attempts
          \/ \E a : attempts' = [attempts EXCEPT ![op[p].call.id] = a]
      BY <1>12 DEF Crash
    <3>2. attempts[op[p].call.id] \notin FinalAttemptStates
      BY <2>1, <2>5 DEF Settling
    <3>3. Settles
      BY <3>1, <3>2 DEF Settles, FilesTyped
    <3>4. \A q \in Proc : ~At(q, "attemptWrite")'
      BY <1>others, <1>alone, <2>1, <2>5 DEF Locked
    <3>. QED BY <2>1, <2>2, <2>3, <3>3, <3>4 DEF Settling
  <2>. QED BY <2>4, <2>5
<1>. QED BY <1>1, <1>2, <1>3, <1>4, <1>5, <1>6, <1>7, <1>8, <1>9, <1>10, <1>11, <1>12 DEF Step

\* The operations of the adapter take no lock and write no attempt but by a call.
LEMMA AdapterSettling ==
    ASSUME Tables, Settling, AdapterInv, NEW p \in Proc, Moves(p),
           BeginExecution(p) \/ ExecutionStep(p) \/ CheckpointStep(p)
    PROVE  Settling' /\ Settles
<1>1. CASE BeginExecution(p)
  <2>1. PICK name \in instance.operations : Goto(p, FirstStep[name])
    BY <1>1 DEF BeginExecution
  <2>2. name \in {"prepare", "evaluate", "run", "release", "checkpoint"}
    BY InstancesAssumption DEF AdapterInv
  <2>3. pc'[p] = FirstStep[name] /\ pc[p] = "idle"
    BY <1>1, <2>1, Control DEF BeginExecution, At
  <2>4. pc'[p] \notin Locked /\ pc[p] \notin Locked
    BY <2>2, <2>3 DEF FirstStep, Locked
  <2>. QED BY <1>1, <2>4, SettlingKept DEF BeginExecution, lockVars, files, Locked
<1>2. ASSUME UNCHANGED <<holder, orphan, alive, attempts>>,
             pc[p] \notin Locked, pc'[p] \notin Locked
      PROVE  Settling' /\ Settles
  BY <1>2, SettlingKept DEF Locked
<1>3. CASE PutEvaluation(p) \/ EmitViolation(p)
  <2>1. \/ Goto(p, "violation") \/ Goto(p, "evaluated")
        \/ \E call, then : Start(p, call, then)
    BY <1>3 DEF PutEvaluation, EmitViolation, Proceed
  <2>2. pc'[p] \notin Locked
    BY <2>1, Control DEF Locked
  <2>3. UNCHANGED <<holder, orphan, alive, attempts>> /\ pc[p] \notin Locked
    BY <1>3 DEF PutEvaluation, EmitViolation, lockVars, At, Locked
  <2>. QED BY <1>2, <2>2, <2>3
<1>4. CASE Plain(p)
  <2>1. BeginExecution(p) \/ UNCHANGED attempts
    <3>. USE DEF Quiet, files
    <3>1. CASE PrepareCheck(p) \/ PrepareWorkspace(p) \/ PrepareWrite(p) \/ EvaluateRead(p)
                    \/ EvaluateWrite(p) \/ EvaluateRun(p) \/ PutEvaluation(p)
      BY <3>1 DEF PrepareCheck, PrepareWorkspace, PrepareWrite, EvaluateRead, EvaluateWrite,
                  EvaluateRun, PutEvaluation
    <3>2. CASE EmitViolation(p) \/ Evaluated(p) \/ RunRecordCheck(p) \/ RunCheck(p) \/ Started(p)
                    \/ CommandRefused(p) \/ CommandRuns(p)
      BY <3>2 DEF EmitViolation, Evaluated, RunRecordCheck, RunCheck, Started, CommandRefused,
                  CommandRuns
    <3>3. CASE RefusedEmit(p) \/ Observe(p) \/ Outcome(p) \/ ReleaseRead(p) \/ ReleaseWorkspace(p)
                    \/ ReleaseWrite(p) \/ ReleaseRun(p) \/ PutRelease(p)
      BY <3>3 DEF RefusedEmit, Observe, Outcome, ReleaseRead, ReleaseWorkspace, ReleaseWrite,
                  ReleaseRun, PutRelease
    <3>4. CASE CheckpointStep(p)
      BY <3>4 DEF CheckpointStep, CheckpointRead, CheckpointRefs, CheckpointWrite, CheckpointRun,
                  PutCheckpoint
    <3>. QED BY <3>1, <3>2, <3>3, <3>4 DEF ExecutionStep
  <2>. QED BY <1>1, <1>2, <1>4, <2>1 DEF Plain
<1>. QED BY <1>1, <1>3, <1>4, ExecutionPlain, CheckpointPlain

---------------------------------------------------------------------------
(* All together.                                                           *)

\* A step of p writes the task of p.
LEMMA TaskMoves ==
    ASSUME task = [q \in Proc |-> task[q]], NEW p \in Proc,
           UNCHANGED task \/ \E x : task' = [task EXCEPT ![p] = x]
    PROVE  task' = [q \in Proc |-> task'[q]] /\ \A q \in Proc \ {p} : task'[q] = task[q]
  BY PutAt

\* An operation writes the task of its own process.
LEMMA TaskStep ==
    ASSUME NEW p \in Proc, BeginExecution(p) \/ ExecutionStep(p) \/ CheckpointStep(p)
    PROVE  UNCHANGED task \/ \E x : task' = [task EXCEPT ![p] = x]
<1>. USE DEF Done, execVars, Throws
<1>1. CASE BeginExecution(p)
  BY <1>1 DEF BeginExecution
<1>2. CASE PrepareCheck(p) \/ PrepareWorkspace(p) \/ PrepareWrite(p)
  BY <1>2 DEF PrepareCheck, PrepareWorkspace, PrepareWrite
<1>3. CASE EvaluateRead(p) \/ EvaluateWrite(p) \/ EvaluateRun(p)
  BY <1>3 DEF EvaluateRead, EvaluateWrite, EvaluateRun
<1>4. CASE PutEvaluation(p) \/ EmitViolation(p) \/ Evaluated(p)
  BY <1>4 DEF PutEvaluation, EmitViolation, Evaluated
<1>5. CASE RunRecordCheck(p) \/ RunCheck(p)
  BY <1>5 DEF RunRecordCheck, RunCheck
<1>6. CASE Started(p) \/ CommandRefused(p) \/ CommandRuns(p)
  BY <1>6 DEF Started, CommandRefused, CommandRuns
<1>7. CASE RefusedEmit(p) \/ Observe(p) \/ Outcome(p)
  BY <1>7 DEF RefusedEmit, Observe, Outcome
<1>8. CASE ReleaseRead(p) \/ ReleaseWorkspace(p) \/ ReleaseWrite(p)
  BY <1>8 DEF ReleaseRead, ReleaseWorkspace, ReleaseWrite
<1>9. CASE ReleaseRun(p) \/ PutRelease(p)
  BY <1>9 DEF ReleaseRun, PutRelease
<1>10. CASE CheckpointRead(p) \/ CheckpointRefs(p)
  BY <1>10 DEF CheckpointRead, CheckpointRefs
<1>11. CASE CheckpointWrite(p) \/ CheckpointRun(p) \/ PutCheckpoint(p)
  BY <1>11 DEF CheckpointWrite, CheckpointRun, PutCheckpoint
<1>. QED BY <1>1, <1>2, <1>3, <1>4, <1>5, <1>6, <1>7, <1>8, <1>9, <1>10, <1>11
        DEF ExecutionStep, CheckpointStep

\* The records after a step of p.
LEMMA SummariesStep ==
    ASSUME Tables, Summaries, NEW p \in Proc, Moves(p), Copied(p), CopySummed(p)
    PROVE  Summaries'
<1>1. \A q \in Proc \ {p} : copy'[q] = copy[q]
  BY MovesOnly
<1>2. Summed(copy'[p])
  BY PutAt DEF CopySummed, Tables, Summaries
<1>3. \A q \in Proc : Summed(copy'[q])
  BY <1>1, <1>2 DEF Summaries
<1>4. Unreadable' \/ Summed(run')
  BY DEF Copied, Summaries, Unreadable
<1>. QED BY <1>3, <1>4 DEF Summaries, Summed

\* Every step keeps the invariant.
LEMMA ComposedStep ==
    ASSUME ComposedInv, ExecutionNext
    PROVE  ComposedInv' /\ Settles
<1>1. AdapterInv'
  BY AdapterInvStays DEF ComposedInv
<1>. USE DEF ComposedInv, AdapterInv
<1>2. CASE Reclaim /\ UNCHANGED execVars
  <2>. USE <1>2 DEF Reclaim, files, locals, counters, execVars
  <2>1. \A q \in Proc : Knowing(q)'
    BY DEF Knowing
  <2>2. Summaries' /\ FilesTyped'
    BY DEF Summaries, FilesTyped, Unreadable
  <2>3. Settling' /\ Settles
    BY DEF Settling, Settles, LockInv, Lock!Reclaim, Lock!TypeOK, At
  <2>. QED BY <1>1, <2>1, <2>2, <2>3
<1>3. ASSUME NEW p \in Proc, Moves(p), Copied(p), CopySummed(p), Knowing(p)', FilesTyped',
             Settling' /\ Settles, UNCHANGED task \/ \E x : task' = [task EXCEPT ![p] = x]
      PROVE  ComposedInv' /\ Settles
  <2>1. /\ task' = [q \in Proc |-> task'[q]]
        /\ \A q \in Proc \ {p} : task'[q] = task[q] /\ pc'[q] = pc[q] /\ op'[q] = op[q]
    BY <1>3, TaskMoves, MovesOnly
  <2>2. \A q \in Proc : Knowing(q)'
    BY <1>3, <2>1 DEF Knowing
  <2>. QED BY <1>1, <1>3, <2>1, <2>2, SummariesStep
<1>4. ASSUME NEW p \in Proc, Moves(p), Begin(p) \/ Step(p), UNCHANGED execVars
      PROVE  ComposedInv' /\ Settles
  <2>1. FilesTyped'
    BY <1>4, HarnessFiles DEF FilesTyped, execVars
  <2>. QED BY <1>3, <1>4, <2>1, HarnessKnowing, HarnessCopies, HarnessSummed, HarnessSettling
        DEF execVars
<1>5. ASSUME NEW p \in Proc, Moves(p), BeginExecution(p) \/ ExecutionStep(p)
      PROVE  ComposedInv' /\ Settles
  BY <1>3, <1>5, ExecutionKnowing, ExecutionCopies, ExecutionSummed, ExecutionFiles,
     AdapterSettling, TaskStep
<1>6. ASSUME NEW p \in Proc, Moves(p), CheckpointStep(p)
      PROVE  ComposedInv' /\ Settles
  BY <1>3, <1>6, CheckpointKnowing, CheckpointCopies, CheckpointSummed, CheckpointFiles,
     AdapterSettling, TaskStep
<1>7. ASSUME NEW p \in Proc, Moves(p), CrashExecution(p)
      PROVE  ComposedInv' /\ Settles
  <2>1. Crash(p) /\ UNCHANGED <<task, workspace>>
    BY <1>7 DEF CrashExecution
  <2>2. task[p].record \in ExecutionRecord /\ NewExecution \in ExecutionRecord
    BY FreshTask DEF Knowing, Tasked, NewExecution, ExecutionRecord
  <2>3. exec' \in {exec, Corrupt, NewExecution, task[p].record}
    BY <1>7 DEF CrashExecution
  <2>4. FilesTyped'
    BY <2>1, <2>2, <2>3, HarnessFiles DEF FilesTyped
  <2>. QED BY <1>3, <1>7, <2>1, <2>4, HarnessKnowing, HarnessCopies, HarnessSummed,
              HarnessSettling
<1>. QED BY <1>2, <1>4, <1>5, <1>6, <1>7, Actors

\* The invariant holds at first.
LEMMA ComposedStarts ==
    ASSUME ExecutionInit
    PROVE  ComposedInv
<1>. USE DEF ExecutionInit
<1>1. \A p \in Proc : Knowing(p)
  BY FreshTask, FreshCall DEF Knowing, Steps, Thens
<1>2. Summaries
  BY FreshRecord DEF Summaries
<1>3. FilesTyped
  <2>1. StartedRun.history \in Seq(Lifecycle!State)
    <3>1. StartedRun.history = <<"created", "admitted", "running">>
      BY DEF StartedRun, NewRun
    <3>2. /\ "created" \in Lifecycle!State /\ "admitted" \in Lifecycle!State
          /\ "running" \in Lifecycle!State
      BY DEF Lifecycle!State
    <3>. QED BY <3>1, <3>2
  <2>2. events \in Seq(RunEvent \cup ExecutionEvent)
    BY <2>1, EventsType
  <2>3. exec \in ExecutionRecord \cup {Absent, Corrupt} /\ workspace \in Workspace
    BY DEF NewExecution, ExecutionRecord, Workspace
  <2>. QED BY <2>2, <2>3 DEF FilesTyped
<1>4. Settling
  BY DEF Settling, LockInv, Lock!TypeOK, Locked, At
<1>. QED BY <1>1, <1>2, <1>3, <1>4, AdapterInvStarts DEF ComposedInv

\* A step and a stutter keep the invariant.
LEMMA ComposedStays ==
    ASSUME ComposedInv, [ExecutionNext]_adapterVars
    PROVE  ComposedInv'
<1>1. CASE ExecutionNext
  BY <1>1, ComposedStep
<1>2. CASE UNCHANGED adapterVars
  <2>. USE <1>2 DEF adapterVars, harnessVars, execVars, lockVars, files, locals, counters
  <2>1. AdapterInv'
    BY AdapterInvStays DEF ComposedInv
  <2>2. (\A q \in Proc : Knowing(q)') /\ Summaries' /\ FilesTyped'
    BY DEF ComposedInv, Knowing, Summaries, FilesTyped, Unreadable
  <2>3. Settling'
    BY DEF ComposedInv, Settling, LockInv, Lock!TypeOK, At
  <2>. QED BY <2>1, <2>2, <2>3 DEF ComposedInv
<1>. QED BY <1>1, <1>2

\* Of every behaviour of the adapter.
LEMMA Composition == ExecutionSpec => []ComposedInv
  BY ComposedStarts, ComposedStays, PTL DEF ExecutionSpec

\* The adapter's files, records and locals keep the types the code gives them.
THEOREM AdapterTypeCorrect == ExecutionSpec => []ExecutionTypeOK
<1>1. ASSUME ComposedInv
      PROVE  ExecutionTypeOK
  <2>. USE <1>1 DEF ComposedInv, AdapterInv
  <2>1. copy \in [Proc -> RunRecord] /\ pc \in [Proc -> Steps \cup ExecSteps]
    BY RecordType DEF Tables, Histories, Summaries, Knowing
  <2>2. run \in RunRecord \cup {Absent, Corrupt}
    BY RecordType DEF Histories, Summaries, Unreadable
  <2>. QED BY <2>1, <2>2 DEF ExecutionTypeOK, FilesTyped, Settling
<1>. QED BY <1>1, Composition, PTL

\* An attempt settles once although the adapter and the checkpoints write the run's
\* record beside the lock that recordAttempt holds (recordAttempt).
THEOREM SettledOnceBesideTheLock == ExecutionSpec => AttemptSettlesOnce
<1>1. ComposedInv /\ [ExecutionNext]_adapterVars =>
        [\A id \in Attempt :
            attempts[id] \in FinalAttemptStates => attempts'[id] = attempts[id]]_harnessVars
  BY ComposedStep DEF Settles, adapterVars
<1>. QED BY <1>1, Composition, PTL DEF ExecutionSpec, AttemptSettlesOnce

=============================================================================
