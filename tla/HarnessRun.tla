----------------------------- MODULE HarnessRun -----------------------------
(***************************************************************************)
(* One Harness Run: createRun and transitionRun (harness/run-core.js) and  *)
(* recordAttempt (harness/attempt-core.js), called by several processes.   *)
(* Each takes the run's lock, reads, writes its record, and the first two  *)
(* then append to the event ledger.  The lock is the abstract PathLock     *)
(* that SessionLock implements; the ledger append, which RegistryLedger    *)
(* models, adds the event or answers {ok: false}.                          *)
(***************************************************************************)
EXTENDS Naturals, Sequences, FiniteSets

CONSTANTS
    Proc,           \* processes
    Attempt,        \* attempt ids
    Operation,      \* the operations the processes call
    MaxCalls,       \* bound: calls of one process
    MaxHistory,     \* bound: length of a run's history
    MaxCrashes,     \* bound: crashes
    MaxRefused,     \* bound: event appends that are refused
    Absent,         \* no file
    Corrupt         \* a file that does not parse

ASSUME BoundsAssumption ==
    /\ MaxCalls \in Nat
    /\ MaxHistory \in Nat
    /\ MaxCrashes \in Nat
    /\ MaxRefused \in Nat

ASSUME AttemptAssumption == IsFiniteSet(Attempt)

VARIABLES
    holder, orphan,     \* the run's lock
    run,        \* runs/<id>.json
    attempts,   \* attempts/<id>/: the state in each attempt record
    events,     \* the kinds of the run's events in the ledger
    alive, pc,
    op,         \* op[p]: the call it executes
    copy,       \* copy[p]: the run record it built
    result,     \* result[p]: what its last call returned
    calls, crashes, refused     \* counters for the bounds

lockVars == <<holder, orphan>>
files == <<run, attempts, events>>
locals == <<op, copy, result>>
counters == <<calls, crashes, refused>>
harnessVars == <<lockVars, files, alive, pc, locals, counters>>

Lock == INSTANCE PathLock

Unreadable == run \in {Absent, Corrupt}
History == IF Unreadable THEN << >> ELSE run.history

Lifecycle == INSTANCE RunLifecycle WITH history <- History, lost <- (run = Corrupt)

---------------------------------------------------------------------------
(* Values.                                                                 *)

AttemptState == {"running", "completed", "failed", "refused"}
FinalAttemptStates == AttemptState \ {"running"}

Verdict == {"ok", "violation", "unevaluated"}

\* The run's additive execution section; NoView before the first evaluation.
NoView == [verdict |-> "none", released |-> FALSE]
View == [verdict : Verdict, released : BOOLEAN] \cup {NoView}

RunRecord == [history : Seq(Lifecycle!State), attempts : Nat, execution : View]

NewRun == [history |-> <<"created">>, attempts |-> 0, execution |-> NoView]

\* A file that is missing or does not parse is no record.
ASSUME FileAssumption ==
    /\ Absent # Corrupt
    /\ {Absent, Corrupt} \cap RunRecord = {}
    /\ {Absent, Corrupt} \cap AttemptState = {}

StateOf(record) == Lifecycle!LastOf(record.history)

Created == [name |-> "create"]
Transition(to, checks) == [name |-> "transition", to |-> to, checks |-> checks]
Record(id, state) == [name |-> "attempt", id |-> id, state |-> state]

\* The closed event enum, the run.* kinds of it (and execution.*, which carry
\* the run's boundary verdicts and attempts).
RunEvent == (Lifecycle!State \ {"running"}) \cup {"started", "resumed"}
ExecutionEvent == {"execution.started", "execution.completed", "execution.failed"}

\* A mutant: the state's name serves as the event's.
Bug_KindIsState(from, to) == to

eventKindForTransition(from, to) ==
    IF to # "running" THEN to ELSE IF from = "paused" THEN "resumed" ELSE "started"

\* The event of each entry of a history.
EventsOf(h) ==
    [i \in 1..Len(h) |-> IF i = 1 THEN "created" ELSE eventKindForTransition(h[i - 1], h[i])]

Recorded == {id \in Attempt : attempts[id] # Absent}

---------------------------------------------------------------------------
(* A call: lock, read, write, emit, unlock.                                *)

At(p, step) == alive[p] /\ pc[p] = step
Goto(p, step) == pc' = [pc EXCEPT ![p] = step]

\* Steps of a process that holds the run's lock.
Locked == {"read", "write", "attemptWrite", "summary", "emit", "unlock"}

Return(p, outcome, step) ==
    /\ result' = [result EXCEPT ![p] = outcome]
    /\ Goto(p, step)

\* The call's locals go out of scope.
NoCall == [call |-> Created, then |-> "idle"]
Forget(p) ==
    /\ op' = [op EXCEPT ![p] = NoCall]
    /\ copy' = [copy EXCEPT ![p] = NewRun]

\* The step a call made inside a larger operation returns to is its caller's.
Start(p, call, then) ==
    /\ op' = [op EXCEPT ![p] = [call |-> call, then |-> then]]
    /\ Goto(p, "lock")

\* recordAttempt's caller has read the run and draws a fresh attempt id.
Calls ==
    [create |-> {Created},
     transition |-> {Transition(to, TRUE) : to \in Lifecycle!State}
                        \cup {Transition("admitted", FALSE)},
     attempt |-> IF Unreadable THEN {} ELSE
        {Record(id, "running") : id \in Attempt \ Recorded}
            \cup {Record(id, s) : id \in Recorded, s \in FinalAttemptStates}]

Begin(p) ==
    /\ At(p, "idle")
    /\ calls[p] < MaxCalls
    /\ calls' = [calls EXCEPT ![p] = @ + 1]
    /\ result' = [result EXCEPT ![p] = "none"]
    /\ \E name \in Operation \cap DOMAIN Calls : \E call \in Calls[name] : Start(p, call, "idle")
    /\ UNCHANGED <<lockVars, files, alive, copy, crashes, refused>>

Acquire(p) ==
    /\ At(p, "lock")
    /\ Lock!Acquire(p)
    /\ Goto(p, "read")
    /\ UNCHANGED <<files, alive, locals, counters>>

\* A mutant: lock.success is not looked at.
Bug_RefusalIgnored(p) ==
    /\ At(p, "lock")
    /\ holder # {} \/ orphan
    /\ Goto(p, "read")
    /\ UNCHANGED <<lockVars, files, alive, locals, counters>>

\* acquirePathLock answers success: false and the call throws.
LockRefused(p) ==
    /\ At(p, "lock")
    /\ holder # {} \/ orphan
    /\ Return(p, "locked", op[p].then)
    /\ Forget(p)
    /\ UNCHANGED <<lockVars, files, alive, counters>>

\* A writer that truncated the file and has not filled it yet.
Writing(q) ==
    alive[q] /\ pc[q] \in {"write", "putEvaluation", "putRelease", "putCheckpoint"}

\* What readFileSync of the run's file may return to p.
Reads(p) == {run} \cup {Corrupt : q \in {w \in Proc \ {p} : Writing(w)}}

Unchanged(p) == UNCHANGED <<lockVars, files, alive, op, calls, crashes, refused>>

ReadForCreate(p) ==
    /\ At(p, "read") /\ op[p].call.name = "create"
    /\ IF run = Absent
       THEN /\ copy' = [copy EXCEPT ![p] = NewRun]
            /\ Goto(p, "write")
            /\ UNCHANGED result
       ELSE Return(p, "exists", "unlock") /\ UNCHANGED copy
    /\ Unchanged(p)

\* A mutant: only a final state refuses.
Bug_OnlyFinalRefuses(record, call) ==
    IF record = Absent THEN "notFound"
    ELSE IF record = Corrupt THEN "corrupt"
    ELSE IF Lifecycle!isFinal(StateOf(record)) THEN "final"
    ELSE "none"

\* Why transitionRun refuses to leave the record, or "none".
Refusal(record, call) ==
    IF record = Absent THEN "notFound"
    ELSE IF record = Corrupt THEN "corrupt"
    ELSE IF Lifecycle!isFinal(StateOf(record)) THEN "final"
    ELSE IF ~Lifecycle!isLegalTransition(StateOf(record), call.to) THEN "illegal"
    ELSE IF call.to = "admitted" /\ ~call.checks THEN "incomplete"
    ELSE "none"

ReadForTransition(p) ==
    /\ At(p, "read") /\ op[p].call.name = "transition"
    /\ \E record \in Reads(p) :
        LET why == Refusal(record, op[p].call) IN
        IF why = "none"
        THEN /\ Len(record.history) < MaxHistory
             /\ copy' = [copy EXCEPT ![p] =
                    [record EXCEPT !.history = Append(record.history, op[p].call.to)]]
             /\ Goto(p, "write")
             /\ UNCHANGED result
        ELSE Return(p, why, "unlock") /\ UNCHANGED copy
    /\ Unchanged(p)

\* A mutant: a settled attempt is settled again.
Bug_AttemptReopened(p) ==
    /\ At(p, "read") /\ op[p].call.name = "attempt"
    /\ IF attempts[op[p].call.id] = Corrupt THEN Return(p, "corrupt", "unlock")
       ELSE Goto(p, "attemptWrite") /\ UNCHANGED result
    /\ UNCHANGED copy
    /\ Unchanged(p)

ReadAttempt(p) ==
    /\ At(p, "read") /\ op[p].call.name = "attempt"
    /\ LET stored == attempts[op[p].call.id] IN
        IF stored = Corrupt THEN Return(p, "corrupt", "unlock")
        ELSE IF stored \in FinalAttemptStates THEN Return(p, "attemptFinal", "unlock")
        ELSE Goto(p, "attemptWrite") /\ UNCHANGED result
    /\ UNCHANGED copy
    /\ Unchanged(p)

\* A mutant: the run's summary is not refreshed.
Bug_NoSummary(p) ==
    /\ At(p, "attemptWrite")
    /\ attempts' = [attempts EXCEPT ![op[p].call.id] = op[p].call.state]
    /\ Return(p, "ok", "unlock")
    /\ UNCHANGED <<lockVars, run, events, alive, op, copy, counters>>

WriteAttempt(p) ==
    /\ At(p, "attemptWrite")
    /\ attempts' = [attempts EXCEPT ![op[p].call.id] = op[p].call.state]
    /\ Goto(p, "summary")
    /\ UNCHANGED <<lockVars, run, events, alive, locals, counters>>

\* refreshAttemptSummary: listAttempts, then getRun; either may throw.
RefreshSummary(p) ==
    /\ At(p, "summary")
    /\ \E record \in Reads(p) :
        IF Corrupt \in {attempts[id] : id \in Attempt} \/ record \in {Absent, Corrupt}
        THEN Return(p, "corrupt", "unlock") /\ UNCHANGED copy
        ELSE /\ copy' = [copy EXCEPT ![p] =
                    [record EXCEPT !.attempts = Cardinality(Recorded)]]
             /\ Goto(p, "write")
             /\ UNCHANGED result
    /\ Unchanged(p)

Write(p) ==
    /\ At(p, "write")
    /\ run' = copy[p]
    /\ IF op[p].call.name = "attempt" THEN Return(p, "ok", "unlock")
       ELSE Goto(p, "emit") /\ UNCHANGED result
    /\ UNCHANGED <<lockVars, attempts, events, alive, op, copy, counters>>

\* emitHarnessEvent: the ledger takes the event, or refuses it and nobody looks
\* at the answer.
AppendEvent(kind) ==
    \/ events' = Append(events, kind) /\ UNCHANGED refused
    \/ /\ refused < MaxRefused
       /\ refused' = refused + 1
       /\ UNCHANGED events

Emit(p) ==
    /\ At(p, "emit")
    /\ LET trail == EventsOf(copy[p].history) IN AppendEvent(trail[Len(trail)])
    /\ Return(p, "ok", "unlock")
    /\ UNCHANGED <<lockVars, run, attempts, alive, op, copy, calls, crashes>>

Unlock(p) ==
    /\ At(p, "unlock")
    /\ Lock!Release(p)
    /\ Goto(p, op[p].then)
    /\ Forget(p)
    /\ UNCHANGED <<files, alive, result, counters>>

---------------------------------------------------------------------------
(* The environment.                                                        *)

\* A crash in a write may leave the old file, the new one, or part of it.
Crash(p) ==
    /\ alive[p] /\ pc[p] # "idle"
    /\ crashes < MaxCrashes
    /\ crashes' = crashes + 1
    /\ alive' = [alive EXCEPT ![p] = FALSE]
    /\ IF pc[p] \in Locked THEN Lock!Crash(p) ELSE UNCHANGED lockVars
    /\ run' \in IF Writing(p) THEN {run, copy[p], Corrupt} ELSE {run}
    /\ attempts' \in
        IF pc[p] # "attemptWrite" THEN {attempts}
        ELSE {attempts} \cup {[attempts EXCEPT ![op[p].call.id] = a] :
                                a \in {op[p].call.state, Corrupt}}
    /\ UNCHANGED <<events, pc, locals, calls, refused>>

\* A later caller takes the crashed holder's lock over.
Reclaim == Lock!Reclaim /\ UNCHANGED <<files, alive, pc, locals, counters>>

---------------------------------------------------------------------------

Init ==
    /\ holder = {} /\ orphan = FALSE
    /\ run = Absent
    /\ attempts = [id \in Attempt |-> Absent]
    /\ events = << >>
    /\ alive = [p \in Proc |-> TRUE]
    /\ pc = [p \in Proc |-> "idle"]
    /\ op = [p \in Proc |-> NoCall]
    /\ copy = [p \in Proc |-> NewRun]
    /\ result = [p \in Proc |-> "none"]
    /\ calls = [p \in Proc |-> 0]
    /\ crashes = 0 /\ refused = 0

Step(p) ==
    \/ Acquire(p) \/ LockRefused(p)
    \/ ReadForCreate(p) \/ ReadForTransition(p) \/ ReadAttempt(p)
    \/ WriteAttempt(p) \/ RefreshSummary(p) \/ Write(p) \/ Emit(p) \/ Unlock(p)

Next == (\E p \in Proc : Begin(p) \/ Step(p) \/ Crash(p)) \/ Reclaim

Spec == Init /\ [][Next]_harnessVars

---------------------------------------------------------------------------
(* Properties.                                                             *)

Steps == {"idle", "lock"} \cup Locked

TypeOK ==
    /\ Lock!TypeOK
    /\ run \in RunRecord \cup {Absent, Corrupt}
    /\ attempts \in [Attempt -> AttemptState \cup {Absent, Corrupt}]
    /\ events \in Seq(RunEvent \cup ExecutionEvent)
    /\ alive \in [Proc -> BOOLEAN]
    /\ pc \in [Proc -> Steps]
    /\ copy \in [Proc -> RunRecord]
    /\ calls \in [Proc -> Nat] /\ crashes \in Nat /\ refused \in Nat

\* Whatever interleaves and crashes, a readable record's history is a path of the
\* state machine.
HistoryIsLegal ==
    ~Unreadable => run.history # << >> /\ Lifecycle!Legal(run.history)

\* No transition is lost, undone or repeated: the record is the abstract
\* lifecycle's, one legal edge at a time, until a crash cuts a write short.
ImplementsRunLifecycle == Lifecycle!LifecycleSpec

\* The events trail are those of the first n entries of the history h, in their
\* order, with gaps.
Follows(trail, h, n) ==
    \E f \in [1..Len(trail) -> 1..n] :
        /\ \A i \in 1..Len(trail) : trail[i] = EventsOf(h)[f[i]]
        /\ \A i, j \in 1..Len(trail) : i < j => f[i] < f[j]

Emitting == \E p \in Proc : At(p, "emit")

\* The trail follows the record: the run's events are its transitions in their
\* order, and every one that is missing is a crash between the two writes or an
\* append the ledger refused.
TrailFollowsRecord ==
    ~Unreadable =>
        /\ Follows(events, run.history, Len(run.history))
        /\ Len(run.history) <=
                Len(events) + crashes + refused + (IF Emitting THEN 1 ELSE 0)

\* Between calls the run's attempts summary counts the attempt records.
SummaryIsCurrent ==
    (holder = {} /\ crashes = 0 /\ ~Unreadable) =>
        run.attempts = Cardinality(Recorded)

\* An attempt settles once, whichever of two racing outcomes comes first.
AttemptSettlesOnce ==
    [][\A id \in Attempt :
        attempts[id] \in FinalAttemptStates => attempts'[id] = attempts[id]]_harnessVars

\* "Emission is deliberately after the record write and its failure propagates:
\* a run whose trail is missing an event is visible on inspect ..., while a
\* silent gap would not be": a call that reports success has its event on the
\* trail.
AckedIsOnTrail ==
    \A p \in Proc :
        (At(p, "unlock") /\ result[p] = "ok" /\ op[p].call.name # "attempt") =>
            LET trail == EventsOf(copy[p].history)
            IN trail[Len(trail)] \in {events[i] : i \in 1..Len(events)}

---------------------------------------------------------------------------
(* The inductive invariant behind these properties.                        *)

Call ==
    [name : {"create"}]
        \cup [name : {"transition"}, to : Lifecycle!State, checks : BOOLEAN]
        \cup [name : {"attempt"}, id : Attempt, state : AttemptState]

OpOK == op \in [Proc -> [call : Call, then : {"idle"}]]

\* A call holds the lock from its first read to its last append.
LockInv ==
    /\ \A p \in Proc : p \in holder <=> (alive[p] /\ pc[p] \in Locked)
    /\ \A p, q \in holder : p = q

\* What a call built is still what the record it read should become.
WriteInv(p) ==
    LET call == op[p].call IN
    /\ call.name = "create" => run = Absent /\ copy[p] = NewRun
    /\ call.name = "transition" =>
            /\ ~Unreadable
            /\ Lifecycle!isLegalTransition(StateOf(run), call.to)
            /\ copy[p].history = Append(run.history, call.to)
    /\ call.name = "attempt" => ~Unreadable /\ copy[p].history = run.history

CallInv(p) ==
    /\ op[p].call.name = "attempt" => run # Absent
    /\ At(p, "write") => WriteInv(p)
    /\ At(p, "emit") => ~Unreadable /\ run = copy[p]
    /\ (alive[p] /\ pc[p] \in {"attemptWrite", "summary"}) => op[p].call.name = "attempt"
    /\ At(p, "attemptWrite") => attempts[op[p].call.id] \notin FinalAttemptStates

\* A call is between its attempt's record and the run's summary.
Counting ==
    \E p \in Proc : At(p, "summary") \/ (At(p, "write") /\ op[p].call.name = "attempt")

SummaryInv ==
    /\ run = Absent => Recorded = {}
    /\ crashes = 0 =>
        /\ \A id \in Attempt : attempts[id] # Corrupt
        /\ (~Unreadable /\ ~Counting) => run.attempts = Cardinality(Recorded)
        /\ \A p \in Proc : At(p, "write") => copy[p].attempts = Cardinality(Recorded)

Pending == IF Emitting THEN 1 ELSE 0

\* An event still to be emitted is the last one of the history.
TrailInv ==
    /\ run = Absent => events = << >>
    /\ ~Unreadable =>
        /\ Follows(events, run.history, Len(run.history) - Pending)
        /\ Len(run.history) <= Len(events) + crashes + refused + Pending

IInv ==
    /\ TypeOK /\ OpOK /\ LockInv /\ HistoryIsLegal /\ SummaryInv /\ TrailInv
    /\ \A p \in Proc : CallInv(p)

=============================================================================
