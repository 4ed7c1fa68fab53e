--------------------------- MODULE ExecutionCancel ---------------------------
(***************************************************************************)
(* The live command of one run and its cancellation.  A process is a place *)
(* for calls: one that crashes loses its locals and may call again.        *)
(*                                                                         *)
(* A runner (core/execution-domain-adapter.js) spawns a child, persists a  *)
(* handle that names it (core/execution-handles.js), waits, removes the    *)
(* handle and puts the attempt's terminal event on the trail.  A canceller *)
(* (harness/execution-cancel.js) spends a Decision by an event, signals    *)
(* the child its handle names, writes one record of what it observed and   *)
(* settles by a second event that cites the record.  A canceller that dies *)
(* in between is resumed by a call with the same Decision.                 *)
(*                                                                         *)
(* The trail's append, with its guard under the ledger's lock, is the one  *)
(* RegistryLedger models: it happens at once or is refused.                *)
(***************************************************************************)
EXTENDS Naturals

CONSTANTS
    Runner,         \* processes that run the run's command
    Canceller,      \* processes that cancel it
    Decision,       \* human Decisions
    MaxCommands,    \* bound: commands of one runner
    MaxCalls,       \* bound: cancel calls of one canceller
    MaxCrashes,     \* bound: crashes
    MaxRefused,     \* bound: appends and fences refused by a lock or the disk
    None,           \* no file, no request
    Torn            \* a handle file that does not parse

ASSUME BoundsAssumption ==
    /\ MaxCommands \in Nat
    /\ MaxCalls \in Nat
    /\ MaxCrashes \in Nat
    /\ MaxRefused \in Nat

ASSUME RolesAssumption == Runner \cap Canceller = {}

VARIABLES
    handle,     \* executions/<run>.handle.json: the child it names
    record,     \* executions/cancellations/<run>.json
    trail,      \* the run's events in the ledger; their order is not asked for
    live,       \* the children that run
    signals,    \* the signals cancellers have delivered
    pc,         \* the step a process is at; "idle" outside a call
    child,      \* child[r]: the child r has spawned last
    call,       \* call[c]: the locals of c's cancelExecution
    calls, crashes, refused     \* counters for the bounds

files == <<handle, record, trail>>
world == <<live, signals>>
counters == <<calls, crashes, refused>>
cancelVars == <<files, world, pc, child, call, counters>>

Process == Runner \cup Canceller

---------------------------------------------------------------------------
(* Values.                                                                 *)

\* The pid a handle names; pids and lease ids are not reused.
Child == [by : Runner, n : Nat]

\* A missing handle and one that does not parse name no child.
ASSUME ValuesAssumption == None \notin Child /\ Torn \notin Child

\* classifyOutcome and the outcomes around it.
Outcome == {"terminated", "already-exited", "unknown"}

Record == [decision : Decision, handle : Child, outcome : Outcome]

Request == [kind : {"requested"}, decision : Decision, handle : Child]
Settlement == [kind : {"cancelled"}, record : Record, by : Canceller]
Terminal == [kind : {"completed", "failed"}, child : Child, cancelled : BOOLEAN]

Requests == {e \in trail : e.kind = "requested"}
Settlements == {e \in trail : e.kind = "cancelled"}
Terminals == trail \ (Requests \cup Settlements)

\* readCancellationState: the run's request, or None.
RequestNow == IF Requests = {} THEN None ELSE CHOOSE e \in Requests : TRUE

\* decisionSpentIn: both events carry the Decision's pointer.
SpentDecisions == {e.decision : e \in Requests} \cup {e.record.decision : e \in Settlements}

\* cancellationRecordProblem: the record is bound to the request and the Decision.
Verified(r, request, d) ==
    /\ request # None
    /\ r.handle = request.handle
    /\ r.decision = d

NoCall == [decision |-> None, request |-> None, handle |-> None,
           signalled |-> FALSE, draft |-> None]

---------------------------------------------------------------------------

At(p, step) == pc[p] = step
Goto(p, step) == pc' = [pc EXCEPT ![p] = step]

Emit(event) == trail' = trail \cup {event}

\* A lock that is taken, a full disk.
Refuse == refused < MaxRefused /\ refused' = refused + 1

\* readExecutionHandle asks existsSync first; a file may be there before it is written.
HandleExists(p) ==
    IF handle = None /\ \E q \in Runner \ {p} : At(q, "persist") THEN BOOLEAN ELSE {handle # None}

\* Then it reads: a file that is half written, or has been removed since, throws.
HandleRead == IF handle = None THEN Torn ELSE handle

---------------------------------------------------------------------------
(* executeInPreparedWorkspace.                                             *)

Run(r) ==
    /\ At(r, "idle")
    /\ calls[r] < MaxCommands
    /\ calls' = [calls EXCEPT ![r] = @ + 1]
    /\ Goto(r, "check")
    /\ UNCHANGED <<files, world, child, call, crashes, refused>>

FindHandle(r) ==
    /\ At(r, "check")
    /\ \E there \in HandleExists(r) : Goto(r, IF there THEN "checkRead" ELSE "spawn")
    /\ UNCHANGED <<files, world, child, call, counters>>

\* A live handle refuses, an unreadable one throws, a stale one is reconciled.
CheckHandle(r) ==
    /\ At(r, "checkRead")
    /\ Goto(r, IF HandleRead = Torn \/ HandleRead \in live THEN "idle" ELSE "clearStale")
    /\ UNCHANGED <<files, world, child, call, counters>>

\* clearExecutionHandle removes the path, whatever is there now.
ClearStale(r) ==
    /\ At(r, "clearStale")
    /\ handle' = None
    /\ Goto(r, "spawn")
    /\ UNCHANGED <<record, trail, world, child, call, counters>>

Spawn(r) ==
    /\ At(r, "spawn")
    /\ child' = [child EXCEPT ![r].n = @ + 1]
    /\ live' = live \cup {child'[r]}
    /\ Goto(r, "persist")
    /\ UNCHANGED <<files, signals, call, counters>>

\* persistExecutionHandle: the exclusive create.
Persist(r) ==
    /\ At(r, "persist")
    /\ IF handle = None
       THEN handle' = child[r] /\ Goto(r, "wait")
       ELSE UNCHANGED handle /\ Goto(r, "kill")
    /\ UNCHANGED <<record, trail, world, child, call, counters>>

\* nextFence finds its lock taken, or the write fails and leaves part of a file.
PersistFails(r) ==
    /\ At(r, "persist")
    /\ Refuse
    /\ handle' \in IF handle = None THEN {None, Torn} ELSE {handle}
    /\ Goto(r, "kill")
    /\ UNCHANGED <<record, trail, world, child, call, calls, crashes>>

\* The child that got no handle is terminated; it may trap the signal.
Kill(r) ==
    /\ At(r, "kill")
    /\ live' \in {live, live \ {child[r]}}
    /\ Goto(r, "fail")
    /\ UNCHANGED <<files, signals, child, call, counters>>

\* collectSpawn resolves some time after the child has ended; then the finally block.
Clear(r) ==
    /\ At(r, "wait")
    /\ child[r] \notin live
    /\ handle' = None
    /\ Goto(r, "settle")
    /\ UNCHANGED <<record, trail, world, child, call, counters>>

\* A mutant: attribution waits for the settlement.
Bug_AttributionFromSettlement == Settlements # {}

\* cancellationAttribution: what the run's trail says of a cancellation.
Attribution == Requests # {}

\* runPreparedExecution: how a child exited is its own affair, a command that got no
\* handle has failed; a failure is attributed by what the trail says now.
Attribute(r) ==
    /\ pc[r] \in {"settle", "fail"}
    /\ \E end \in IF pc[r] = "fail" THEN {"failed"} ELSE {"completed", "failed"} :
        Goto(r, IF end = "failed" /\ Attribution THEN "cancelled" ELSE end)
    /\ UNCHANGED <<files, world, child, call, counters>>

\* The attempt's terminal event; a refused append is not looked at.
SettleAttempt(r) ==
    /\ pc[r] \in {"completed", "failed", "cancelled"}
    /\ \/ /\ Emit([kind |-> IF pc[r] = "completed" THEN "completed" ELSE "failed",
                  child |-> child[r], cancelled |-> pc[r] = "cancelled"])
          /\ UNCHANGED refused
       \/ Refuse /\ UNCHANGED trail
    /\ Goto(r, "idle")
    /\ UNCHANGED <<handle, record, world, child, call, calls, crashes>>

---------------------------------------------------------------------------
(* cancelExecution.                                                        *)

\* The call throws or returns.
Return(c) ==
    /\ call' = [call EXCEPT ![c] = NoCall]
    /\ Goto(c, "idle")

Learn(c, field, value, step) ==
    /\ call' = [call EXCEPT ![c][field] = value]
    /\ Goto(c, step)

\* The record cancellationRecordFor builds.
Draft(c, h, outcome) == [decision |-> call[c].decision, handle |-> h, outcome |-> outcome]

Quiet == UNCHANGED <<files, world, child, counters>>

Cancel(c) ==
    /\ At(c, "idle")
    /\ calls[c] < MaxCalls
    /\ calls' = [calls EXCEPT ![c] = @ + 1]
    /\ \E d \in Decision : call' = [call EXCEPT ![c] = [NoCall EXCEPT !.decision = d]]
    /\ Goto(c, "state")
    /\ UNCHANGED <<files, world, child, crashes, refused>>

\* Step 1: what the run already carries.
ReadState(c) ==
    /\ At(c, "state")
    /\ IF Settlements # {} THEN Return(c)
       ELSE IF Requests = {} THEN Learn(c, "request", None, "handle")
       ELSE IF RequestNow.decision # call[c].decision THEN Return(c)
       ELSE Learn(c, "request", RequestNow, "record")
    /\ Quiet

\* Step 3, resumed: the record that survived.
ReadRecord(c) ==
    /\ At(c, "record")
    /\ IF record = None THEN Learn(c, "draft", None, "resumeHandle")
       ELSE IF Verified(record, call[c].request, call[c].decision)
            THEN Learn(c, "draft", record, "verify")
       ELSE Return(c)
    /\ Quiet

\* A mutant: a settlement is finished only while the handle is there.
Bug_ResumeNeedsHandle(c) ==
    /\ At(c, "resumeHandle")
    /\ \E there \in HandleExists(c) :
        IF there THEN Learn(c, "draft", None, "resumeRead") ELSE Return(c)
    /\ Quiet

\* Else the handle that survived, or nothing observable.
ResumeHandle(c) ==
    /\ At(c, "resumeHandle")
    /\ \E there \in HandleExists(c) :
        IF there THEN Learn(c, "draft", None, "resumeRead")
        ELSE Learn(c, "draft", Draft(c, call[c].request.handle, "unknown"), "verify")
    /\ Quiet

ResumeRead(c) ==
    /\ At(c, "resumeRead")
    /\ IF HandleRead = Torn THEN Return(c) ELSE Learn(c, "handle", HandleRead, "resumeObserve")
    /\ Quiet

\* observeHandle(handle, { signal: false }).
ResumeObserve(c) ==
    /\ At(c, "resumeObserve")
    /\ LET h == call[c].handle IN
        Learn(c, "draft", Draft(c, h, IF h \in live THEN "unknown" ELSE "already-exited"), "verify")
    /\ Quiet

\* Step 3, first attempt: only an owned handle is addressed.
SeekHandle(c) ==
    /\ At(c, "handle")
    /\ \E there \in HandleExists(c) :
        IF there THEN Learn(c, "request", None, "handleRead") ELSE Return(c)
    /\ Quiet

ReadHandle(c) ==
    /\ At(c, "handleRead")
    /\ IF HandleRead = Torn THEN Return(c) ELSE Learn(c, "handle", HandleRead, "spend")
    /\ Quiet

\* A mutant: the guard asks about the Decision only.
Bug_GuardDecisionOnly(d) == d \in SpentDecisions

\* cancellationSpendGuard, evaluated under the ledger's lock.
SpendRefused(d) == d \in SpentDecisions \/ Requests \cup Settlements # {}

\* The execution.cancel.requested append spends the Decision.
Spend(c) ==
    /\ At(c, "spend")
    /\ \/ /\ SpendRefused(call[c].decision)
          /\ Return(c)
          /\ UNCHANGED <<trail, refused>>
       \/ /\ Refuse
          /\ Return(c)
          /\ UNCHANGED trail
       \/ /\ ~SpendRefused(call[c].decision)
          /\ Emit([kind |-> "requested", decision |-> call[c].decision, handle |-> call[c].handle])
          /\ Learn(c, "signalled", FALSE, "observe")
          /\ UNCHANGED refused
    /\ UNCHANGED <<handle, record, world, child, calls, crashes>>

\* Step 4: isProcessAlive and pidStillOwned before the signal.
Observe(c) ==
    /\ At(c, "observe")
    /\ LET h == call[c].handle IN
        IF h \in live THEN Learn(c, "signalled", FALSE, "signal")
        ELSE Learn(c, "draft", Draft(c, h, "already-exited"), "verify")
    /\ Quiet

\* signalPidTree: it is delivered to a child that still runs.
Signal(c) ==
    /\ At(c, "signal")
    /\ LET h == call[c].handle IN
        /\ signals' = IF h \notin live THEN signals ELSE
                signals \cup {[decision |-> call[c].decision, to |-> h, by |-> <<c, calls[c]>>]}
        /\ Learn(c, "signalled", h \in live, "await")
    /\ UNCHANGED <<files, live, child, counters>>

\* A mutant: a child that is gone was terminated.
Bug_GoneIsTerminated(exited, signalled) == IF exited THEN "terminated" ELSE "unknown"

classifyOutcome(exited, signalled) ==
    IF ~exited THEN "unknown" ELSE IF signalled THEN "terminated" ELSE "already-exited"

\* waitFor: the child has exited, or the bound elapses.
Await(c) ==
    /\ At(c, "await")
    /\ LET h == call[c].handle IN
        Learn(c, "draft", Draft(c, h, classifyOutcome(h \notin live, call[c].signalled)), "verify")
    /\ Quiet

\* Step 5: the record is verified before it is written.
Verify(c) ==
    /\ At(c, "verify")
    /\ IF Verified(call[c].draft, RequestNow, call[c].decision)
       THEN Learn(c, "request", RequestNow, "link")
       ELSE Return(c)
    /\ Quiet

\* link(2) creates the record or finds the winner's.
Link(c) ==
    /\ At(c, "link")
    /\ record' = IF record = None THEN call[c].draft ELSE record
    /\ Goto(c, "reread")
    /\ UNCHANGED <<handle, trail, world, child, call, counters>>

\* A mutant: the call's own draft is cited.
Bug_CitesDraft(c) ==
    /\ At(c, "reread")
    /\ Goto(c, "settleCancel")
    /\ UNCHANGED <<files, world, child, call, counters>>

\* Step 6: the record as it stands on disk.
Reread(c) ==
    /\ At(c, "reread")
    /\ IF record # None /\ Verified(record, call[c].request, call[c].decision)
       THEN Learn(c, "draft", record, "settleCancel")
       ELSE Return(c)
    /\ Quiet

\* cancellationSettlementGuard, evaluated under the ledger's lock.
SettlementRefused == Requests = {} \/ Settlements # {}

\* The execution.cancelled append cites the record.
SettleCancel(c) ==
    /\ At(c, "settleCancel")
    /\ \/ /\ SettlementRefused
          /\ Return(c)
          /\ UNCHANGED <<trail, refused>>
       \/ /\ Refuse
          /\ Return(c)
          /\ UNCHANGED trail
       \/ /\ ~SettlementRefused
          /\ Emit([kind |-> "cancelled", record |-> call[c].draft, by |-> c])
          /\ Return(c)
          /\ UNCHANGED refused
    /\ UNCHANGED <<handle, record, world, child, calls, crashes>>

---------------------------------------------------------------------------
(* The environment.                                                        *)

\* A child ends by itself, by its budget's timer or by a signal it was sent.
ChildEnds ==
    \E c \in live :
        /\ live' = live \ {c}
        /\ UNCHANGED <<files, signals, pc, child, call, counters>>

\* A runner's child is in a process group of its own and outlives it.
Crash(p) ==
    /\ pc[p] # "idle"
    /\ crashes < MaxCrashes
    /\ crashes' = crashes + 1
    /\ \/ UNCHANGED handle
       \/ /\ p \in Runner /\ pc[p] = "persist" /\ handle = None
          /\ handle' \in {Torn, child[p]}
    /\ Goto(p, "idle")
    /\ call' = [c \in Canceller |-> IF c = p THEN NoCall ELSE call[c]]
    /\ UNCHANGED <<record, trail, world, child, calls, refused>>

---------------------------------------------------------------------------

Init ==
    /\ handle = None /\ record = None /\ trail = {}
    /\ live = {} /\ signals = {}
    /\ pc = [p \in Process |-> "idle"]
    /\ child = [r \in Runner |-> [by |-> r, n |-> 0]]
    /\ call = [c \in Canceller |-> NoCall]
    /\ calls = [p \in Process |-> 0]
    /\ crashes = 0 /\ refused = 0

RunnerStep(r) ==
    \/ FindHandle(r) \/ CheckHandle(r) \/ ClearStale(r) \/ Spawn(r) \/ Persist(r) \/ PersistFails(r)
    \/ Kill(r) \/ Clear(r) \/ Attribute(r)
    \/ SettleAttempt(r)

CancellerStep(c) ==
    \/ ReadState(c) \/ ReadRecord(c) \/ ResumeHandle(c) \/ ResumeRead(c) \/ ResumeObserve(c)
    \/ SeekHandle(c) \/ ReadHandle(c) \/ Spend(c) \/ Observe(c) \/ Signal(c) \/ Await(c)
    \/ Verify(c) \/ Link(c) \/ Reread(c) \/ SettleCancel(c)

Next ==
    \/ \E r \in Runner : Run(r) \/ RunnerStep(r)
    \/ \E c \in Canceller : Cancel(c) \/ CancellerStep(c)
    \/ \E p \in Process : Crash(p)
    \/ ChildEnds

Spec == Init /\ [][Next]_cancelVars

\* A process that is inside a call keeps executing it: the waits are bounded.
\* Children need not end.
FairSpec == Spec /\ \A c \in Canceller : WF_cancelVars(CancellerStep(c))

---------------------------------------------------------------------------
(* Properties.                                                             *)

TypeOK ==
    /\ handle \in Child \cup {None, Torn}
    /\ record \in Record \cup {None}
    /\ trail \subseteq Request \cup Settlement \cup Terminal
    /\ live \subseteq Child
    /\ signals \subseteq [decision : Decision, to : Child, by : Canceller \X Nat]
    /\ pc = [p \in Process |-> pc[p]]
    /\ \A r \in Runner : pc[r] \in {"idle", "check", "checkRead", "clearStale", "spawn", "persist",
                                    "wait", "kill", "settle", "fail",
                                    "completed", "failed", "cancelled"}
    /\ \A c \in Canceller : pc[c] \in {"idle", "state", "record", "resumeHandle",
            "resumeRead", "resumeObserve", "handle", "handleRead", "spend", "observe", "signal", "await", "verify",
            "link", "reread", "settleCancel"}
    /\ child \in [Runner -> Child]
    /\ call \in [Canceller -> [decision : Decision \cup {None},
                               request : Request \cup {None},
                               handle : Child \cup {None},
                               signalled : BOOLEAN,
                               draft : Record \cup {None}]]
    /\ calls \in [Process -> Nat]
    /\ crashes \in Nat /\ refused \in Nat

\* However many cancellations race, die and are resumed, and whichever Decisions
\* they hold, one signal at most is delivered for the run, and the request on the
\* trail carries its Decision and names the child that got it.
SignalledOnce ==
    /\ \A s, t \in signals : s = t
    /\ \A s \in signals : \E e \in Requests : e.decision = s.decision /\ e.handle = s.to

\* The settlement cites the record as it is on disk, a loser's draft never, and that
\* record is of the cancellation which the request on the trail authorized.
CitedIsOnDisk ==
    \A e \in Settlements :
        e.record = record /\ \E q \in Requests : Verified(e.record, q, q.decision)

\* A termination is claimed only of a child that was sent the signal and is gone.
TerminatedWasObserved ==
    record # None /\ record.outcome = "terminated" =>
        /\ record.handle \notin live
        /\ \E s \in signals : s.to = record.handle

\* A child that was sent the signal and failed is recorded as cancelled, however
\* the runner's terminal event and the canceller's settlement are ordered.
KilledIsAttributed ==
    \A e \in Terminals : e.kind = "failed" /\ (\E s \in signals : s.to = e.child) => e.cancelled

\* A retry that holds the Decision of a request without a settlement.
Retrying(c) ==
    /\ At(c, "state")
    /\ Settlements = {}
    /\ \E e \in Requests : e.decision = call[c].decision

\* Nothing crashes or is refused any more.
Calm == crashes = MaxCrashes /\ refused = MaxRefused

\* The handle that c has found, and is about to read, is gone by now, is half written,
\* or is another attempt's.
Misled(c) == At(c, "resumeRead") /\ \A e \in Requests : handle # e.handle

\* An authorization that was spent and not settled can be settled: a retry with its
\* Decision does so once faults have stopped, whoever else runs or cancels and whether
\* or not a handle has survived, unless the handle file it has found is removed before
\* it reads it, or does not hold the handle of the request (readExecutionHandle).
RetrySettles ==
    \A c \in Canceller : (Retrying(c) /\ Calm) ~> (Settlements # {} \/ Misled(c))

=============================================================================
