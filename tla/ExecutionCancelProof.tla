------------------------ MODULE ExecutionCancelProof ------------------------
(***************************************************************************)
(* Proofs about ExecutionCancel, for any runners, cancellers, Decisions    *)
(* and bounds.                                                             *)
(***************************************************************************)
EXTENDS ExecutionCancel, TLAPS

---------------------------------------------------------------------------
(* The inductive invariant.                                                *)

\* x has been spawned; something names x; x has been sent the signal.
Spawned(x) == x.n <= child[x.by].n
Named(x) == handle = x \/ \E c \in Canceller : call[c].handle = x
Signalled(x) == \E s \in signals : s.to = x

\* Where a draft or the record claims a termination, it was signalled and is over.
Observed(r) == r # None /\ r.outcome = "terminated" => Signalled(r.handle) /\ r.handle \notin live

Signalling(c) == pc[c] \in {"observe", "signal"}

\* The steps of a call that acts on a request.
Acting == {"record", "resumeHandle", "resumeRead", "resumeObserve", "observe", "signal", "await",
           "verify", "link"}

\* What a call knows by the step it has reached: it acts on the request its Decision
\* made, it signals what that request names, it drafts what it saw, and it cites the
\* record as it is on disk.
Knows(c) ==
    /\ pc[c] # "idle" => call[c].decision \in Decision
    /\ pc[c] \in {"spend", "observe", "signal", "await", "resumeObserve"} =>
         call[c].handle \in Child
    /\ call[c].handle \in Child => Spawned(call[c].handle)
    /\ pc[c] \in {"record", "resumeHandle"} => call[c].request \in Requests
    /\ pc[c] \in Acting => \E q \in Requests : q.decision = call[c].decision
    /\ Signalling(c) =>
         [kind |-> "requested", decision |-> call[c].decision, handle |-> call[c].handle]
           \in trail
    /\ pc[c] = "await" /\ call[c].signalled => Signalled(call[c].handle)
    /\ pc[c] \in {"verify", "link"} => call[c].draft \in Record
    /\ pc[c] = "link" => \E q \in Requests : Verified(call[c].draft, q, q.decision)
    /\ Observed(call[c].draft)
    /\ pc[c] = "settleCancel" => record # None /\ call[c].draft = record

\* One request is ever made, and one call that made it has yet to signal.
OneSignaller ==
    /\ \A q, r \in Requests : q = r
    /\ \A c, d \in Canceller : Signalling(c) /\ Signalling(d) => c = d
    /\ \A c \in Canceller : Signalling(c) => signals = {}
    /\ Requests = {} => signals = {}

\* The record is the request's, it claims what was observed, and it precedes the
\* settlement.
Recorded ==
    /\ Settlements # {} => record # None
    /\ record # None => \E q \in Requests : Verified(record, q, q.decision)
    /\ Observed(record)

\* No child is named or signalled before it is there.
NamesAreSpawned ==
    /\ \A r \in Runner : child[r].by = r
    /\ handle \in Child => Spawned(handle)
    /\ \A s \in signals : Spawned(s.to)

\* No signal has reached x, and none will.
BeyondSignals(x) == ~Signalled(x) /\ (x \notin live \/ ~Named(x))

\* x's command is over: its runner goes on to a later child or to none.
Past(x) == Spawned(x) /\ (pc[x.by] = "persist" => x.n < child[x.by].n)

\* A child that got no handle is unknown to every canceller, one whose command has
\* been cleared is gone; where a command has failed without the attribution, no signal
\* has reached its child and none will.
Commands(r) ==
    /\ pc[r] \in {"persist", "kill", "fail"} => ~Named(child[r]) /\ ~Signalled(child[r])
    /\ pc[r] = "settle" => child[r] \notin live
    /\ pc[r] = "failed" => BeyondSignals(child[r])

FailedUnsignalled ==
    \A e \in Terminals : e.kind = "failed" /\ ~e.cancelled =>
        Past(e.child) /\ BeyondSignals(e.child)

IInv ==
    /\ TypeOK
    /\ \A c \in Canceller : Knows(c)
    /\ OneSignaller /\ SignalledOnce
    /\ Recorded /\ CitedIsOnDisk
    /\ NamesAreSpawned
    /\ \A r \in Runner : Commands(r)
    /\ FailedUnsignalled

---------------------------------------------------------------------------
(* Lemmas about the trail.                                                 *)

\* The request read from a trail that has one is one of its requests.
LEMMA RequestNowIsRequest ==
    ASSUME Requests # {} PROVE RequestNow \in Requests
BY DEF RequestNow

\* Every event of the trail is of its kind's type.
LEMMA EventTypes ==
    ASSUME TypeOK
    PROVE  /\ Requests \subseteq Request
           /\ Settlements \subseteq Settlement
           /\ Terminals \subseteq Terminal
BY DEF TypeOK, Requests, Settlements, Terminals, Request, Settlement, Terminal

Locals == [decision : Decision \cup {None},
           request : Request \cup {None},
           handle : Child \cup {None},
           signalled : BOOLEAN,
           draft : Record \cup {None}]

\* The locals of a process outside a call.
LEMMA NoCallKnowsNothing ==
    /\ NoCall \in Locals
    /\ NoCall.decision = None /\ NoCall.handle = None /\ NoCall.draft = None
    /\ NoCall.signalled = FALSE
BY DEF NoCall, Locals

---------------------------------------------------------------------------
(* The initial states.                                                     *)

LEMMA InitIInv == Init => IInv
<1> SUFFICES ASSUME Init PROVE IInv
  OBVIOUS
<1> USE RolesAssumption DEF Init
<1>1. TypeOK
  BY DEF TypeOK, NoCall, Child, Process
<1>2. ASSUME NEW c \in Canceller PROVE Knows(c)
  BY ValuesAssumption DEF Knows, NoCall, Signalling, Observed, Acting, Process
<1>3. Requests = {} /\ Settlements = {} /\ Terminals = {}
  BY DEF Requests, Settlements, Terminals
<1>4. OneSignaller /\ SignalledOnce
  BY <1>3 DEF OneSignaller, SignalledOnce, Signalling, Process
<1>5. Recorded /\ CitedIsOnDisk
  BY <1>3 DEF Recorded, CitedIsOnDisk, Observed
<1>6. NamesAreSpawned
  BY ValuesAssumption DEF NamesAreSpawned
<1>7. ASSUME NEW r \in Runner PROVE Commands(r)
  BY DEF Commands, Process
<1>8. FailedUnsignalled
  BY <1>3 DEF FailedUnsignalled
<1> QED
  BY <1>1, <1>2, <1>4, <1>5, <1>6, <1>7, <1>8 DEF IInv

---------------------------------------------------------------------------
(* How the locals of a call change.                                        *)

CallSteps == {"idle", "state", "handle", "handleRead", "spend", "reread", "settleCancel"} \cup Acting

\* No process moves but c, which goes to one of its steps with locals of their types.
Moves(c) ==
    /\ \A d \in Canceller \ {c} : call'[d] = call[d] /\ pc'[d] = pc[d]
    /\ \A r \in Runner : pc'[r] = pc[r]
    /\ pc' = [p \in Process |-> pc'[p]] /\ pc'[c] \in CallSteps
    /\ call' \in [Canceller -> Locals]

\* Going to a step moves no other process.
LEMMA GotoMoves ==
    ASSUME TypeOK, NEW c \in Canceller, NEW step \in CallSteps, NEW locals \in Locals,
           Goto(c, step), call' = [call EXCEPT ![c] = locals]
    PROVE  Moves(c) /\ pc'[c] = step /\ call'[c] = locals
<1>1. call \in [Canceller -> Locals]
  BY DEF TypeOK, Locals
<1>2. call' \in [Canceller -> Locals] /\ call'[c] = locals
      /\ \A d \in Canceller \ {c} : call'[d] = call[d]
  BY <1>1
<1>3. pc = [p \in Process |-> pc[p]] /\ c \in Process
  BY DEF TypeOK, Process
<1>4. pc' = [p \in Process |-> pc'[p]] /\ pc'[c] = step
  BY <1>3 DEF Goto
<1>5. /\ \A d \in Canceller \ {c} : pc'[d] = pc[d]
      /\ \A r \in Runner : pc'[r] = pc[r]
  BY <1>3, RolesAssumption DEF Goto, Process
<1> QED
  BY <1>2, <1>4, <1>5 DEF Moves

\* Returning forgets the locals.
LEMMA ReturnMoves ==
    ASSUME TypeOK, NEW c \in Canceller, Return(c)
    PROVE  Moves(c) /\ pc'[c] = "idle" /\ call'[c] = NoCall
<1>1. "idle" \in CallSteps
  BY DEF CallSteps
<1> QED
  BY <1>1, NoCallKnowsNothing, GotoMoves DEF Return

\* Learning a field keeps the others.
LEMMA LearnDraft ==
    ASSUME TypeOK, NEW c \in Canceller, NEW step \in CallSteps,
           NEW value \in Record \cup {None}, Learn(c, "draft", value, step)
    PROVE  Moves(c) /\ pc'[c] = step /\ call'[c] = [call[c] EXCEPT !.draft = value]
<1>1. call \in [Canceller -> Locals] /\ call[c] \in Locals
  BY DEF TypeOK, Locals
<1>2. [call[c] EXCEPT !.draft = value] \in Locals
  BY <1>1 DEF Locals
<1>3. call' = [call EXCEPT ![c] = [call[c] EXCEPT !.draft = value]]
  BY <1>1 DEF Learn, Locals
<1> QED
  BY <1>2, <1>3, GotoMoves DEF Learn

LEMMA LearnHandle ==
    ASSUME TypeOK, NEW c \in Canceller, NEW step \in CallSteps,
           NEW value \in Child \cup {None}, Learn(c, "handle", value, step)
    PROVE  Moves(c) /\ pc'[c] = step /\ call'[c] = [call[c] EXCEPT !.handle = value]
<1>1. call \in [Canceller -> Locals] /\ call[c] \in Locals
  BY DEF TypeOK, Locals
<1>2. [call[c] EXCEPT !.handle = value] \in Locals
  BY <1>1 DEF Locals
<1>3. call' = [call EXCEPT ![c] = [call[c] EXCEPT !.handle = value]]
  BY <1>1 DEF Learn, Locals
<1> QED
  BY <1>2, <1>3, GotoMoves DEF Learn

LEMMA LearnRequest ==
    ASSUME TypeOK, NEW c \in Canceller, NEW step \in CallSteps,
           NEW value \in Request \cup {None}, Learn(c, "request", value, step)
    PROVE  Moves(c) /\ pc'[c] = step /\ call'[c] = [call[c] EXCEPT !.request = value]
<1>1. call \in [Canceller -> Locals] /\ call[c] \in Locals
  BY DEF TypeOK, Locals
<1>2. [call[c] EXCEPT !.request = value] \in Locals
  BY <1>1 DEF Locals
<1>3. call' = [call EXCEPT ![c] = [call[c] EXCEPT !.request = value]]
  BY <1>1 DEF Learn, Locals
<1> QED
  BY <1>2, <1>3, GotoMoves DEF Learn

LEMMA LearnSignalled ==
    ASSUME TypeOK, NEW c \in Canceller, NEW step \in CallSteps,
           NEW value \in BOOLEAN, Learn(c, "signalled", value, step)
    PROVE  Moves(c) /\ pc'[c] = step /\ call'[c] = [call[c] EXCEPT !.signalled = value]
<1>1. call \in [Canceller -> Locals] /\ call[c] \in Locals
  BY DEF TypeOK, Locals
<1>2. [call[c] EXCEPT !.signalled = value] \in Locals
  BY <1>1 DEF Locals
<1>3. call' = [call EXCEPT ![c] = [call[c] EXCEPT !.signalled = value]]
  BY <1>1 DEF Learn, Locals
<1> QED
  BY <1>2, <1>3, GotoMoves DEF Learn

---------------------------------------------------------------------------
(* Steps of a call that touch nothing but its locals.                      *)

\* The counters stay counters.
Counted == calls' \in [Process -> Nat] /\ crashes' \in Nat /\ refused' \in Nat

\* A step that changes c's locals only, learns no handle but the one on disk, and does
\* not start to signal, preserves the invariant if c knows what it should at its next step.
LEMMA LocalStep ==
    ASSUME IInv, NEW c \in Canceller, Moves(c), Knows(c)',
           UNCHANGED <<files, world, child>>, Counted,
           call'[c].handle \in {None, handle, call[c].handle},
           Signalling(c)' => Signalling(c)
    PROVE  IInv'
<1>0. UNCHANGED <<handle, record, trail, live, signals, child>>
  BY DEF files, world
<1>1. UNCHANGED <<Requests, Settlements, Terminals>>
  BY <1>0 DEF Requests, Settlements, Terminals
<1>2. ASSUME NEW d \in Canceller PROVE Knows(d)'
  <2>1. CASE d = c
    BY <2>1
  <2>2. CASE d # c
    BY <2>2, <1>0, <1>1 DEF IInv, Moves, Knows, Spawned, Signalling, Signalled, Observed
  <2> QED
    BY <2>1, <2>2
<1>3. OneSignaller' /\ SignalledOnce'
  BY <1>0, <1>1 DEF IInv, OneSignaller, SignalledOnce, Moves, Signalling
<1>4. Recorded' /\ CitedIsOnDisk'
  BY <1>0, <1>1 DEF IInv, Recorded, CitedIsOnDisk, Observed, Signalled
<1>5. NamesAreSpawned'
  BY <1>0 DEF IInv, NamesAreSpawned, Spawned
<1>6. ASSUME NEW x \in Child, Named(x)' PROVE Named(x)
  BY <1>6, <1>0, ValuesAssumption DEF Named, Moves
<1>7. ASSUME NEW x \in Child, BeyondSignals(x) PROVE BeyondSignals(x)'
  BY <1>6, <1>7, <1>0 DEF BeyondSignals, Signalled
<1>8. ASSUME NEW r \in Runner PROVE Commands(r)'
  <2>1. child[r] \in Child /\ pc'[r] = pc[r] /\ Commands(r)
    BY DEF IInv, TypeOK, Moves
  <2> QED
    BY <2>1, <1>0, <1>6, <1>7 DEF Commands, Signalled
<1>9. FailedUnsignalled'
  <2> SUFFICES ASSUME NEW e \in Terminals, e.kind = "failed", ~e.cancelled
               PROVE  Past(e.child)' /\ BeyondSignals(e.child)'
    BY <1>1 DEF FailedUnsignalled
  <2>1. Past(e.child) /\ BeyondSignals(e.child)
    BY DEF IInv, FailedUnsignalled
  <2>2. e.child \in Child
    BY EventTypes DEF IInv, Terminal
  <2> QED
    BY <2>1, <2>2, <1>0, <1>7 DEF Past, Spawned, Moves, Child
<1>10. TypeOK'
  BY <1>0 DEF IInv, TypeOK, Moves, Locals, Counted, CallSteps, Acting
<1> QED
  BY <1>2, <1>3, <1>4, <1>5, <1>8, <1>9, <1>10 DEF IInv

LEMMA CountersCount == ASSUME TypeOK, UNCHANGED counters PROVE Counted
BY DEF TypeOK, Counted, counters

\* A call that returns knows nothing and need know nothing.
LEMMA ReturnStep ==
    ASSUME IInv, NEW c \in Canceller, Return(c), UNCHANGED <<files, world, child>>, Counted
    PROVE  IInv'
<1>1. Moves(c) /\ pc'[c] = "idle" /\ call'[c] = NoCall
  BY ReturnMoves DEF IInv
<1>2. Knows(c)' /\ ~Signalling(c)'
  BY <1>1, NoCallKnowsNothing, ValuesAssumption DEF Knows, Signalling, Acting, Observed
<1> QED
  BY <1>1, <1>2, NoCallKnowsNothing, LocalStep

\* A draft is learnt by a call that verifies, cites, or goes on without one.
LEMMA DraftStep ==
    ASSUME IInv, NEW c \in Canceller, Quiet, NEW value \in Record \cup {None}, Observed(value),
           NEW step, Learn(c, "draft", value, step), pc[c] # "idle",
           \/ step = "verify" /\ value \in Record /\ pc[c] \in Acting
           \/ step = "settleCancel" /\ record # None /\ value = record
           \/ step = "resumeHandle" /\ pc[c] = "record"
           \/ step = "resumeRead" /\ pc[c] = "resumeHandle"
    PROVE  IInv'
<1>1. step \in CallSteps
  BY DEF CallSteps, Acting
<1>2. Moves(c) /\ pc'[c] = step /\ call'[c] = [call[c] EXCEPT !.draft = value]
  BY <1>1, LearnDraft DEF IInv
<1>3. call[c] \in Locals /\ Knows(c)
  BY DEF IInv, TypeOK, Locals
<1>4. /\ call'[c].decision = call[c].decision /\ call'[c].request = call[c].request
      /\ call'[c].handle = call[c].handle /\ call'[c].signalled = call[c].signalled
      /\ call'[c].draft = value
  BY <1>2, <1>3 DEF Locals
<1>5. UNCHANGED <<handle, record, trail, live, signals, child, Requests>>
  BY DEF Quiet, files, world, Requests
<1>6. pc[c] \in Acting \/ step = "settleCancel"
  BY DEF Acting
<1>7. Knows(c)' /\ ~Signalling(c)'
  BY <1>2, <1>3, <1>4, <1>5, <1>6
  DEF Knows, Signalling, Observed, Signalled, Spawned, Acting
<1> QED
  BY <1>2, <1>4, <1>5, <1>7, LocalStep, CountersCount DEF Quiet, IInv

\* A handle is learnt from disk, to be observed by a resumption or to be spent on.
LEMMA HandleStep ==
    ASSUME IInv, NEW c \in Canceller, Quiet, handle \in Child, NEW step,
           Learn(c, "handle", handle, step),
           \/ step = "resumeObserve" /\ pc[c] \in Acting
           \/ step = "spend" /\ pc[c] = "handleRead"
    PROVE  IInv'
<1>1. step \in CallSteps
  BY DEF CallSteps, Acting
<1>2. Moves(c) /\ pc'[c] = step /\ call'[c] = [call[c] EXCEPT !.handle = handle]
  BY <1>1, LearnHandle DEF IInv
<1>3. call[c] \in Locals /\ Knows(c) /\ NamesAreSpawned
  BY DEF IInv, TypeOK, Locals
<1>4. /\ call'[c].decision = call[c].decision /\ call'[c].request = call[c].request
      /\ call'[c].handle = handle /\ call'[c].signalled = call[c].signalled
      /\ call'[c].draft = call[c].draft
  BY <1>2, <1>3 DEF Locals
<1>5. UNCHANGED <<handle, record, trail, live, signals, child, Requests>>
  BY DEF Quiet, files, world, Requests
<1>6. pc[c] # "idle" /\ (pc[c] \in Acting \/ step = "spend")
  BY DEF Acting
<1>7. Knows(c)' /\ ~Signalling(c)'
  BY <1>2, <1>3, <1>4, <1>5, <1>6
  DEF Knows, Signalling, Observed, Signalled, Spawned, Acting, NamesAreSpawned
<1> QED
  BY <1>2, <1>4, <1>5, <1>7, LocalStep, CountersCount DEF Quiet, IInv

\* A request is learnt: none, or the one on the trail, which made the call's Decision.
LEMMA RequestStep ==
    ASSUME IInv, NEW c \in Canceller, Quiet, pc[c] # "idle",
           NEW value \in Requests \cup {None}, NEW step, Learn(c, "request", value, step),
           \/ step \in {"handle", "handleRead"} /\ value = None
           \/ step = "record" /\ value \in Requests /\ value.decision = call[c].decision
           \/ step = "link" /\ pc[c] = "verify" /\ value \in Requests
                /\ Verified(call[c].draft, value, call[c].decision)
    PROVE  IInv'
<1>1. step \in CallSteps /\ value \in Request \cup {None}
  BY EventTypes DEF CallSteps, Acting, IInv
<1>2. Moves(c) /\ pc'[c] = step /\ call'[c] = [call[c] EXCEPT !.request = value]
  BY <1>1, LearnRequest DEF IInv
<1>3. call[c] \in Locals /\ Knows(c) /\ OneSignaller
  BY DEF IInv, TypeOK, Locals
<1>4. /\ call'[c].decision = call[c].decision /\ call'[c].request = value
      /\ call'[c].handle = call[c].handle /\ call'[c].signalled = call[c].signalled
      /\ call'[c].draft = call[c].draft
  BY <1>2, <1>3 DEF Locals
<1>5. UNCHANGED <<handle, record, trail, live, signals, child, Requests>>
  BY DEF Quiet, files, world, Requests
<1>6. step = "link" =>
        \E q \in Requests : q.decision = call[c].decision /\ Verified(call[c].draft, q, q.decision)
  BY <1>3 DEF Knows, Acting, OneSignaller
<1>7. Knows(c)' /\ ~Signalling(c)'
  BY <1>2, <1>3, <1>4, <1>5, <1>6
  DEF Knows, Signalling, Observed, Signalled, Spawned, Acting, Verified
<1> QED
  BY <1>2, <1>4, <1>5, <1>7, LocalStep, CountersCount DEF Quiet, IInv

---------------------------------------------------------------------------
(* The steps of a call, but for those that spend, signal, record and settle. *)

\* What every such step rests on.
LEMMA CallIsTyped ==
    ASSUME IInv, NEW c \in Canceller
    PROVE  /\ TypeOK /\ Knows(c) /\ call[c] \in Locals
           /\ pc[c] # "idle" => call[c].decision \in Decision
           /\ Quiet => Counted /\ UNCHANGED <<files, world, child>>
BY CountersCount DEF IInv, TypeOK, Locals, Knows, Quiet

LEMMA ReturnsQuietly == ASSUME IInv, NEW c \in Canceller, Return(c), Quiet PROVE IInv'
BY CallIsTyped, ReturnStep

LEMMA CancelStep == ASSUME IInv, NEW c \in Canceller, Cancel(c) PROVE IInv'
<1>1. PICK d \in Decision : call' = [call EXCEPT ![c] = [NoCall EXCEPT !.decision = d]]
  BY DEF Cancel
<1>2. [NoCall EXCEPT !.decision = d] \in Locals /\ "state" \in CallSteps
  BY NoCallKnowsNothing DEF Locals, CallSteps
<1>3. Moves(c) /\ pc'[c] = "state" /\ call'[c] = [NoCall EXCEPT !.decision = d]
  BY <1>1, <1>2, GotoMoves DEF Cancel, IInv
<1>4. /\ call'[c].decision = d /\ call'[c].handle = None
      /\ call'[c].draft = None /\ call'[c].signalled = FALSE
  BY <1>3, NoCallKnowsNothing DEF Locals
<1>5. Knows(c)' /\ ~Signalling(c)'
  BY <1>3, <1>4, ValuesAssumption DEF Knows, Signalling, Observed, Acting
<1>6. Counted /\ UNCHANGED <<files, world, child>>
  BY DEF Cancel, IInv, TypeOK, Counted, Process
<1> QED
  BY <1>3, <1>4, <1>5, <1>6, LocalStep

LEMMA ReadStateStep == ASSUME IInv, NEW c \in Canceller, ReadState(c) PROVE IInv'
<1>1. pc[c] # "idle" /\ Quiet
  BY DEF ReadState, At
<1>2. CASE Return(c)
  BY <1>1, <1>2, ReturnsQuietly
<1>3. CASE Learn(c, "request", None, "handle")
  BY <1>1, <1>3, RequestStep
<1>4. CASE /\ Requests # {} /\ RequestNow.decision = call[c].decision
           /\ Learn(c, "request", RequestNow, "record")
  BY <1>1, <1>4, RequestNowIsRequest, RequestStep
<1> QED
  BY <1>2, <1>3, <1>4 DEF ReadState

LEMMA ReadRecordStep == ASSUME IInv, NEW c \in Canceller, ReadRecord(c) PROVE IInv'
<1>1. pc[c] = "record" /\ Quiet
  BY DEF ReadRecord, At
<1>2. CASE Return(c)
  BY <1>1, <1>2, ReturnsQuietly
<1>3. CASE Learn(c, "draft", None, "resumeHandle")
  BY <1>1, <1>3, DraftStep DEF Observed
<1>4. CASE record # None /\ Learn(c, "draft", record, "verify")
  <2>1. record \in Record /\ Observed(record)
    BY <1>4 DEF IInv, TypeOK, Recorded
  <2> QED
    BY <1>1, <1>4, <2>1, DraftStep DEF Acting
<1> QED
  BY <1>2, <1>3, <1>4 DEF ReadRecord

LEMMA ResumeHandleStep == ASSUME IInv, NEW c \in Canceller, ResumeHandle(c) PROVE IInv'
<1>1. pc[c] = "resumeHandle" /\ Quiet
  BY DEF ResumeHandle, At
<1>2. CASE Learn(c, "draft", None, "resumeRead")
  BY <1>1, <1>2, DraftStep DEF Observed
<1>3. CASE Learn(c, "draft", Draft(c, call[c].request.handle, "unknown"), "verify")
  <2>1. call[c].request \in Request /\ call[c].decision \in Decision
    BY <1>1, CallIsTyped, EventTypes DEF Knows
  <2>2. Draft(c, call[c].request.handle, "unknown") \in Record
    BY <2>1 DEF Draft, Record, Outcome, Request
  <2>3. Observed(Draft(c, call[c].request.handle, "unknown"))
    BY DEF Observed, Draft
  <2> QED
    BY <1>1, <1>3, <2>2, <2>3, DraftStep DEF Acting
<1> QED
  BY <1>2, <1>3 DEF ResumeHandle

\* What a reading that does not throw returns is on disk.
LEMMA HandleReadIs ==
    ASSUME TypeOK, HandleRead # Torn PROVE HandleRead = handle /\ handle \in Child
BY DEF TypeOK, HandleRead

LEMMA ResumeReadStep == ASSUME IInv, NEW c \in Canceller, ResumeRead(c) PROVE IInv'
<1>1. pc[c] = "resumeRead" /\ Quiet
  BY DEF ResumeRead, At
<1>2. CASE Return(c)
  BY <1>1, <1>2, ReturnsQuietly
<1>3. CASE HandleRead # Torn /\ Learn(c, "handle", HandleRead, "resumeObserve")
  BY <1>1, <1>3, CallIsTyped, HandleReadIs, HandleStep DEF Acting
<1> QED
  BY <1>2, <1>3 DEF ResumeRead

LEMMA ResumeObserveStep == ASSUME IInv, NEW c \in Canceller, ResumeObserve(c) PROVE IInv'
<1> DEFINE draft == Draft(c, call[c].handle,
                          IF call[c].handle \in live THEN "unknown" ELSE "already-exited")
<1>1. pc[c] = "resumeObserve" /\ Quiet /\ Learn(c, "draft", draft, "verify")
  BY DEF ResumeObserve, At
<1>2. call[c].handle \in Child /\ call[c].decision \in Decision
  BY <1>1, CallIsTyped DEF Knows
<1>3. draft \in Record /\ Observed(draft)
  BY <1>2 DEF Draft, Record, Outcome, Observed
<1> QED
  BY <1>1, <1>3, DraftStep DEF Acting

LEMMA SeekHandleStep == ASSUME IInv, NEW c \in Canceller, SeekHandle(c) PROVE IInv'
<1>1. pc[c] = "handle" /\ Quiet
  BY DEF SeekHandle, At
<1>2. CASE Return(c)
  BY <1>1, <1>2, ReturnsQuietly
<1>3. CASE Learn(c, "request", None, "handleRead")
  BY <1>1, <1>3, RequestStep
<1> QED
  BY <1>2, <1>3 DEF SeekHandle

LEMMA ReadHandleStep == ASSUME IInv, NEW c \in Canceller, ReadHandle(c) PROVE IInv'
<1>1. pc[c] = "handleRead" /\ Quiet
  BY DEF ReadHandle, At
<1>2. CASE Return(c)
  BY <1>1, <1>2, ReturnsQuietly
<1>3. CASE HandleRead # Torn /\ Learn(c, "handle", HandleRead, "spend")
  BY <1>1, <1>3, CallIsTyped, HandleReadIs, HandleStep
<1> QED
  BY <1>2, <1>3 DEF ReadHandle

LEMMA ObserveStep == ASSUME IInv, NEW c \in Canceller, Observe(c) PROVE IInv'
<1>1. pc[c] = "observe" /\ Quiet
  BY DEF Observe, At
<1>2. call[c].handle \in Child /\ call[c].decision \in Decision
  BY <1>1, CallIsTyped DEF Knows
<1>3. CASE Learn(c, "signalled", FALSE, "signal")
  <2>1. "signal" \in CallSteps
    BY DEF CallSteps, Acting
  <2>2. Moves(c) /\ pc'[c] = "signal" /\ call'[c] = [call[c] EXCEPT !.signalled = FALSE]
    BY <1>3, <2>1, LearnSignalled DEF IInv
  <2>3. /\ call'[c].decision = call[c].decision /\ call'[c].request = call[c].request
        /\ call'[c].handle = call[c].handle /\ call'[c].draft = call[c].draft
    BY <2>2, CallIsTyped DEF Locals
  <2>4. UNCHANGED <<handle, record, trail, live, signals, child, Requests>>
    BY <1>1 DEF Quiet, files, world, Requests
  <2>5. Knows(c)'
    BY <1>1, <2>2, <2>3, <2>4, CallIsTyped
    DEF Knows, Signalling, Observed, Signalled, Spawned, Acting
  <2> QED
    BY <1>1, <2>2, <2>3, <2>5, LocalStep, CallIsTyped DEF Signalling
<1>4. CASE Learn(c, "draft", Draft(c, call[c].handle, "already-exited"), "verify")
  <2>1. /\ Draft(c, call[c].handle, "already-exited") \in Record
        /\ Observed(Draft(c, call[c].handle, "already-exited"))
    BY <1>2 DEF Draft, Record, Outcome, Observed
  <2> QED
    BY <1>1, <1>4, <2>1, DraftStep DEF Acting
<1> QED
  BY <1>3, <1>4 DEF Observe

\* "terminated" is drafted of a child that was signalled and is gone.
LEMMA AwaitStep == ASSUME IInv, NEW c \in Canceller, Await(c) PROVE IInv'
<1> DEFINE outcome == classifyOutcome(call[c].handle \notin live, call[c].signalled)
           draft == Draft(c, call[c].handle, outcome)
<1>1. pc[c] = "await" /\ Quiet /\ Learn(c, "draft", draft, "verify")
  BY DEF Await, At
<1>2. call[c].handle \in Child /\ call[c].decision \in Decision
  BY <1>1, CallIsTyped DEF Knows
<1>3. draft \in Record
  BY <1>2 DEF Draft, Record, Outcome, classifyOutcome
<1>4. outcome = "terminated" => Signalled(call[c].handle) /\ call[c].handle \notin live
  BY <1>1, CallIsTyped DEF Knows, classifyOutcome
<1>5. Observed(draft)
  BY <1>4 DEF Draft, Observed
<1> QED
  BY <1>1, <1>3, <1>5, DraftStep DEF Acting

LEMMA VerifyStep == ASSUME IInv, NEW c \in Canceller, Verify(c) PROVE IInv'
<1>1. pc[c] = "verify" /\ Quiet
  BY DEF Verify, At
<1>2. CASE Return(c)
  BY <1>1, <1>2, ReturnsQuietly
<1>3. CASE /\ Verified(call[c].draft, RequestNow, call[c].decision)
           /\ Learn(c, "request", RequestNow, "link")
  <2>1. RequestNow \in Requests
    BY <1>3, RequestNowIsRequest DEF Verified, RequestNow
  <2> QED
    BY <1>1, <1>3, <2>1, RequestStep
<1> QED
  BY <1>2, <1>3 DEF Verify

LEMMA RereadStep == ASSUME IInv, NEW c \in Canceller, Reread(c) PROVE IInv'
<1>1. pc[c] = "reread" /\ Quiet
  BY DEF Reread, At
<1>2. CASE Return(c)
  BY <1>1, <1>2, ReturnsQuietly
<1>3. CASE record # None /\ Learn(c, "draft", record, "settleCancel")
  <2>1. record \in Record /\ Observed(record)
    BY <1>3 DEF IInv, TypeOK, Recorded
  <2> QED
    BY <1>1, <1>3, <2>1, DraftStep
<1> QED
  BY <1>2, <1>3 DEF Reread

---------------------------------------------------------------------------
(* The steps of a call that spend, signal, record and settle.              *)

\* The one request of the trail is put there while no call acts on a request.
LEMMA SpendStep == ASSUME IInv, NEW c \in Canceller, Spend(c) PROVE IInv'
<1>1. pc[c] = "spend" /\ UNCHANGED <<handle, record, world, child, calls, crashes>>
  BY DEF Spend, At
<1>2. CASE Return(c) /\ UNCHANGED trail /\ (UNCHANGED refused \/ Refuse)
  <2>1. Counted /\ UNCHANGED <<files, world, child>>
    BY <1>1, <1>2 DEF Refuse, IInv, TypeOK, Counted, files
  <2> QED
    BY <1>2, <2>1, ReturnStep
<1> DEFINE request == [kind |-> "requested", decision |-> call[c].decision,
                       handle |-> call[c].handle]
<1>3. CASE /\ ~SpendRefused(call[c].decision) /\ Emit(request)
           /\ Learn(c, "signalled", FALSE, "observe") /\ UNCHANGED refused
  <2>1. call[c].handle \in Child /\ call[c].decision \in Decision /\ call[c] \in Locals
    BY <1>1, CallIsTyped DEF Knows
  <2>2. request \in Request
    BY <2>1 DEF Request
  <2>3. Requests = {} /\ Settlements = {}
    BY <1>3 DEF SpendRefused
  <2>4. Requests' = {request} /\ Settlements' = {} /\ Terminals' = Terminals
    BY <1>3, <2>3 DEF Emit, Requests, Settlements, Terminals
  <2>5. UNCHANGED <<handle, record, live, signals, child, calls, crashes, refused>>
    BY <1>1, <1>3 DEF world
  <2>6. "observe" \in CallSteps
    BY DEF CallSteps, Acting
  <2>7. Moves(c) /\ pc'[c] = "observe" /\ call'[c] = [call[c] EXCEPT !.signalled = FALSE]
    BY <1>3, <2>6, LearnSignalled DEF IInv
  <2>8. /\ call'[c].decision = call[c].decision /\ call'[c].request = call[c].request
        /\ call'[c].handle = call[c].handle /\ call'[c].draft = call[c].draft
    BY <2>1, <2>7 DEF Locals
  <2>9. trail' = trail \cup {request} /\ signals = {}
    BY <1>3, <2>3 DEF Emit, IInv, OneSignaller
  <2>10. ASSUME NEW d \in Canceller, d # c
         PROVE  ~Signalling(d) /\ pc[d] \notin Acting
    BY <2>3 DEF IInv, Knows, Signalling, Acting
  <2>11. Knows(c)'
    BY <1>1, <2>4, <2>5, <2>7, <2>8, <2>9, CallIsTyped
    DEF Knows, Signalling, Observed, Signalled, Spawned, Acting
  <2>12. ASSUME NEW d \in Canceller PROVE Knows(d)'
    <3>1. CASE d = c
      BY <2>11, <3>1
    <3>2. CASE d # c
      BY <3>2, <2>5, <2>7, <2>10
      DEF IInv, Moves, Knows, Spawned, Signalling, Signalled, Observed, Acting
    <3> QED
      BY <3>1, <3>2
  <2>13. OneSignaller' /\ SignalledOnce'
    BY <2>4, <2>5, <2>7, <2>9, <2>10 DEF OneSignaller, SignalledOnce, Signalling, Moves
  <2>14. Recorded' /\ CitedIsOnDisk'
    BY <2>3, <2>4, <2>5 DEF IInv, Recorded, CitedIsOnDisk, Observed, Signalled
  <2>15. NamesAreSpawned'
    BY <2>5 DEF IInv, NamesAreSpawned, Spawned
  <2>16. \A x \in Child : Named(x)' => Named(x)
    BY <2>5, <2>7, <2>8 DEF Named, Moves
  <2>17. ASSUME NEW r \in Runner PROVE Commands(r)'
    <3>1. child[r] \in Child /\ pc'[r] = pc[r] /\ Commands(r)
      BY <2>7 DEF IInv, TypeOK, Moves
    <3> QED
      BY <3>1, <2>5, <2>16 DEF Commands, Signalled, BeyondSignals
  <2>18. FailedUnsignalled'
    <3> SUFFICES ASSUME NEW e \in Terminals, e.kind = "failed", ~e.cancelled
                 PROVE  Past(e.child)' /\ BeyondSignals(e.child)'
      BY <2>4 DEF FailedUnsignalled
    <3>1. Past(e.child) /\ BeyondSignals(e.child)
      BY DEF IInv, FailedUnsignalled
    <3>2. e.child \in Child
      BY EventTypes DEF IInv, Terminal
    <3> QED
      BY <3>1, <3>2, <2>5, <2>7, <2>16 DEF Past, BeyondSignals, Signalled, Spawned, Moves, Child
  <2>19. TypeOK'
    BY <2>2, <2>5, <2>7, <2>9 DEF IInv, TypeOK, Moves, Locals, CallSteps, Acting
  <2> QED
    BY <2>12, <2>13, <2>14, <2>15, <2>17, <2>18, <2>19 DEF IInv
<1> QED
  BY <1>2, <1>3 DEF Spend

\* The signal goes to the child that the request names, which is alive and is named: no
\* command that failed without the attribution is its own.
LEMMA SignalStep == ASSUME IInv, NEW c \in Canceller, Signal(c) PROVE IInv'
<1> DEFINE h == call[c].handle
           signal == [decision |-> call[c].decision, to |-> h, by |-> <<c, calls[c]>>]
<1>1. /\ pc[c] = "signal" /\ UNCHANGED <<files, live, child, counters>>
      /\ signals' = IF h \notin live THEN signals ELSE signals \cup {signal}
      /\ Learn(c, "signalled", h \in live, "await")
  BY DEF Signal, At
<1>2. /\ h \in Child /\ call[c].decision \in Decision /\ call[c] \in Locals
      /\ Spawned(h) /\ signals = {} /\ Named(h)
      /\ [kind |-> "requested", decision |-> call[c].decision, handle |-> h] \in Requests
  BY <1>1, CallIsTyped DEF IInv, Knows, OneSignaller, Signalling, Requests, Named
<1>3. UNCHANGED <<handle, record, trail, live, child, calls, crashes, refused>>
  BY <1>1 DEF files, counters
<1>4. UNCHANGED <<Requests, Settlements, Terminals>>
  BY <1>3 DEF Requests, Settlements, Terminals
<1>. PICK delivered \in BOOLEAN : delivered <=> h \in live
  OBVIOUS
<1>5. Moves(c) /\ pc'[c] = "await" /\ call'[c] = [call[c] EXCEPT !.signalled = delivered]
  <2>1. "await" \in CallSteps
    BY DEF CallSteps, Acting
  <2>2. Learn(c, "signalled", delivered, "await")
    BY <1>1 DEF Learn
  <2> QED
    BY <2>1, <2>2, LearnSignalled DEF IInv
<1>6. /\ call'[c].decision = call[c].decision /\ call'[c].request = call[c].request
      /\ call'[c].handle = h /\ call'[c].draft = call[c].draft
      /\ call'[c].signalled = delivered
  BY <1>2, <1>5 DEF Locals
<1>7. signal \in [decision : Decision, to : Child, by : Canceller \X Nat]
  BY <1>2 DEF IInv, TypeOK, Process
<1>8. /\ signals' = IF h \in live THEN {signal} ELSE {}
      /\ \A x : Signalled(x)' <=> h \in live /\ x = h
      /\ \A x : ~Signalled(x)
  <2>1. signals' = IF h \in live THEN {signal} ELSE {}
    BY <1>1, <1>2
  <2>2. signal.to = h
    OBVIOUS
  <2> HIDE DEF signal, h
  <2> QED
    BY <1>2, <2>1, <2>2 DEF Signalled
<1>9. ASSUME NEW d \in Canceller PROVE Knows(d)'
  <2>1. CASE d = c
    <3>1. Knows(c) /\ pc'[c] = "await" /\ pc[c] = "signal"
      BY <1>1, <1>5, CallIsTyped
    <3>2. (call[c].signalled => Signalled(call[c].handle))'
      BY <1>6, <1>8
    <3>3. Observed(call[c].draft)'
      BY <3>1, <1>5, <1>8 DEF Knows, Observed
    <3> QED
      BY <2>1, <3>1, <3>2, <3>3, <1>3, <1>4, <1>6
      DEF Knows, Signalling, Observed, Spawned, Acting
  <2>2. CASE d # c
    BY <2>2, <1>3, <1>4, <1>5, <1>8 DEF IInv, Moves, Knows, Spawned, Signalling, Observed
  <2> QED
    BY <2>1, <2>2
<1>10. ASSUME NEW d \in Canceller PROVE ~Signalling(d)'
  BY <1>1, <1>5 DEF IInv, OneSignaller, Signalling, Moves
<1>11. OneSignaller' /\ SignalledOnce'
  BY <1>2, <1>4, <1>8, <1>10 DEF IInv, OneSignaller, SignalledOnce
<1>12. Recorded' /\ CitedIsOnDisk'
  BY <1>3, <1>4, <1>8 DEF IInv, Recorded, CitedIsOnDisk, Observed
<1>13. NamesAreSpawned'
  BY <1>2, <1>3, <1>8 DEF IInv, NamesAreSpawned, Spawned
<1>14. \A x \in Child : Named(x)' => Named(x)
  BY <1>3, <1>5, <1>6 DEF Named, Moves
<1>15. ASSUME NEW x \in Child, BeyondSignals(x) PROVE BeyondSignals(x)'
  BY <1>15, <1>2, <1>3, <1>8, <1>14 DEF BeyondSignals
<1>16. ASSUME NEW r \in Runner PROVE Commands(r)'
  <2>1. child[r] \in Child /\ pc'[r] = pc[r] /\ Commands(r)
    BY <1>5 DEF IInv, TypeOK, Moves
  <2> QED
    BY <2>1, <1>2, <1>3, <1>8, <1>14, <1>15 DEF Commands
<1>17. FailedUnsignalled'
  <2> SUFFICES ASSUME NEW e \in Terminals, e.kind = "failed", ~e.cancelled
               PROVE  Past(e.child)' /\ BeyondSignals(e.child)'
    BY <1>4 DEF FailedUnsignalled
  <2>1. Past(e.child) /\ BeyondSignals(e.child)
    BY DEF IInv, FailedUnsignalled
  <2>2. e.child \in Child
    BY EventTypes DEF IInv, Terminal
  <2> QED
    BY <2>1, <2>2, <1>3, <1>5, <1>15 DEF Past, Spawned, Moves, Child
<1>18. TypeOK'
  BY <1>3, <1>5, <1>7, <1>8 DEF IInv, TypeOK, Moves, Locals, CallSteps, Acting
<1> QED
  BY <1>9, <1>11, <1>12, <1>13, <1>16, <1>17, <1>18 DEF IInv

\* The record is created once, from a draft that is the request's.
LEMMA LinkStep == ASSUME IInv, NEW c \in Canceller, Link(c) PROVE IInv'
<1>1. /\ pc[c] = "link" /\ Goto(c, "reread")
      /\ record' = IF record = None THEN call[c].draft ELSE record
      /\ UNCHANGED <<handle, trail, live, signals, child, call, calls, crashes, refused>>
  BY DEF Link, At, world, counters
<1>2. UNCHANGED <<Requests, Settlements, Terminals>>
  BY <1>1 DEF Requests, Settlements, Terminals
<1>3. /\ call[c].draft \in Record /\ Observed(call[c].draft)
      /\ \E q \in Requests : Verified(call[c].draft, q, q.decision)
  BY <1>1, CallIsTyped DEF Knows
<1>4. Moves(c) /\ pc'[c] = "reread"
  <2>1. "reread" \in CallSteps /\ call' = [call EXCEPT ![c] = call[c]]
    BY <1>1 DEF CallSteps, IInv, TypeOK
  <2> QED
    BY <1>1, <2>1, CallIsTyped, GotoMoves
<1>5. ASSUME NEW d \in Canceller PROVE Knows(d)'
  <2>1. CASE d = c
    BY <2>1, <1>1, <1>2, <1>4, CallIsTyped
    DEF Knows, Signalling, Observed, Signalled, Spawned, Acting
  <2>2. CASE d # c
    BY <2>2, <1>1, <1>2, <1>4 DEF IInv, Moves, Knows, Spawned, Signalling, Signalled, Observed
  <2> QED
    BY <2>1, <2>2
<1>6. OneSignaller' /\ SignalledOnce'
  BY <1>1, <1>2, <1>4 DEF IInv, OneSignaller, SignalledOnce, Moves, Signalling
<1>7. Recorded' /\ CitedIsOnDisk'
  BY <1>1, <1>2, <1>3 DEF IInv, Recorded, CitedIsOnDisk, Observed, Signalled
<1>8. NamesAreSpawned'
  BY <1>1 DEF IInv, NamesAreSpawned, Spawned
<1>9. \A x : Named(x)' <=> Named(x)
  BY <1>1 DEF Named
<1>10. ASSUME NEW r \in Runner PROVE Commands(r)'
  BY <1>1, <1>4, <1>9 DEF IInv, Commands, Moves, Signalled, BeyondSignals
<1>11. FailedUnsignalled'
  <2> SUFFICES ASSUME NEW e \in Terminals, e.kind = "failed", ~e.cancelled
               PROVE  Past(e.child)' /\ BeyondSignals(e.child)'
    BY <1>2 DEF FailedUnsignalled
  <2>1. Past(e.child) /\ BeyondSignals(e.child) /\ e.child \in Child
    BY EventTypes DEF IInv, FailedUnsignalled, Terminal
  <2> QED
    BY <2>1, <1>1, <1>4, <1>9 DEF Past, BeyondSignals, Signalled, Spawned, Moves, Child
<1>12. TypeOK'
  BY <1>1, <1>3, <1>4 DEF IInv, TypeOK, Moves, CallSteps, Acting
<1> QED
  BY <1>5, <1>6, <1>7, <1>8, <1>10, <1>11, <1>12 DEF IInv

\* The settlement cites the draft that is the record.
LEMMA SettleCancelStep == ASSUME IInv, NEW c \in Canceller, SettleCancel(c) PROVE IInv'
<1>1. pc[c] = "settleCancel" /\ UNCHANGED <<handle, record, live, signals, child, calls, crashes>>
      /\ UNCHANGED world
  BY DEF SettleCancel, At, world
<1>2. CASE Return(c) /\ UNCHANGED trail /\ (UNCHANGED refused \/ Refuse)
  <2>1. Counted /\ UNCHANGED <<files, world, child>>
    BY <1>1, <1>2 DEF Refuse, IInv, TypeOK, Counted, files
  <2> QED
    BY <1>2, <2>1, ReturnStep
<1> DEFINE settlement == [kind |-> "cancelled", record |-> call[c].draft, by |-> c]
<1>3. CASE Emit(settlement) /\ Return(c) /\ UNCHANGED refused
  <2>1. record # None /\ record \in Record /\ call[c].draft = record
    BY <1>1, CallIsTyped DEF Knows, TypeOK
  <2>2. settlement \in Settlement /\ settlement.record = record
    BY <2>1 DEF Settlement
  <2>3. trail' = trail \cup {settlement}
    BY <1>3 DEF Emit
  <2>4. /\ UNCHANGED <<Requests, Terminals>>
        /\ Settlements' = Settlements \cup {settlement}
    BY <2>3 DEF Requests, Settlements, Terminals
  <2>5. Moves(c) /\ pc'[c] = "idle" /\ call'[c] = NoCall
    BY <1>3, ReturnMoves DEF IInv
  <2>6. UNCHANGED <<handle, record, live, signals, child, calls, crashes, refused>>
    BY <1>1, <1>3
  <2>7. ASSUME NEW d \in Canceller PROVE Knows(d)'
    <3>1. CASE d = c
      BY <3>1, <2>5, NoCallKnowsNothing, ValuesAssumption DEF Knows, Signalling, Acting, Observed
    <3>2. CASE d # c
      BY <3>2, <2>3, <2>4, <2>5, <2>6
      DEF IInv, Moves, Knows, Spawned, Signalling, Signalled, Observed
    <3> QED
      BY <3>1, <3>2
  <2>8. OneSignaller' /\ SignalledOnce'
    BY <2>4, <2>5, <2>6 DEF IInv, OneSignaller, SignalledOnce, Moves, Signalling
  <2>9. Recorded' /\ CitedIsOnDisk'
    BY <2>1, <2>2, <2>4, <2>6 DEF IInv, Recorded, CitedIsOnDisk, Observed, Signalled
  <2>10. NamesAreSpawned'
    BY <2>6 DEF IInv, NamesAreSpawned, Spawned
  <2>11. \A x \in Child : Named(x)' => Named(x)
    BY <2>5, <2>6, NoCallKnowsNothing, ValuesAssumption DEF Named, Moves
  <2>12. ASSUME NEW r \in Runner PROVE Commands(r)'
    <3>1. child[r] \in Child /\ pc'[r] = pc[r] /\ Commands(r)
      BY <2>5 DEF IInv, TypeOK, Moves
    <3> QED
      BY <3>1, <2>6, <2>11 DEF Commands, Signalled, BeyondSignals
  <2>13. FailedUnsignalled'
    <3> SUFFICES ASSUME NEW e \in Terminals, e.kind = "failed", ~e.cancelled
                 PROVE  Past(e.child)' /\ BeyondSignals(e.child)'
      BY <2>4 DEF FailedUnsignalled
    <3>1. Past(e.child) /\ BeyondSignals(e.child) /\ e.child \in Child
      BY EventTypes DEF IInv, FailedUnsignalled, Terminal
    <3> QED
      BY <3>1, <2>5, <2>6, <2>11 DEF Past, BeyondSignals, Signalled, Spawned, Moves, Child
  <2>14. TypeOK'
    BY <2>2, <2>3, <2>5, <2>6 DEF IInv, TypeOK, Moves, Locals, CallSteps, Acting
  <2> QED
    BY <2>7, <2>8, <2>9, <2>10, <2>12, <2>13, <2>14 DEF IInv
<1> QED
  BY <1>2, <1>3 DEF SettleCancel

---------------------------------------------------------------------------
(* The steps of a runner.                                                  *)

CommandSteps == {"idle", "check", "checkRead", "clearStale", "spawn", "persist", "wait", "kill",
                 "settle", "fail", "completed", "failed", "cancelled"}

\* Only r moves, and it makes no request and no settlement.
RunnerMoves(r) ==
    /\ UNCHANGED <<record, signals, call, Requests, Settlements>>
    /\ trail' \subseteq Request \cup Settlement \cup Terminal /\ trail \subseteq trail'
    /\ \A p \in Process \ {r} : pc'[p] = pc[p]
    /\ pc' = [p \in Process |-> pc'[p]] /\ pc'[r] \in CommandSteps
    /\ handle' \in Child \cup {None, Torn} /\ live' \subseteq Child
    /\ child' \in [Runner -> Child] /\ \A q \in Runner \ {r} : child'[q] = child[q]
    /\ Counted

\* Its child is a later one when it has just been spawned, no child that was there comes
\* to life, and only the child it persists comes to be named.
ChildMoves(r) ==
    /\ child'[r].by = r
    /\ child'[r] = child[r] \/ child'[r].n > child[r].n
    /\ pc'[r] = "persist" => pc[r] = "persist" \/ child'[r].n > child[r].n
    /\ \A x \in live' : Spawned(x) => x \in live
    /\ handle' \in {None, Torn, handle} \/ (handle' = child[r] /\ pc[r] = "persist")

\* Such a step preserves the invariant if r's command is as it should be at its next step
\* and an event it puts on the trail without the attribution is of a child beyond signals.
LEMMA RunnerStepInv ==
    ASSUME IInv, NEW r \in Runner, RunnerMoves(r), ChildMoves(r), Commands(r)',
           \A e \in Terminals' \ Terminals : e.kind = "failed" /\ ~e.cancelled =>
             /\ e.child = child[r] /\ BeyondSignals(child[r])
             /\ pc[r] # "persist" /\ pc'[r] = "idle"
    PROVE  IInv'
<1>1. /\ UNCHANGED <<record, signals, call, Requests, Settlements>> /\ trail \subseteq trail'
      /\ \A c \in Canceller : pc'[c] = pc[c]
      /\ \A q \in Runner \ {r} : pc'[q] = pc[q] /\ child'[q] = child[q]
  BY RolesAssumption DEF RunnerMoves, Process
<1>2. \A q \in Runner : child[q] \in Child /\ child'[q] \in Child /\ child[q].by = q
  BY DEF IInv, TypeOK, NamesAreSpawned, RunnerMoves
<1>3. ASSUME NEW x \in Child, Spawned(x)
      PROVE  Spawned(x)' /\ (x \in live' => x \in live)
  BY <1>1, <1>2, <1>3 DEF ChildMoves, Spawned, Child
<1>4. ASSUME NEW x \in Child, Named(x)' PROVE Named(x) \/ (x = child[r] /\ pc[r] = "persist")
  BY <1>1, <1>4, ValuesAssumption DEF Named, ChildMoves
<1>5. ASSUME NEW d \in Canceller PROVE Knows(d)'
  <2>1. Knows(d) /\ call[d] \in Locals
    BY CallIsTyped
  <2>2. ASSUME NEW x, Signalled(x) PROVE x \in Child /\ Spawned(x)
    BY <2>2 DEF IInv, TypeOK, Signalled, NamesAreSpawned
  <2>3. Observed(call[d].draft)'
    BY <2>1, <2>2, <1>1, <1>3 DEF Knows, Observed, Signalled
  <2> QED
    BY <2>1, <2>3, <1>1, <1>3 DEF Knows, Signalling, Signalled, Locals
<1>6. OneSignaller' /\ SignalledOnce'
  BY <1>1 DEF IInv, OneSignaller, SignalledOnce, Signalling
<1>7. Recorded' /\ CitedIsOnDisk'
  <2>1. ASSUME NEW x, Signalled(x) PROVE x \in Child /\ Spawned(x)
    BY <2>1 DEF IInv, TypeOK, Signalled, NamesAreSpawned
  <2> QED
    BY <2>1, <1>1, <1>3 DEF IInv, Recorded, CitedIsOnDisk, Observed, Signalled
<1>8. NamesAreSpawned'
  <2>1. \A s \in signals : s.to \in Child
    BY DEF IInv, TypeOK
  <2>2. Spawned(child[r]) /\ child[r] \in Child
    BY <1>2 DEF Spawned, Child
  <2> QED
    BY <2>1, <2>2, <1>1, <1>2, <1>3, ValuesAssumption DEF IInv, NamesAreSpawned, ChildMoves
<1>9. ASSUME NEW q \in Runner PROVE Commands(q)'
  <2>1. CASE q = r
    BY <2>1
  <2>2. CASE q # r
    <3>1. Commands(q) /\ Spawned(child[q]) /\ child[q] # child[r]
      BY <2>2, <1>2 DEF IInv, Spawned, Child
    <3> QED
      BY <3>1, <2>2, <1>1, <1>2, <1>3, <1>4 DEF Commands, BeyondSignals, Signalled
  <2> QED
    BY <2>1, <2>2
<1>10. FailedUnsignalled'
  <2> SUFFICES ASSUME NEW e \in Terminals', e.kind = "failed", ~e.cancelled
               PROVE  Past(e.child)' /\ BeyondSignals(e.child)'
    BY DEF FailedUnsignalled
  <2>1. CASE e \in Terminals
    <3>1. Past(e.child) /\ BeyondSignals(e.child) /\ e.child \in Child
      BY <2>1, EventTypes DEF IInv, FailedUnsignalled, Terminal
    <3>2. Past(e.child)'
      BY <3>1, <1>1, <1>2, <1>3 DEF Past, Spawned, ChildMoves, Child
    <3>3. e.child = child[r] => pc[r] # "persist"
      BY <3>1, <1>2 DEF Past, Child
    <3> QED
      BY <3>1, <3>2, <3>3, <1>1, <1>3, <1>4 DEF BeyondSignals, Past, Signalled
  <2>2. CASE e \notin Terminals
    <3>1. /\ e.child = child[r] /\ BeyondSignals(e.child)
          /\ pc[r] # "persist" /\ pc'[r] = "idle"
      BY <2>2
    <3>2. Spawned(e.child) /\ e.child \in Child /\ e.child.by = r
      BY <3>1, <1>2 DEF Spawned, Child
    <3>3. Past(e.child)'
      BY <3>1, <3>2, <1>3 DEF Past
    <3>4. BeyondSignals(e.child)'
      BY <3>1, <3>2, <1>1, <1>3, <1>4 DEF BeyondSignals, Signalled
    <3> QED
      BY <3>3, <3>4
  <2> QED
    BY <2>1, <2>2
<1>11. TypeOK'
  <2>1. \A q \in Runner : pc'[q] \in CommandSteps
    BY <1>1 DEF IInv, TypeOK, RunnerMoves, CommandSteps
  <2> QED
    BY <1>1, <2>1 DEF IInv, TypeOK, RunnerMoves, CommandSteps, Counted
<1> QED
  BY <1>5, <1>6, <1>7, <1>8, <1>9, <1>10, <1>11 DEF IInv

\* What every step of a runner rests on.
LEMMA RunnerIsTyped ==
    ASSUME IInv, NEW r \in Runner
    PROVE  /\ TypeOK /\ Commands(r) /\ pc[r] \in CommandSteps
           /\ child[r] \in Child /\ child[r].by = r /\ child[r].n \in Nat /\ Spawned(child[r])
           /\ r \notin Canceller /\ r \in Process
<1>1. TypeOK /\ Commands(r) /\ pc[r] \in CommandSteps /\ child[r] \in Child /\ child[r].by = r
  BY DEF IInv, TypeOK, CommandSteps, NamesAreSpawned
<1>2. child[r].n \in Nat
  BY <1>1 DEF Child
<1>3. Spawned(child[r])
  BY <1>1, <1>2 DEF Spawned
<1> QED
  BY <1>1, <1>2, <1>3, RolesAssumption DEF Process

\* A step that leaves the trail and the record alone.
LEMMA UntrailedStep ==
    ASSUME IInv, NEW r \in Runner, UNCHANGED <<record, trail, signals, call>>, Counted,
           NEW step \in CommandSteps, Goto(r, step),
           handle' \in Child \cup {None, Torn}, live' \subseteq Child,
           child' \in [Runner -> Child], \A q \in Runner \ {r} : child'[q] = child[q],
           ChildMoves(r), Commands(r)'
    PROVE  IInv'
<1>1. /\ UNCHANGED <<Requests, Settlements, Terminals>>
      /\ trail' \subseteq Request \cup Settlement \cup Terminal
  BY DEF Requests, Settlements, Terminals, IInv, TypeOK
<1>2. /\ \A p \in Process \ {r} : pc'[p] = pc[p]
      /\ pc' = [p \in Process |-> pc'[p]] /\ pc'[r] = step
  BY RunnerIsTyped DEF Goto, TypeOK
<1>3. RunnerMoves(r)
  BY <1>1, <1>2 DEF RunnerMoves
<1> QED
  BY <1>1, <1>3, RunnerStepInv

LEMMA RunStep == ASSUME IInv, NEW r \in Runner, Run(r) PROVE IInv'
<1>1. /\ UNCHANGED <<handle, record, trail, signals, live, child, call>> /\ Goto(r, "check")
      /\ pc'[r] = "check" /\ Counted
  BY RunnerIsTyped DEF Run, files, world, Goto, Counted, TypeOK
<1>2. ChildMoves(r) /\ Commands(r)'
  BY <1>1, RunnerIsTyped DEF ChildMoves, Commands
<1>3. "check" \in CommandSteps
  BY DEF CommandSteps
<1> QED
  BY <1>1, <1>2, <1>3, RunnerIsTyped, UntrailedStep DEF TypeOK

\* A step that only looks at the handle.
LEMMA LookStep ==
    ASSUME IInv, NEW r \in Runner, UNCHANGED <<files, world, child, call, counters>>,
           NEW step \in {"checkRead", "spawn", "idle", "clearStale"}, Goto(r, step)
    PROVE  IInv'
<1>1. UNCHANGED <<handle, record, trail, signals, live, child, call>> /\ Counted
  BY CountersCount, RunnerIsTyped DEF files, world
<1>2. pc'[r] = step /\ step \in CommandSteps
  BY RunnerIsTyped DEF Goto, TypeOK, CommandSteps
<1>3. ChildMoves(r) /\ Commands(r)'
  BY <1>1, <1>2, RunnerIsTyped DEF ChildMoves, Commands
<1> QED
  BY <1>1, <1>2, <1>3, RunnerIsTyped, UntrailedStep DEF TypeOK

LEMMA CheckHandleStep ==
    ASSUME IInv, NEW r \in Runner, FindHandle(r) \/ CheckHandle(r) PROVE IInv'
<1>1. UNCHANGED <<files, world, child, call, counters>>
  BY DEF FindHandle, CheckHandle
<1>2. \E step \in {"checkRead", "spawn", "idle", "clearStale"} : Goto(r, step)
  BY DEF FindHandle, CheckHandle
<1> QED
  BY <1>1, <1>2, LookStep

LEMMA ClearStaleStep == ASSUME IInv, NEW r \in Runner, ClearStale(r) PROVE IInv'
<1>1. /\ UNCHANGED <<record, trail, signals, live, child, call>> /\ handle' = None
      /\ Goto(r, "spawn") /\ pc'[r] = "spawn" /\ Counted
  BY CountersCount, RunnerIsTyped DEF ClearStale, world, Goto, TypeOK
<1>2. ChildMoves(r) /\ Commands(r)'
  BY <1>1, RunnerIsTyped DEF ChildMoves, Commands
<1>3. "spawn" \in CommandSteps
  BY DEF CommandSteps
<1> QED
  BY <1>1, <1>2, <1>3, RunnerIsTyped, UntrailedStep DEF TypeOK

\* A new child is none that has been named or signalled.
LEMMA SpawnStep == ASSUME IInv, NEW r \in Runner, Spawn(r) PROVE IInv'
<1> DEFINE born == [child[r] EXCEPT !.n = @ + 1]
<1>1. born \in Child /\ born.by = r /\ born.n = child[r].n + 1 /\ born.n > child[r].n
  BY RunnerIsTyped DEF Child
<1>2. child' = [child EXCEPT ![r] = born]
  BY RunnerIsTyped DEF Spawn, TypeOK, Child
<1>3. child'[r] = born /\ child' \in [Runner -> Child]
      /\ \A q \in Runner \ {r} : child'[q] = child[q]
  BY <1>1, <1>2, RunnerIsTyped DEF TypeOK
<1>4. /\ UNCHANGED <<handle, record, trail, signals, call>> /\ live' = live \cup {born}
      /\ Goto(r, "persist") /\ pc'[r] = "persist" /\ Counted
  BY <1>3, CountersCount, RunnerIsTyped DEF Spawn, files, Goto, TypeOK
<1>5. ~Spawned(born)
  BY <1>1, RunnerIsTyped DEF Spawned
<1> HIDE DEF born
<1>6. ~Named(born) /\ ~Signalled(born)
  BY <1>1, <1>5 DEF IInv, Named, Signalled, NamesAreSpawned, Knows
<1>7. ChildMoves(r) /\ Commands(r)'
  <2>1. ~Named(child[r])' /\ ~Signalled(child[r])'
    BY <1>3, <1>4, <1>6 DEF Named, Signalled
  <2> QED
    BY <2>1, <1>1, <1>3, <1>4, <1>5 DEF ChildMoves, Commands
<1>8. "persist" \in CommandSteps
  BY DEF CommandSteps
<1> QED
  BY <1>1, <1>3, <1>4, <1>7, <1>8, RunnerIsTyped, UntrailedStep DEF TypeOK

LEMMA PersistStep == ASSUME IInv, NEW r \in Runner, Persist(r) PROVE IInv'
<1>1. /\ UNCHANGED <<record, trail, signals, live, child, call>> /\ pc[r] = "persist" /\ Counted
  BY CountersCount, RunnerIsTyped DEF Persist, world, At
<1>2. PICK step \in {"wait", "kill"} :
        /\ Goto(r, step)
        /\ handle' = IF step = "wait" THEN child[r] ELSE handle
  BY DEF Persist
<1>3. pc'[r] = step /\ step \in CommandSteps
  BY <1>2, RunnerIsTyped DEF Goto, TypeOK, CommandSteps
<1>4. ChildMoves(r) /\ Commands(r)'
  BY <1>1, <1>2, <1>3, RunnerIsTyped DEF ChildMoves, Commands, Named, Signalled
<1> QED
  BY <1>1, <1>2, <1>3, <1>4, RunnerIsTyped, UntrailedStep DEF TypeOK

LEMMA PersistFailsStep == ASSUME IInv, NEW r \in Runner, PersistFails(r) PROVE IInv'
<1>1. /\ UNCHANGED <<record, trail, signals, live, child, call>> /\ pc[r] = "persist"
      /\ handle' \in {None, Torn, handle}
      /\ Goto(r, "kill") /\ pc'[r] = "kill" /\ Counted
  BY RunnerIsTyped DEF PersistFails, world, At, Goto, Refuse, TypeOK, Counted
<1>2. ChildMoves(r) /\ Commands(r)'
  BY <1>1, RunnerIsTyped, ValuesAssumption DEF ChildMoves, Commands, Named, Signalled
<1>3. "kill" \in CommandSteps
  BY DEF CommandSteps
<1> QED
  BY <1>1, <1>2, <1>3, RunnerIsTyped, UntrailedStep DEF TypeOK

LEMMA KillStep == ASSUME IInv, NEW r \in Runner, Kill(r) PROVE IInv'
<1>1. /\ UNCHANGED <<handle, record, trail, signals, child, call>> /\ pc[r] = "kill"
      /\ live' \subseteq live /\ Goto(r, "fail") /\ pc'[r] = "fail" /\ Counted
  BY CountersCount, RunnerIsTyped DEF Kill, files, At, Goto, TypeOK
<1>2. ChildMoves(r) /\ Commands(r)'
  BY <1>1, RunnerIsTyped DEF ChildMoves, Commands, Named, Signalled
<1>3. "fail" \in CommandSteps
  BY DEF CommandSteps
<1> QED
  BY <1>1, <1>2, <1>3, RunnerIsTyped, UntrailedStep DEF TypeOK

LEMMA ClearStep == ASSUME IInv, NEW r \in Runner, Clear(r) PROVE IInv'
<1>1. /\ UNCHANGED <<record, trail, signals, live, child, call>> /\ handle' = None
      /\ child[r] \notin live /\ Goto(r, "settle") /\ pc'[r] = "settle" /\ Counted
  BY CountersCount, RunnerIsTyped DEF Clear, world, Goto, TypeOK
<1>2. ChildMoves(r) /\ Commands(r)'
  BY <1>1, RunnerIsTyped DEF ChildMoves, Commands
<1>3. "settle" \in CommandSteps
  BY DEF CommandSteps
<1> QED
  BY <1>1, <1>2, <1>3, RunnerIsTyped, UntrailedStep DEF TypeOK

\* Without a request there is no signal yet, and the child is gone or has no name.
LEMMA AttributeStep == ASSUME IInv, NEW r \in Runner, Attribute(r) PROVE IInv'
<1>1. /\ UNCHANGED <<handle, record, trail, signals, live, child, call>>
      /\ pc[r] \in {"settle", "fail"} /\ Counted
  BY CountersCount, RunnerIsTyped DEF Attribute, files, world
<1>2. PICK step \in {"completed", "failed", "cancelled"} :
        Goto(r, step) /\ (step = "failed" => Requests = {})
  BY DEF Attribute, Attribution
<1>3. pc'[r] = step /\ step \in CommandSteps
  BY <1>2, RunnerIsTyped DEF Goto, TypeOK, CommandSteps
<1>4. step = "failed" => BeyondSignals(child[r])
  BY <1>1, <1>2, RunnerIsTyped DEF IInv, OneSignaller, Commands, BeyondSignals, Signalled
<1>5. ChildMoves(r) /\ Commands(r)'
  BY <1>1, <1>3, <1>4, RunnerIsTyped DEF ChildMoves, Commands, BeyondSignals, Named, Signalled
<1> QED
  BY <1>1, <1>2, <1>3, <1>5, RunnerIsTyped, UntrailedStep DEF TypeOK

LEMMA SettleAttemptStep == ASSUME IInv, NEW r \in Runner, SettleAttempt(r) PROVE IInv'
<1> DEFINE event == [kind |-> IF pc[r] = "completed" THEN "completed" ELSE "failed",
                     child |-> child[r], cancelled |-> pc[r] = "cancelled"]
<1>1. /\ UNCHANGED <<handle, record, signals, live, child, call>>
      /\ pc[r] \in {"completed", "failed", "cancelled"}
      /\ Goto(r, "idle") /\ pc'[r] = "idle" /\ Counted
  BY RunnerIsTyped DEF SettleAttempt, world, Goto, Refuse, TypeOK, Counted
<1>2. ChildMoves(r) /\ Commands(r)'
  BY <1>1, RunnerIsTyped DEF ChildMoves, Commands
<1>3. "idle" \in CommandSteps
  BY DEF CommandSteps
<1>4. CASE UNCHANGED trail
  BY <1>1, <1>2, <1>3, <1>4, RunnerIsTyped, UntrailedStep DEF TypeOK
<1>5. CASE Emit(event)
  <2>1. /\ event \in Terminal /\ event.kind \in {"completed", "failed"} /\ event.child = child[r]
        /\ event.kind = "failed" /\ ~event.cancelled => pc[r] = "failed"
    BY <1>1, RunnerIsTyped DEF Terminal
  <2>2. trail' = trail \cup {event}
    BY <1>5 DEF Emit
  <2> HIDE DEF event
  <2>3. UNCHANGED <<Requests, Settlements>> /\ Terminals' = Terminals \cup {event}
    BY <2>1, <2>2 DEF Requests, Settlements, Terminals
  <2>4. trail' \subseteq Request \cup Settlement \cup Terminal
    BY <2>1, <2>2, RunnerIsTyped DEF TypeOK
  <2>5. /\ \A p \in Process \ {r} : pc'[p] = pc[p]
        /\ pc' = [p \in Process |-> pc'[p]]
    BY <1>1, RunnerIsTyped DEF Goto, TypeOK
  <2>6. RunnerMoves(r)
    BY <1>1, <1>3, <2>2, <2>3, <2>4, <2>5, RunnerIsTyped DEF RunnerMoves, TypeOK
  <2>7. event.kind = "failed" /\ ~event.cancelled => BeyondSignals(child[r])
    BY <2>1, RunnerIsTyped DEF Commands
  <2> QED
    BY <1>1, <1>2, <2>1, <2>3, <2>6, <2>7, RunnerStepInv
<1> QED
  BY <1>4, <1>5 DEF SettleAttempt

---------------------------------------------------------------------------
(* Crashes and ends.                                                       *)

LEMMA CrashStep == ASSUME IInv, NEW p \in Process, Crash(p) PROVE IInv'
<1>1. /\ UNCHANGED <<record, trail, signals, live, child>> /\ UNCHANGED <<trail, world, child>>
      /\ Goto(p, "idle") /\ call' = [c \in Canceller |-> IF c = p THEN NoCall ELSE call[c]]
      /\ \/ handle' = handle
         \/ p \in Runner /\ pc[p] = "persist" /\ handle' \in {Torn, child[p]}
      /\ Counted
  BY DEF Crash, world, IInv, TypeOK, Counted
<1>2. CASE p \in Canceller
  <2>1. call' = [call EXCEPT ![p] = NoCall] /\ handle' = handle
    BY <1>1, <1>2, RolesAssumption DEF IInv, TypeOK
  <2>2. Return(p) /\ UNCHANGED <<files, world, child>>
    BY <1>1, <2>1 DEF Return, files
  <2> QED
    BY <1>1, <1>2, <2>2, ReturnStep
<1>3. CASE p \in Runner
  <2>1. UNCHANGED call
    BY <1>1, <1>3, RolesAssumption DEF IInv, TypeOK
  <2>2. pc'[p] = "idle" /\ "idle" \in CommandSteps
    BY <1>1, <1>3, RunnerIsTyped DEF Goto, TypeOK, CommandSteps
  <2>3. handle' \in Child \cup {None, Torn}
    BY <1>1, <1>3, RunnerIsTyped DEF TypeOK
  <2>4. ChildMoves(p) /\ Commands(p)'
    BY <1>1, <1>3, <2>2, RunnerIsTyped DEF ChildMoves, Commands
  <2> QED
    BY <1>1, <1>3, <2>1, <2>2, <2>3, <2>4, RunnerIsTyped, UntrailedStep DEF TypeOK
<1> QED
  BY <1>2, <1>3 DEF Process

\* The end of a child, seen as a step of its runner, which stays where it is.
LEMMA ChildEndsStep == ASSUME IInv, ChildEnds PROVE IInv'
<1>1. PICK x \in live : live' = live \ {x}
  BY DEF ChildEnds
<1> DEFINE r == x.by
<1>2. r \in Runner
  BY DEF IInv, TypeOK, Child
<1>3. UNCHANGED <<handle, record, trail, signals, pc, child, call>> /\ Counted
  BY CountersCount DEF ChildEnds, files, IInv
<1>4. UNCHANGED <<Requests, Settlements, Terminals>>
  BY <1>3 DEF Requests, Settlements, Terminals
<1> HIDE DEF r
<1>5. RunnerMoves(r)
  BY <1>1, <1>2, <1>3, <1>4, RunnerIsTyped DEF RunnerMoves, TypeOK
<1>6. ChildMoves(r) /\ Commands(r)'
  BY <1>1, <1>2, <1>3, RunnerIsTyped DEF ChildMoves, Commands, BeyondSignals, Named, Signalled
<1> QED
  BY <1>2, <1>4, <1>5, <1>6, RunnerStepInv

---------------------------------------------------------------------------
(* The theorems.                                                           *)

LEMMA NextIInv == IInv /\ [Next]_cancelVars => IInv'
<1> SUFFICES ASSUME IInv, [Next]_cancelVars PROVE IInv'
  OBVIOUS
<1>1. ASSUME NEW r \in Runner, Run(r) \/ RunnerStep(r) PROVE IInv'
  BY <1>1, RunStep, CheckHandleStep, ClearStaleStep, SpawnStep, PersistStep,
     PersistFailsStep, KillStep, ClearStep, AttributeStep, SettleAttemptStep DEF RunnerStep
<1>2. ASSUME NEW c \in Canceller, Cancel(c) \/ CancellerStep(c) PROVE IInv'
  BY <1>2, CancelStep, ReadStateStep, ReadRecordStep, ResumeHandleStep, ResumeReadStep,
     ResumeObserveStep, SeekHandleStep, ReadHandleStep, SpendStep, ObserveStep, SignalStep, AwaitStep, VerifyStep, LinkStep,
     RereadStep, SettleCancelStep DEF CancellerStep
<1>3. CASE UNCHANGED cancelVars
  <2>1. /\ UNCHANGED <<handle, record, trail, live, signals, pc, child, call>>
        /\ UNCHANGED <<calls, crashes, refused>>
    BY <1>3 DEF cancelVars, files, world, counters
  <2>2. UNCHANGED <<Requests, Settlements, Terminals>>
    BY <2>1 DEF Requests, Settlements, Terminals
  <2>3. TypeOK' /\ NamesAreSpawned'
    BY <2>1 DEF IInv, TypeOK, NamesAreSpawned, Spawned
  <2>4. OneSignaller' /\ SignalledOnce' /\ Recorded' /\ CitedIsOnDisk'
    BY <2>1, <2>2 DEF IInv, OneSignaller, SignalledOnce, Recorded, CitedIsOnDisk, Signalling,
       Observed, Signalled
  <2>5. ASSUME NEW c \in Canceller PROVE Knows(c)'
    BY <2>1, <2>2 DEF IInv, Knows, Spawned, Signalling, Signalled, Observed
  <2>6. ASSUME NEW r \in Runner PROVE Commands(r)'
    BY <2>1 DEF IInv, Commands, Named, Signalled, BeyondSignals
  <2>7. FailedUnsignalled'
    BY <2>1, <2>2 DEF IInv, FailedUnsignalled, Past, Spawned, Named, Signalled, BeyondSignals
  <2> QED
    BY <2>3, <2>4, <2>5, <2>6, <2>7 DEF IInv
<1> QED
  BY <1>1, <1>2, <1>3, CrashStep, ChildEndsStep DEF Next

\* The invariant of cancellation: what each call and each runner knows at its step holds,
\* whatever other calls, runners, crashes and ends of children do in between.
THEOREM Invariance == Spec => []IInv
BY InitIInv, NextIInv, PTL DEF Spec

\* The variables have their types, in every behaviour.
THEOREM TypeCorrect == Spec => []TypeOK
<1>1. IInv => TypeOK
  BY DEF IInv
<1> QED
  BY <1>1, Invariance, PTL

\* A run is signalled once, on the one request and the Decision it spent, whichever calls
\* of cancelExecution race, die and are resumed.
THEOREM OneSignal == Spec => []SignalledOnce
<1>1. IInv => SignalledOnce
  BY DEF IInv
<1> QED
  BY <1>1, Invariance, PTL

\* A settlement cites the record that is on disk, which the request on the trail
\* authorized.
THEOREM SettlementCitesRecord == Spec => []CitedIsOnDisk
<1>1. IInv => CitedIsOnDisk
  BY DEF IInv
<1> QED
  BY <1>1, Invariance, PTL

\* The record claims a termination only of a child that was sent the signal and is gone.
THEOREM TerminationObserved == Spec => []TerminatedWasObserved
<1>1. IInv => TerminatedWasObserved
  BY DEF IInv, Recorded, Observed, Signalled, TerminatedWasObserved
<1> QED
  BY <1>1, Invariance, PTL

\* The failure of a child that was sent the signal is recorded as a cancellation.
THEOREM SignalledIsAttributed == Spec => []KilledIsAttributed
<1>1. IInv => KilledIsAttributed
  BY DEF IInv, FailedUnsignalled, BeyondSignals, Signalled, KilledIsAttributed
<1> QED
  BY <1>1, Invariance, PTL

=============================================================================
