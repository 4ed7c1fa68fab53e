------------------------------- MODULE Runtime -------------------------------
(***************************************************************************)
(* The maintenance runtime of scripts/lib/harness/runtime-core.js: schedules *)
(* that a human Decision admits and revokes, ticks that run what is due    *)
(* within a budget, and the daemon whose worker ticks on its own.          *)
(*                                                                         *)
(* Each caller is a process of its own and the daemon's workers are more.  *)
(* An append to the harness ledger is atomic, with its guard inside the    *)
(* lock (RegistryLedger); everything else is files without a lock, and     *)
(* start's own lock file.  Whether a schedule is due, or in its window, is *)
(* left open.  Left out: the events wake.started, wake.skipped and         *)
(* daemon.*, which decide nothing here, and reuse of a pid.                *)
(***************************************************************************)
EXTENDS Integers, Sequences, FiniteSets

CONSTANTS
    Caller,         \* processes that run amber runtime commands
    NumSchedules, Decision,
    Output,         \* outputs of a job
    Clean,          \* those without a finding, which propose nothing
    MaxRuns, MaxProposals,      \* the budget of a schedule
    Mixes,          \* bounds: the commands of one behaviour, how many calls of
                    \* them, ticks of the daemon's workers, and crashes
    MaxStarts,      \* bound: workers spawned
    MaxRefused,     \* bound: appends that the ledger refuses, and fences
    None, Torn      \* no file; a daemon.json that is created and not written

Schedule == 1..NumSchedules
Worker == 1..MaxStarts      \* a worker is known by its fence
Actor == Caller \cup Worker

ASSUME RuntimeAssumption ==
    /\ Clean \subseteq Output /\ Caller \cap Worker = {}
    /\ {None, Torn} \cap (Worker \cup Decision \cup Output) = {} /\ None # Torn
    /\ NumSchedules \in Nat /\ MaxStarts \in Nat
    /\ MaxRuns \in Nat \ {0} /\ MaxProposals \in Nat \ {0}

VARIABLES
    record,         \* schedules/<id>.json: the Decision it was admitted by
    revocation,     \* is there a revocations/<id>.json?
    ledger,         \* the harness ledger
    proposal,       \* proposals/<hash of the output>.json: its schedule
    daemon,         \* daemon.json: None, Torn, or the worker it names
    startLock,      \* is there a daemon-start.lock?
    fence,          \* fence.json
    signalled,      \* workers that have received SIGTERM
    at,             \* at[a]: the step and the local values of each process
    stray,          \* history: did a stop remove a daemon.json it had not read?
    cut,            \* history: schedules whose admission a crash cut short
    mix,            \* the commands in use
    calls, ticks, refused, crashes      \* counters for the bounds

scheduleVars == <<record, revocation, proposal>>
daemonVars == <<daemon, startLock, fence, signalled, stray, cut>>
counters == <<calls, ticks, refused, crashes, mix>>
vars == <<scheduleVars, ledger, daemonVars, at, counters>>

---------------------------------------------------------------------------
(* What the first n events say.                                            *)

Event(kind, s, value, by) == [kind |-> kind, schedule |-> s, value |-> value, by |-> by]

Of(kinds, s, n) == {i \in 1..n : ledger[i].kind \in kinds /\ ledger[i].schedule = s}

Registered(s, n) == Of({"registered"}, s, n) # {}
Revoked(s, n) == Of({"revoked"}, s, n) # {}
Witnessed(s, n) == \E i \in Of({"registered"}, s, n) : ledger[i].value = record[s]
Spent(d) == \E i \in 1..Len(ledger) : ledger[i].kind \in {"registered", "revoked"} /\ ledger[i].value = d

\* scheduleStatus.
\* Bug: a revocation is forgotten.
Bug_StoppedOnly(s, n) == Of({"stopped"}, s, n) # {}

Ended(s, n) == Of({"revoked", "stopped"}, s, n) # {}
Runs(s, n) == Cardinality(Of({"completed", "failed"}, s, n))
Proposals(s, n) == Cardinality({ledger[i].value : i \in Of({"completed"}, s, n)} \ Clean)
Exhausted(runs, proposals) == runs >= MaxRuns \/ proposals >= MaxProposals

\* The output of the last completed run.
LastOutput(s, n) ==
    LET done == Of({"completed"}, s, n)
    IN IF done = {} THEN None ELSE ledger[CHOOSE i \in done : \A j \in done : j <= i].value

---------------------------------------------------------------------------
Idle == [pc |-> "idle", s |-> 0, todo |-> {}, view |-> 0, value |-> None, created |-> FALSE,
         seen |-> None]
Dead == [Idle EXCEPT !.pc = "dead"]

At(a, pc) == at[a].pc = pc
Goto(a, pc) == at' = [at EXCEPT ![a].pc = pc]
\* A caller's command ends, or its worker is gone.
Leave(a) == at' = [at EXCEPT ![a] = IF a \in Worker THEN Dead ELSE Idle]

Begin(p, command) ==
    At(p, "idle") /\ command \in mix.uses /\ calls < mix.calls /\ calls' = calls + 1

Alive(w) == at[w].pc # "dead"

\* emitHarnessEvent: a busy or a full ledger refuses.
Emit(event) ==
    \/ ledger' = Append(ledger, event) /\ UNCHANGED refused
    \/ refused < MaxRefused /\ refused' = refused + 1 /\ UNCHANGED ledger

TypeOK ==
    /\ record \in [Schedule -> Decision \cup {None}] /\ revocation \in [Schedule -> BOOLEAN]
    /\ \A i \in 1..Len(ledger) : ledger[i].schedule \in Schedule
    /\ proposal \in [Output -> Schedule \cup {None}]
    /\ daemon \in Worker \cup {None, Torn} /\ fence \in Nat
    /\ signalled \subseteq Worker
    /\ \A a \in Actor : at[a].view \in 0..Len(ledger)

---------------------------------------------------------------------------
(* Schedules.                                                              *)

\* admitSchedule creates the record, exclusively.
Admit(p, s, d) ==
    /\ Begin(p, "admit")
    /\ record[s] = None
    /\ record' = [record EXCEPT ![s] = d]
    /\ at' = [at EXCEPT ![p] = [Idle EXCEPT !.pc = "register", !.s = s, !.value = d]]
    /\ UNCHANGED <<revocation, proposal, ledger, daemonVars, ticks, refused, crashes, mix>>

\* scheduleAppendGuard, inside the ledger's lock.
MayRegister(s, d) == ~Spent(d) /\ ~Registered(s, Len(ledger))
MayRevoke(s, d) == ~Spent(d) /\ Registered(s, Len(ledger)) /\ ~Revoked(s, Len(ledger))

\* Bug: the record stays when the guard refuses.
Bug_RecordKept(p) ==
    /\ At(p, "register")
    /\ \/ /\ MayRegister(at[p].s, at[p].value)
          /\ ledger' = Append(ledger, Event("registered", at[p].s, at[p].value, p))
       \/ ~MayRegister(at[p].s, at[p].value) /\ UNCHANGED ledger
    /\ Leave(p)
    /\ UNCHANGED <<scheduleVars, daemonVars, counters>>

\* The witness is appended, or the record is taken back.
Register(p) ==
    /\ At(p, "register")
    /\ \/ /\ MayRegister(at[p].s, at[p].value)
          /\ ledger' = Append(ledger, Event("registered", at[p].s, at[p].value, p))
          /\ UNCHANGED <<record, refused>>
       \/ /\ IF MayRegister(at[p].s, at[p].value)
             THEN refused < MaxRefused /\ refused' = refused + 1
             ELSE UNCHANGED refused
          /\ record' = [record EXCEPT ![at[p].s] = None]
          /\ UNCHANGED ledger
    /\ Leave(p)
    /\ UNCHANGED <<revocation, proposal, daemonVars, calls, ticks, crashes, mix>>

\* revokeSchedule.
Revoke(p, s, d) ==
    /\ Begin(p, "revoke")
    /\ record[s] # None /\ Witnessed(s, Len(ledger)) /\ ~Revoked(s, Len(ledger))
    /\ ~revocation[s]
    /\ revocation' = [revocation EXCEPT ![s] = TRUE]
    /\ at' = [at EXCEPT ![p] = [Idle EXCEPT !.pc = "revoke", !.s = s, !.value = d]]
    /\ UNCHANGED <<record, proposal, ledger, daemonVars, ticks, refused, crashes, mix>>

AppendRevocation(p) ==
    /\ At(p, "revoke")
    /\ \/ /\ MayRevoke(at[p].s, at[p].value)
          /\ ledger' = Append(ledger, Event("revoked", at[p].s, at[p].value, p))
          /\ UNCHANGED <<revocation, refused>>
       \/ /\ IF MayRevoke(at[p].s, at[p].value)
             THEN refused < MaxRefused /\ refused' = refused + 1
             ELSE UNCHANGED refused
          /\ revocation' = [revocation EXCEPT ![at[p].s] = FALSE]
          /\ UNCHANGED ledger
    /\ Leave(p)
    /\ UNCHANGED <<record, proposal, daemonVars, calls, ticks, crashes, mix>>

---------------------------------------------------------------------------
(* Ticks, of a command or of a worker.                                     *)

\* tickRuntime reads the ledger and then the records.
Ticking(a) == at' = [at EXCEPT ![a] = [Idle EXCEPT !.pc = "list", !.view = Len(ledger)]]

Tick(p) ==
    /\ Begin(p, "tick")
    /\ Ticking(p)
    /\ UNCHANGED <<scheduleVars, ledger, daemonVars, ticks, refused, crashes, mix>>

\* allScheduleRecords throws on a record without its witness.
ListSchedules(a) ==
    /\ At(a, "list")
    /\ IF \E s \in Schedule : record[s] # None /\ ~Witnessed(s, at[a].view)
       THEN Leave(a)
       ELSE at' = [at EXCEPT ![a].pc = "next",
                             ![a].todo = {s \in Schedule : record[s] # None}, ![a].view = 0]
    /\ UNCHANGED <<scheduleVars, ledger, daemonVars, counters>>

Done(a) == [Idle EXCEPT !.pc = "next", !.todo = at[a].todo]

\* A schedule's turn, with a fresh reading of the ledger.
Turn(a, s, pc) ==
    at' = [at EXCEPT ![a].pc = pc, ![a].s = s, ![a].view = Len(ledger), ![a].todo = @ \ {s}]

\* One that has ended is skipped, and so is one that is out of its window or
\* not due.
NextSchedule(a) ==
    /\ At(a, "next") /\ at[a].todo # {}
    /\ LET s == CHOOSE s \in at[a].todo : \A t \in at[a].todo : s <= t
           n == Len(ledger)
       IN \/ at' = [at EXCEPT ![a].todo = @ \ {s}]
          \/ ~Ended(s, n) /\ Exhausted(Runs(s, n), Proposals(s, n)) /\ Turn(a, s, "stop")
          \/ ~Ended(s, n) /\ ~Exhausted(Runs(s, n), Proposals(s, n)) /\ Turn(a, s, "job")
    /\ UNCHANGED <<scheduleVars, ledger, daemonVars, counters>>

\* proposalRecord: an output is proposed once, by the schedule that found it.
\* The job may throw, or find a proposal that is still being written.
RunJob(a) ==
    /\ At(a, "job")
    /\ \E out \in Output :
        LET created == out \notin Clean /\ proposal[out] = None IN
        \/ Goto(a, "fail") /\ UNCHANGED proposal
        \/ /\ out \in Clean \/ proposal[out] \in {None, at[a].s}
           /\ at' = [at EXCEPT ![a].pc = "complete", ![a].value = out, ![a].created = created]
           /\ proposal' = IF created THEN [proposal EXCEPT ![out] = at[a].s] ELSE proposal
    /\ UNCHANGED <<record, revocation, ledger, daemonVars, counters>>

FailJob(a) ==
    /\ At(a, "fail")
    /\ Emit(Event("failed", at[a].s, None, a))
    /\ at' = [at EXCEPT ![a] = Done(a)]
    /\ UNCHANGED <<scheduleVars, daemonVars, calls, ticks, crashes, mix>>

\* The run is recorded, and whether it was the last one is judged by what was
\* read before it.
CompleteJob(a) ==
    /\ At(a, "complete")
    /\ Emit(Event("completed", at[a].s, at[a].value, a))
    /\ LET s == at[a].s
           n == at[a].view
           proposals == Proposals(s, n) + (IF at[a].created THEN 1 ELSE 0)
           last == LastOutput(s, n) = at[a].value \/ Exhausted(Runs(s, n) + 1, proposals)
       IN at' = [at EXCEPT ![a] = IF last THEN [Done(a) EXCEPT !.pc = "stop", !.s = s] ELSE Done(a)]
    /\ UNCHANGED <<scheduleVars, daemonVars, calls, ticks, crashes, mix>>

\* runtime.budget.stopped or runtime.no-progress.stopped.
StopSchedule(a) ==
    /\ At(a, "stop")
    /\ Emit(Event("stopped", at[a].s, None, a))
    /\ at' = [at EXCEPT ![a] = Done(a)]
    /\ UNCHANGED <<scheduleVars, daemonVars, calls, ticks, crashes, mix>>

EndTick(a) ==
    /\ At(a, "next") /\ at[a].todo = {}
    /\ at' = [at EXCEPT ![a] = IF a \in Worker THEN [Idle EXCEPT !.pc = "loop"] ELSE Idle]
    /\ UNCHANGED <<scheduleVars, ledger, daemonVars, counters>>

---------------------------------------------------------------------------
(* amber runtime daemon start.                                             *)

\* Bug: the process that daemon.json names is not looked for.
Bug_StartUnchecked(p) ==
    /\ Begin(p, "start")
    /\ ~startLock
    /\ daemon # Torn
    /\ startLock' = TRUE
    /\ daemon' = None
    /\ Goto(p, "fence")
    /\ UNCHANGED <<scheduleVars, ledger, fence, signalled, stray, cut, ticks, refused, crashes, mix>>

\* Under the start lock: a daemon that runs refuses the command, and the file
\* of one that is gone is removed.
Start(p) ==
    /\ Begin(p, "start")
    /\ ~startLock
    /\ daemon # Torn
    /\ daemon # None => ~Alive(daemon)
    /\ startLock' = TRUE
    /\ daemon' = None
    /\ Goto(p, "fence")
    /\ UNCHANGED <<scheduleVars, ledger, fence, signalled, stray, cut, ticks, refused, crashes, mix>>

\* nextFence, under its path lock.
NextFence(p) ==
    /\ At(p, "fence") /\ fence < MaxStarts
    /\ fence' = fence + 1
    /\ at' = [at EXCEPT ![p].pc = "spawn", ![p].seen = fence']
    /\ UNCHANGED <<scheduleVars, ledger, daemon, startLock, signalled, stray, cut, counters>>

\* Its path lock is refused, or fence.json is malformed: the command ends with
\* the stale daemon.json removed.
RefuseFence(p) ==
    /\ At(p, "fence")
    /\ refused < MaxRefused /\ refused' = refused + 1
    /\ startLock' = FALSE
    /\ Leave(p)
    /\ UNCHANGED <<scheduleVars, ledger, daemon, fence, signalled, stray, cut, calls, ticks, crashes, mix>>

Spawn(p) ==
    /\ At(p, "spawn")
    /\ at' = [at EXCEPT ![p].pc = "create", ![at[p].seen] = [Idle EXCEPT !.pc = "waiting"]]
    /\ UNCHANGED <<scheduleVars, ledger, daemonVars, counters>>

\* writeFileSync opens daemon.json and then writes it.
CreateState(p) ==
    /\ At(p, "create")
    /\ daemon' = Torn
    /\ Goto(p, "fill")
    /\ UNCHANGED <<scheduleVars, ledger, startLock, fence, signalled, stray, cut, counters>>

\* What is written into a file that a stop has removed is gone.
FillState(p) ==
    /\ At(p, "fill")
    /\ daemon' = IF daemon = Torn THEN at[p].seen ELSE daemon
    /\ Goto(p, "release")
    /\ UNCHANGED <<scheduleVars, ledger, startLock, fence, signalled, stray, cut, counters>>

ReleaseStart(p) ==
    /\ At(p, "release")
    /\ startLock' = FALSE
    /\ Leave(p)
    /\ UNCHANGED <<scheduleVars, ledger, daemon, fence, signalled, stray, cut, counters>>

---------------------------------------------------------------------------
(* amber runtime daemon stop, which takes no lock.                         *)

Stop(p) ==
    /\ Begin(p, "stop")
    /\ daemon \in Worker
    /\ signalled' = IF Alive(daemon) THEN signalled \cup {daemon} ELSE signalled
    /\ at' = [at EXCEPT ![p] = [Idle EXCEPT !.pc = "stopping", !.seen = daemon]]
    /\ UNCHANGED <<scheduleVars, ledger, daemon, startLock, fence, stray, cut, ticks, refused, crashes, mix>>

\* The worker is gone, or it did not stop within five seconds.
RemoveState(p) ==
    /\ At(p, "stopping")
    /\ ~Alive(at[p].seen)
    /\ daemon' = None
    /\ stray' = (stray \/ daemon \notin {None, at[p].seen})
    /\ Leave(p)
    /\ UNCHANGED <<scheduleVars, ledger, startLock, fence, signalled, cut, counters>>

GiveUp(p) ==
    /\ At(p, "stopping")
    /\ Alive(at[p].seen)
    /\ Leave(p)
    /\ UNCHANGED <<scheduleVars, ledger, daemonVars, counters>>

---------------------------------------------------------------------------
(* runDaemonWorker.                                                        *)

Owns(w) == daemon = w

\* It waits for daemon.json to name it, for two seconds; a torn file throws.
Establish(w) ==
    /\ At(w, "waiting")
    /\ IF Owns(w) THEN Goto(w, "loop") ELSE Leave(w)
    /\ UNCHANGED <<scheduleVars, ledger, daemonVars, counters>>

WorkerTick(w) ==
    /\ At(w, "loop")
    /\ Owns(w) /\ w \notin signalled
    /\ ticks < mix.ticks /\ ticks' = ticks + 1
    /\ Ticking(w)
    /\ UNCHANGED <<scheduleVars, ledger, daemonVars, calls, refused, crashes, mix>>

\* Bug: its ownership is tested once, when it starts.
Bug_OnlySignals(w) ==
    /\ At(w, "loop")
    /\ w \in signalled
    /\ Leave(w)
    /\ UNCHANGED <<scheduleVars, ledger, daemonVars, counters>>

\* Signalled, or no longer the one that daemon.json names.
WorkerEnds(w) ==
    /\ At(w, "loop")
    /\ w \in signalled \/ ~Owns(w)
    /\ Leave(w)
    /\ UNCHANGED <<scheduleVars, ledger, daemonVars, counters>>

---------------------------------------------------------------------------
\* A caller or a worker dies; a start lock stays where it is.
Crash(a) ==
    /\ at[a].pc \notin {"idle", "dead"}
    /\ crashes < mix.crashes /\ crashes' = crashes + 1
    /\ cut' = IF At(a, "register") THEN cut \cup {at[a].s} ELSE cut
    /\ Leave(a)
    /\ UNCHANGED <<scheduleVars, ledger, daemon, startLock, fence, signalled, stray, calls, ticks,
                   refused, mix>>

Init ==
    /\ record = [s \in Schedule |-> None] /\ revocation = [s \in Schedule |-> FALSE]
    /\ ledger = << >> /\ proposal = [out \in Output |-> None]
    /\ daemon = None /\ startLock = FALSE /\ fence = 0 /\ signalled = {} /\ stray = FALSE /\ cut = {}
    /\ at = [a \in Actor |-> IF a \in Worker THEN Dead ELSE Idle]
    /\ mix \in Mixes
    /\ calls = 0 /\ ticks = 0 /\ refused = 0 /\ crashes = 0

Command(p) ==
    \/ \E s \in Schedule, d \in Decision : Admit(p, s, d) \/ Revoke(p, s, d)
    \/ Tick(p) \/ Start(p) \/ Stop(p)
TickStep(a) ==
    \/ ListSchedules(a) \/ NextSchedule(a) \/ RunJob(a) \/ FailJob(a) \/ CompleteJob(a)
    \/ StopSchedule(a) \/ EndTick(a)
CommandStep(p) ==
    \/ Register(p) \/ AppendRevocation(p)
    \/ NextFence(p) \/ RefuseFence(p) \/ Spawn(p) \/ CreateState(p) \/ FillState(p) \/ ReleaseStart(p)
    \/ RemoveState(p) \/ GiveUp(p)
WorkerStep(w) == Establish(w) \/ WorkerTick(w) \/ WorkerEnds(w)

Next ==
    \/ \E p \in Caller : Command(p) \/ CommandStep(p)
    \/ \E w \in Worker : WorkerStep(w)
    \/ \E a \in Actor : TickStep(a) \/ Crash(a)

Spec == Init /\ [][Next]_vars

\* A worker that is running goes on running.
Fairness == \A w \in Worker : WF_vars(TickStep(w)) /\ WF_vars(Establish(w) \/ WorkerEnds(w))
FairSpec == Spec /\ Fairness

---------------------------------------------------------------------------
\* "A record must never survive without its ledger witness" (admitSchedule),
\* whoever else admits the schedule or spends its Decision at the same time:
\* one that has none is being admitted, or a crash cut its admission short.
RecordHasWitness ==
    \A s \in Schedule : record[s] # None /\ ~Witnessed(s, Len(ledger)) =>
        s \in cut \/ \E p \in Caller : At(p, "register") /\ at[p].s = s

\* Once a schedule is stopped or revoked, or its runs are spent, a process
\* records at most the one run it had begun (tickRuntime reads the ledger anew
\* for each schedule): the budget is exceeded by ticks that overlap, no more.
EndStopsRuns ==
    \A s \in Schedule : \A i \in Of({"revoked", "stopped", "completed", "failed"}, s, Len(ledger)) :
        ledger[i].kind \in {"revoked", "stopped"} \/ Runs(s, i) >= MaxRuns =>
            \A a \in Actor : Cardinality({j \in Of({"completed", "failed"}, s, Len(ledger)) :
                                            j > i /\ ledger[j].by = a}) <= 1

\* One worker ticks at a time (the start lock, the liveness test, and the
\* worker's own test of its ownership before each tick), unless a stop has
\* removed a daemon.json other than the one it read.
InTick(w) == at[w].pc \in {"list", "next", "job", "fail", "complete", "stop"}
OneWorkerTicks == stray \/ \A v, w \in Worker : InTick(v) /\ InTick(w) => v = w

\* A worker that daemon.json does not name ends, whatever it was doing (the
\* test at the head of the worker's loop), or is named again.
OrphanEnds ==
    \A w \in Worker : (Alive(w) /\ daemon # w) ~> (~Alive(w) \/ daemon = w)
=============================================================================
