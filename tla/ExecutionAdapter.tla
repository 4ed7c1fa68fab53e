-------------------------- MODULE ExecutionAdapter --------------------------
(***************************************************************************)
(* The prepared execution of one run (harness/execution-adapter.js):       *)
(* prepare a workspace, run a governed command in it, evaluate what was    *)
(* observed against the declared boundary, release the workspace.  Beside  *)
(* them captureCheckpoint (harness/checkpoint-core.js).                    *)
(*                                                                         *)
(* These operations keep records of their own, executions/<id>.json and    *)
(* checkpoints/<id>/, and rewrite the run's record beside the transitions  *)
(* and attempts of HarnessRun, but only those take the run's lock.         *)
(***************************************************************************)
EXTENDS HarnessRun

CONSTANT
    Instances   \* the environments a behaviour may have, by the fields below

ASSUME InstancesAssumption ==
    Instances \subseteq
        [solo : BOOLEAN,        \* one process makes all the calls
         worktree : BOOLEAN,    \* workspace.type: a git worktree, or a local scratch root
         prepared : BOOLEAN,    \* the behaviour starts after prepareExecution
         operations : SUBSET {"prepare", "evaluate", "run", "release", "checkpoint"},
         calls : 0..MaxCalls,   \* bounds: calls of a process; crashes and refused appends
         faults : Nat]

VARIABLES
    instance,       \* the environment of this behaviour
    exec,           \* executions/<id>.json
    checkpoints,    \* checkpoints/<id>/: what each file binds
    workspace,      \* what is on disk, and whether a command wrote outside
    task            \* task[p]: the operation p is in, and its locals

execVars == <<instance, exec, checkpoints, workspace, task>>
adapterVars == <<harnessVars, execVars>>

---------------------------------------------------------------------------
(* Values.                                                                 *)

\* An observed entry: in bounds, outside the declared write prefixes, or
\* claiming more enforcement than the provider has.
Observation == {"clean", "outside", "overclaim"}

compareBoundaries(trail) ==
    IF "outside" \in trail THEN "violation"
    ELSE IF "overclaim" \in trail \/ trail = {} THEN "unevaluated"
    ELSE "ok"

ExecutionRecord == [trail : SUBSET Observation, verdict : Verdict \cup {"none"}, released : BOOLEAN]

NewExecution == [trail |-> {}, verdict |-> "none", released |-> FALSE]

Workspace == {"none", "clean", "outside", "removed"}
OnDisk == workspace \in {"clean", "outside"}

NoTask == [name |-> "none", entry |-> "clean", record |-> NewExecution,
           previous |-> "none", attempt |-> Absent, outcome |-> "failed", mark |-> Absent]

RUN_EXECUTABLE_STATES == {"created", "admitted", "running", "paused"}

Executable(record) == StateOf(record) \in RUN_EXECUTABLE_STATES

---------------------------------------------------------------------------

\* What only a checkpoint changes.
restVars == <<instance, checkpoints>>

\* Nothing of HarnessRun but the control state changes.
Quiet == UNCHANGED <<lockVars, files, alive, op, copy, counters>>

\* The operation throws or returns.
Done(p, outcome) ==
    /\ Return(p, outcome, "idle")
    /\ task' = [task EXCEPT ![p] = NoTask]

Proceed(p, step) == Goto(p, step) /\ UNCHANGED result

\* What reading executions/<id>.json may return to p.
ExecWriting(q) == alive[q] /\ pc[q] \in {"prepareWrite", "evaluateWrite", "releaseWrite"}
ExecReads(p) == {exec} \cup {Corrupt : q \in {w \in Proc \ {p} : ExecWriting(w)}}

\* Why readExecutionRecord, or the released check the three operations begin
\* with, throws; or "none".
Unusable(record) ==
    IF record = Absent THEN "notFound"
    ELSE IF record = Corrupt THEN "corrupt"
    ELSE IF record.released THEN "alreadyReleased"
    ELSE "none"

FirstStep == [prepare |-> "prepare", evaluate |-> "evaluate", run |-> "runRecord",
              release |-> "release", checkpoint |-> "checkpoint"]

MayCall(p) ==
    /\ calls[p] < instance.calls
    /\ instance.solo => \A q \in Proc \ {p} : calls[q] = 0

BeginExecution(p) ==
    /\ At(p, "idle")
    /\ MayCall(p)
    /\ calls' = [calls EXCEPT ![p] = @ + 1]
    /\ result' = [result EXCEPT ![p] = "none"]
    /\ \E name \in instance.operations : \E entry \in Observation :
        /\ name # "evaluate" => entry = "clean"
        /\ task' = [task EXCEPT ![p] = [NoTask EXCEPT !.name = name, !.entry = entry]]
        /\ Goto(p, FirstStep[name])
    /\ UNCHANGED <<lockVars, files, alive, op, copy, crashes, refused, instance, exec,
                   checkpoints, workspace>>

---------------------------------------------------------------------------
(* prepareExecution.                                                       *)

PrepareCheck(p) ==
    /\ At(p, "prepare")
    /\ IF exec # Absent THEN Done(p, "alreadyPrepared")
       ELSE Proceed(p, "prepareWorkspace") /\ UNCHANGED task
    /\ Quiet /\ UNCHANGED <<exec, workspace>>

\* `git worktree add -b` fails when its branch or directory was ever made.
PrepareWorkspace(p) ==
    /\ At(p, "prepareWorkspace")
    /\ IF instance.worktree /\ workspace # "none"
       THEN Done(p, "prepareFailed") /\ UNCHANGED workspace
       ELSE /\ workspace' = IF OnDisk THEN workspace ELSE "clean"
            /\ Proceed(p, "prepareWrite")
            /\ UNCHANGED task
    /\ Quiet /\ UNCHANGED <<exec>>

PrepareWrite(p) ==
    /\ At(p, "prepareWrite")
    /\ exec' = NewExecution
    /\ Done(p, "ok")
    /\ Quiet /\ UNCHANGED <<workspace>>

---------------------------------------------------------------------------
(* evaluateExecution, called by itself or at the end of a command.         *)

\* The comparison is recomputed over the full trail.
Compared(record, entry) ==
    LET trail == record.trail \cup {entry}
    IN [record EXCEPT !.trail = trail, !.verdict = compareBoundaries(trail)]

EvaluateRead(p) ==
    /\ At(p, "evaluate")
    /\ \E record \in ExecReads(p) :
        IF Unusable(record) # "none" THEN Done(p, Unusable(record))
        ELSE /\ task' = [task EXCEPT ![p].record = Compared(record, task[p].entry),
                                     ![p].previous = record.verdict]
             /\ Proceed(p, "evaluateWrite")
    /\ Quiet /\ UNCHANGED <<exec, workspace>>

EvaluateWrite(p) ==
    /\ At(p, "evaluateWrite")
    /\ exec' = task[p].record
    /\ Proceed(p, "evaluateRun")
    /\ Quiet /\ UNCHANGED <<task, workspace>>

\* getRun, without the run's lock.
EvaluateRun(p) ==
    /\ At(p, "evaluateRun")
    /\ \E record \in Reads(p) :
        IF record \in {Absent, Corrupt} THEN Done(p, "corrupt") /\ UNCHANGED copy
        ELSE /\ copy' = [copy EXCEPT ![p] = [record EXCEPT !.execution =
                    [verdict |-> task[p].record.verdict, released |-> record.execution.released]]]
             /\ Proceed(p, "putEvaluation")
             /\ UNCHANGED task
    /\ UNCHANGED <<lockVars, files, alive, op, counters, exec, workspace>>

NewViolation(p) ==
    task[p].record.verdict = "violation" /\ task[p].previous # "violation"

PutEvaluation(p) ==
    /\ At(p, "putEvaluation")
    /\ run' = copy[p]
    /\ Proceed(p, IF NewViolation(p) THEN "violation" ELSE "evaluated")
    /\ UNCHANGED <<lockVars, attempts, events, alive, op, copy, counters, execVars>>

\* A mutant: only a running run is stopped.
Bug_StopsOnlyRunning(state) == IF state = "running" THEN "blocked" ELSE "none"

StopFor(state) ==
    IF state = "running" THEN "blocked"
    ELSE IF state \in Lifecycle!FinalStates \cup {"blocked"} THEN "none"
    ELSE "cancelled"

\* BLOCK posture: the event, and a transition chosen by the state that was read.
\* What transitionRun throws is swallowed.
EmitViolation(p) ==
    /\ At(p, "violation")
    /\ AppendEvent("execution.failed")
    /\ LET to == StopFor(StateOf(copy[p])) IN
        IF to = "none" THEN Goto(p, "evaluated") /\ UNCHANGED op
        ELSE Start(p, Transition(to, TRUE), "evaluated")
    /\ UNCHANGED <<lockVars, run, attempts, alive, copy, result, calls, crashes, execVars>>

\* runPreparedExecution goes on to settle its attempt.
Evaluated(p) ==
    /\ At(p, "evaluated")
    /\ IF task[p].name = "run"
       THEN /\ Start(p, Record(task[p].attempt, task[p].outcome), "outcome")
            /\ UNCHANGED <<result, task, copy>>
       ELSE Done(p, "ok") /\ Forget(p)
    /\ UNCHANGED <<lockVars, files, alive, counters, exec, workspace>>

---------------------------------------------------------------------------
(* runPreparedExecution.                                                   *)

RunRecordCheck(p) ==
    /\ At(p, "runRecord")
    /\ \E record \in ExecReads(p) :
        IF Unusable(record) # "none" THEN Done(p, Unusable(record))
        ELSE Proceed(p, "runCheck") /\ UNCHANGED task
    /\ Quiet /\ UNCHANGED <<exec, workspace>>

\* The run's state and the workspace are looked at once, before the attempt.
RunCheck(p) ==
    /\ At(p, "runCheck")
    /\ \E record \in Reads(p) :
        IF record \in {Absent, Corrupt} THEN Done(p, "corrupt") /\ UNCHANGED op
        ELSE IF ~Executable(record)
             THEN Done(p, "runTerminal") /\ UNCHANGED op
        ELSE IF ~OnDisk THEN Done(p, "prepareFailed") /\ UNCHANGED op
        ELSE \E id \in Attempt \ (Recorded \cup {task[q].attempt : q \in Proc}) :
                /\ task' = [task EXCEPT ![p].attempt = id]
                /\ Start(p, Record(id, "running"), "started")
                /\ UNCHANGED result
    /\ UNCHANGED <<lockVars, files, alive, copy, counters, exec, workspace>>

\* recordAttempt throws through its caller.
Settled(p) == result[p] = "ok"
Throws(p) == ~Settled(p) /\ Done(p, result[p]) /\ UNCHANGED <<events, refused>>

Started(p) ==
    /\ At(p, "started")
    /\ \/ Throws(p)
       \/ /\ Settled(p)
          /\ AppendEvent("execution.started")
          /\ Proceed(p, "command")
          /\ UNCHANGED task
    /\ UNCHANGED <<lockVars, run, attempts, alive, op, copy, calls, crashes, exec, workspace>>

\* runGovernedCommand: a gate refuses, or the command takes effect.
CommandRefused(p) ==
    /\ At(p, "command")
    /\ Start(p, Record(task[p].attempt, "refused"), "refused")
    /\ UNCHANGED <<lockVars, files, alive, copy, result, counters, execVars>>

CommandRuns(p) ==
    /\ At(p, "command")
    /\ OnDisk
    /\ workspace' \in {workspace, "outside"}
    /\ \E outcome \in {"completed", "failed"} :
        task' = [task EXCEPT ![p].outcome = outcome]
    /\ Proceed(p, "observe")
    /\ Quiet /\ UNCHANGED <<exec>>

RefusedEmit(p) ==
    /\ At(p, "refused")
    /\ \/ Throws(p)
       \/ /\ Settled(p)
          /\ AppendEvent("execution.failed")
          /\ Done(p, "refused")
    /\ UNCHANGED <<lockVars, run, attempts, alive, op, copy, calls, crashes, exec, workspace>>

\* observePreparedWorkspace: a workspace that is gone has no dirty paths.
Observe(p) ==
    /\ At(p, "observe")
    /\ task' = [task EXCEPT ![p].entry = IF workspace = "outside" THEN "outside" ELSE "clean"]
    /\ Proceed(p, "evaluate")
    /\ Quiet /\ UNCHANGED <<exec, workspace>>

Outcome(p) ==
    /\ At(p, "outcome")
    /\ \/ Throws(p)
       \/ /\ Settled(p)
          /\ AppendEvent(IF task[p].outcome = "completed" THEN "execution.completed"
                         ELSE "execution.failed")
          /\ Done(p, "ok")
    /\ UNCHANGED <<lockVars, run, attempts, alive, op, copy, calls, crashes, exec, workspace>>

---------------------------------------------------------------------------
(* releaseExecution.                                                       *)

ReleaseRead(p) ==
    /\ At(p, "release")
    /\ \E record \in ExecReads(p) :
        IF Unusable(record) # "none" THEN Done(p, Unusable(record))
        ELSE /\ task' = [task EXCEPT ![p].record = [record EXCEPT !.released = TRUE]]
             /\ Proceed(p, "releaseWorkspace")
    /\ Quiet /\ UNCHANGED <<exec, workspace>>

\* removeWorktree fails when there is nothing to remove; rmSync does not.
ReleaseWorkspace(p) ==
    /\ At(p, "releaseWorkspace")
    /\ IF instance.worktree /\ ~OnDisk
       THEN Done(p, "prepareFailed") /\ UNCHANGED workspace
       ELSE /\ workspace' = "removed"
            /\ Proceed(p, "releaseWrite")
            /\ UNCHANGED task
    /\ Quiet /\ UNCHANGED exec

ReleaseWrite(p) ==
    /\ At(p, "releaseWrite")
    /\ exec' = task[p].record
    /\ Proceed(p, "releaseRun")
    /\ Quiet /\ UNCHANGED <<task, workspace>>

\* getRun, without the run's lock; what it throws is swallowed.
ReleaseRun(p) ==
    /\ At(p, "releaseRun")
    /\ \E record \in Reads(p) :
        IF record \in {Absent, Corrupt} \/ (record # Absent /\ record.execution = NoView)
        THEN Done(p, "ok") /\ UNCHANGED copy
        ELSE /\ copy' = [copy EXCEPT ![p] = [record EXCEPT !.execution.released = TRUE]]
             /\ Proceed(p, "putRelease")
             /\ UNCHANGED task
    /\ UNCHANGED <<lockVars, files, alive, op, counters, exec, workspace>>

PutRelease(p) ==
    /\ At(p, "putRelease")
    /\ run' = copy[p]
    /\ Forget(p)
    /\ Done(p, "ok")
    /\ UNCHANGED <<lockVars, attempts, events, alive, counters, exec, workspace>>

---------------------------------------------------------------------------
(* captureCheckpoint, which takes no lock.                                 *)

\* What listCheckpoints of p may find: a file being written does not parse.
Marking(q) == alive[q] /\ pc[q] = "checkpointWrite"
ListThrows(p) == Corrupt \in checkpoints
ListMayThrow(p) == ListThrows(p) \/ \E q \in Proc \ {p} : Marking(q)

\* getRun, which refuses a final run.
CheckpointRead(p) ==
    /\ At(p, "checkpoint")
    /\ \E record \in Reads(p) :
        IF record \in {Absent, Corrupt} THEN Done(p, "corrupt")
        ELSE IF Lifecycle!isFinal(StateOf(record)) THEN Done(p, "final")
        ELSE /\ task' = [task EXCEPT ![p].mark = StateOf(record)]
             /\ Proceed(p, "checkpointRefs")
    /\ Quiet /\ UNCHANGED <<restVars, exec, workspace>>

\* The digests, of the run's record as it is now, and the attempts; the file's
\* name is the hash of all of it, so an unchanged run has its checkpoint already.
CheckpointRefs(p) ==
    /\ At(p, "checkpointRefs")
    /\ \E record \in Reads(p) :
        IF record \in {Absent, Corrupt} \/ Corrupt \in {attempts[id] : id \in Attempt}
        THEN Done(p, "corrupt")
        ELSE LET mark == [state |-> task[p].mark, run |-> record, execution |-> exec,
                          attempts |-> Cardinality(Recorded)]
             IN \/ mark \in checkpoints /\ Done(p, "ok")
                \/ ListMayThrow(p) /\ Done(p, "corrupt")
                \/ /\ mark \notin checkpoints
                   /\ task' = [task EXCEPT ![p].mark = mark]
                   /\ Proceed(p, "checkpointWrite")
    /\ Quiet /\ UNCHANGED <<restVars, exec, workspace>>

CheckpointWrite(p) ==
    /\ At(p, "checkpointWrite")
    /\ checkpoints' = checkpoints \cup {task[p].mark}
    /\ Proceed(p, "checkpointRun")
    /\ Quiet /\ UNCHANGED <<instance, task, exec, workspace>>

\* refreshCheckpointSummary: the list, then the run again.  The summary itself is
\* left out of the model's record, as the digests leave it out.
CheckpointRun(p) ==
    /\ At(p, "checkpointRun")
    /\ \/ ListMayThrow(p) /\ Done(p, "corrupt") /\ UNCHANGED copy
       \/ /\ ~ListThrows(p)
          /\ \E record \in Reads(p) :
              IF record \in {Absent, Corrupt} THEN Done(p, "corrupt") /\ UNCHANGED copy
              ELSE /\ copy' = [copy EXCEPT ![p] = record]
                   /\ Proceed(p, "putCheckpoint")
                   /\ UNCHANGED task
    /\ UNCHANGED <<lockVars, files, alive, op, counters, restVars, exec, workspace>>

PutCheckpoint(p) ==
    /\ At(p, "putCheckpoint")
    /\ run' = copy[p]
    /\ Forget(p)
    /\ Done(p, "ok")
    /\ UNCHANGED <<lockVars, attempts, events, alive, counters, restVars, exec, workspace>>

---------------------------------------------------------------------------

HarnessStep(p) == ((Begin(p) /\ MayCall(p)) \/ Step(p)) /\ UNCHANGED execVars

\* A crash may also cut the execution record or a checkpoint short.
CrashExecution(p) ==
    /\ Crash(p)
    /\ exec' \in IF ~ExecWriting(p) THEN {exec}
                 ELSE {exec, Corrupt, IF pc[p] = "prepareWrite" THEN NewExecution
                                      ELSE task[p].record}
    /\ checkpoints' \in {checkpoints} \cup
            (IF Marking(p) THEN {checkpoints \cup {x} : x \in {task[p].mark, Corrupt}} ELSE {})
    /\ UNCHANGED <<instance, workspace, task>>

\* createRun and the transitions to running have returned.
StartedRun == [NewRun EXCEPT !.history = <<"created", "admitted", "running">>]

ExecutionInit ==
    /\ holder = {} /\ orphan = FALSE
    /\ run = StartedRun
    /\ attempts = [id \in Attempt |-> Absent]
    /\ events = EventsOf(StartedRun.history)
    /\ alive = [p \in Proc |-> TRUE]
    /\ pc = [p \in Proc |-> "idle"]
    /\ op = [p \in Proc |-> NoCall]
    /\ copy = [p \in Proc |-> NewRun]
    /\ result = [p \in Proc |-> "none"]
    /\ calls = [p \in Proc |-> 0]
    /\ crashes = 0 /\ refused = 0
    /\ instance \in Instances
    /\ exec = IF instance.prepared THEN NewExecution ELSE Absent
    /\ checkpoints = {}
    /\ workspace = IF instance.prepared THEN "clean" ELSE "none"
    /\ task = [p \in Proc |-> NoTask]

ExecutionStep(p) ==
    \/ PrepareCheck(p) \/ PrepareWorkspace(p) \/ PrepareWrite(p)
    \/ EvaluateRead(p) \/ EvaluateWrite(p) \/ EvaluateRun(p) \/ PutEvaluation(p)
    \/ EmitViolation(p) \/ Evaluated(p)
    \/ RunRecordCheck(p) \/ RunCheck(p) \/ Started(p) \/ CommandRefused(p) \/ CommandRuns(p)
    \/ RefusedEmit(p) \/ Observe(p) \/ Outcome(p)
    \/ ReleaseRead(p) \/ ReleaseWorkspace(p) \/ ReleaseWrite(p) \/ ReleaseRun(p) \/ PutRelease(p)

CheckpointStep(p) ==
    CheckpointRead(p) \/ CheckpointRefs(p) \/ CheckpointWrite(p) \/ CheckpointRun(p)
        \/ PutCheckpoint(p)

ExecutionNext ==
    /\ \/ \E p \in Proc : HarnessStep(p) \/ BeginExecution(p) \/ CheckpointStep(p)
                            \/ CrashExecution(p)
       \/ \E p \in Proc : ExecutionStep(p) /\ UNCHANGED restVars
       \/ Reclaim /\ UNCHANGED execVars
    /\ crashes' + refused' <= instance.faults

ExecutionSpec == ExecutionInit /\ [][ExecutionNext]_adapterVars

---------------------------------------------------------------------------
(* Properties.                                                             *)

ExecSteps == {"prepare", "prepareWorkspace", "prepareWrite", "evaluate", "evaluateWrite",
              "evaluateRun", "putEvaluation", "violation", "evaluated", "runRecord",
              "runCheck", "started", "command", "refused", "observe", "outcome", "release",
              "releaseWorkspace", "releaseWrite", "releaseRun", "putRelease", "checkpoint",
              "checkpointRefs", "checkpointWrite", "checkpointRun", "putCheckpoint"}

ExecutionTypeOK ==
    /\ Lock!TypeOK
    /\ run \in RunRecord \cup {Absent, Corrupt}
    /\ attempts \in [Attempt -> AttemptState \cup {Absent, Corrupt}]
    /\ events \in Seq(RunEvent \cup ExecutionEvent)
    /\ pc \in [Proc -> Steps \cup ExecSteps]
    /\ copy \in [Proc -> RunRecord]
    /\ exec \in ExecutionRecord \cup {Absent, Corrupt}
    /\ workspace \in Workspace

\* "Terminal records are immutable": nothing moves a run out of a final state.
FinalIsForever ==
    [][(~Unreadable /\ run' \notin {Absent, Corrupt} /\ Lifecycle!isFinal(StateOf(run))) =>
        StateOf(run') = StateOf(run)]_adapterVars

\* "The run must not march past a violated boundary": the evaluation that finds it
\* violated first leaves the run in no state a command may start from.
NewViolationStopsRun ==
    [][\A p \in Proc :
        (instance.solo /\ pc[p] = "evaluated" /\ NewViolation(p) /\ ~Unreadable) =>
            (pc'[p] = "evaluated" \/ StateOf(run) \notin RUN_EXECUTABLE_STATES)]_adapterVars

=============================================================================
