---------------------------- MODULE SessionStages ----------------------------
(***************************************************************************)
(* A session and the verb stages of its route                              *)
(* (scripts/lib/session-stage-runner.js, session-commands.js), and the web *)
(* console that edits the same manifest (apps/web/server).                 *)
(*                                                                         *)
(* The command line's operations hold the session lock (SessionLock shows  *)
(* that one process at a time does), so one command is in progress.  The   *)
(* grant of an execution takes no lock, and neither does the console.      *)
(* Stages are numbered in the order of the route.  The stage of the cursor *)
(* is recorded on the ledger; the manifest holds a projection of it, with  *)
(* the status and the lease.                                               *)
(*                                                                         *)
(* A refused command changes nothing and is not a step.  Left out: the     *)
(* timeline, which no operation here decides by, dry runs, legacy requests *)
(* and grants that bind nothing, and currentStage, a function of the same  *)
(* cursor as completedStages.                                              *)
(***************************************************************************)
EXTENDS Integers, Sequences, FiniteSets

CONSTANTS
    NumStages,      \* stages of the route, all of type "verb"
    GateAfter,      \* stages that a gate follows
    Optional,       \* stages declared optional
    Bounded,        \* stages whose adapter runs a bounded command; an agent
                    \* of the host does the others
    MaxCommands,    \* bound: commands and grants
    MaxConsole,     \* bound: requests to the web console
    MaxDeaths,      \* bound: crashes of a command
    Unset           \* no manifest, no status, no attempt

Stage == 1..NumStages

ASSUME StagesAssumption ==
    /\ NumStages \in Nat
    /\ GateAfter \subseteq Stage /\ Optional \subseteq Stage /\ Bounded \subseteq Stage

\* What is unset is not a status.
ASSUME UnsetAssumption == Unset \notin {"succeeded", "skipped", "failed", "rejected"}

VARIABLES
    manifest,       \* manifest.json: the status, the projection and the lease
    ledger,
    consumed,       \* attempts whose approval has been consumed
    minted,         \* the fence of each lease ever minted, by its token
    lapsed,         \* tokens up to this one are past expiresAt
    overdue,        \* requests up to this place on the ledger are past deadlineAt
    cmd,            \* the command that holds the session lock
    granting,       \* the attempt a grant has read and is about to record
    console,        \* the request the web console is serving
    raced,          \* history: was the manifest written from a stale reading?
    commands, edits, deaths    \* counters for the bounds

timeVars == <<minted, lapsed, overdue>>
counters == <<commands, edits, deaths>>
sessionVars == <<manifest, ledger, consumed, timeVars, cmd, granting, console, raced, counters>>

---------------------------------------------------------------------------
(* The state machine.                                                      *)

Terminal == {"completed", "failed", "aborted"}

Transitions == [
    created |-> {"routed"} \cup Terminal,
    routed |-> {"executing"} \cup Terminal,
    executing |-> {"paused", "blocked"} \cup Terminal,
    paused |-> {"executing"} \cup Terminal,
    blocked |-> {"executing", "aborted"},
    completed |-> {}, failed |-> {}, aborted |-> {}]

Legal(from, to) == to \in Transitions[from]

---------------------------------------------------------------------------
(* What the ledger says.  An attempt is named by the place of its request. *)

Requested(stage, fence) ==
    [kind |-> "requested", stage |-> stage, fence |-> fence, after |-> Len(minted)]
Passed(stage) == [kind |-> "gate_passed", stage |-> stage]
Of(kind, a) == [kind |-> kind, on |-> a]
Settled(a, status) == [kind |-> "settled", on |-> a, status |-> status]
Completed(a) == [kind |-> "completed", on |-> a, stage |-> ledger[a].stage]

Write(record) == ledger' = Append(ledger, record)

Places(kind) == {i \in 1..Len(ledger) : ledger[i].kind = kind}
Has(kind, a) == \E i \in Places(kind) : ledger[i].on = a

StatusOf(a) ==
    CASE Has("expired", a) -> "expired"
      [] Has("settled", a) /\ ~Has("expired", a) -> "settled"
      [] Has("denied", a) /\ ~Has("settled", a) /\ ~Has("expired", a) -> "denied"
      [] Has("admitted", a) /\ ~Has("denied", a) /\ ~Has("settled", a)
            /\ ~Has("expired", a) -> "admitted"
      [] OTHER -> "requested"

Cursor == {ledger[i].stage : i \in Places("completed")}
Current == Cardinality(Cursor) + 1

\* resolveCurrentStage: the gate after the last stage blocks the next one.
Blocked ==
    /\ Current - 1 \in GateAfter
    /\ \A i \in Places("gate_passed") : ledger[i].stage # Current - 1

\* findOpenAttempt, before the last of them is taken.
Open(fence) == {a \in Places("requested") :
    /\ ledger[a].stage = Current
    /\ StatusOf(a) = "requested"
    /\ ledger[a].fence = fence
    /\ a > overdue}

Latest(S) == CHOOSE a \in S : \A b \in S : b <= a

Advances(stage, status) ==
    status = "succeeded" \/ (status = "skipped" /\ stage \in Optional)

SettledAs(a, status) == \E i \in Places("settled") : ledger[i] = Settled(a, status)

---------------------------------------------------------------------------
\* The command in progress; seen is the number of lines that it has read.
NoCommand == [pc |-> "idle", attempt |-> 0, status |-> Unset, seen |-> 0,
              base |-> Unset, copy |-> Unset]
NoRequest == [pc |-> "idle", targets |-> << >>, seen |-> Unset, base |-> Unset]

\* A command begins: it takes the lock.
Begin == cmd.pc = "idle" /\ commands < MaxCommands /\ commands' = commands + 1

CmdAt(pc) == cmd.pc = pc
Goto(pc) == cmd' = [cmd EXCEPT !.pc = pc]
Return == cmd' = NoCommand

\* The command goes on to write the manifest it read, changed to copy.
Rewriting(pc, copy) ==
    cmd' = [NoCommand EXCEPT !.pc = pc, !.base = manifest, !.copy = copy]

\* loadActiveSession and leaseProblem: the caller proves the token it has.
HoldsLease(token) ==
    /\ manifest.status \notin Terminal
    /\ manifest.token = token
    /\ token > lapsed

SessionTypeOK ==
    /\ manifest.status \in DOMAIN Transitions
    /\ manifest.token \in 1..Len(minted) /\ manifest.fence = minted[manifest.token]
    /\ \A i \in Places("settled") \cup Places("completed") \cup Places("approved") :
            ledger[ledger[i].on].kind = "requested"
    /\ consumed \subseteq Places("requested")
    /\ lapsed \in 0..Len(minted) /\ overdue \in 0..Len(ledger)
    /\ cmd.pc \in {"idle", "gates", "consume", "execute", "admit", "deny", "settle",
                   "complete", "project", "anchor", "write", "route", "lease", "approve"}
    /\ console.pc \in {"idle", "waiting", "writing"}

---------------------------------------------------------------------------
(* amber session run --execute.                                            *)

\* A new attempt of the current stage is captured.  The command of a bounded
\* stage is not run yet: no grant can be bound to the attempt before.
RunCapture(token) ==
    /\ Begin
    /\ HoldsLease(token)
    /\ Current \in Stage /\ ~Blocked
    /\ Open(manifest.fence) = {}
    /\ Write(Requested(Current, manifest.fence))
    /\ UNCHANGED <<manifest, consumed, timeVars, cmd, granting, console, raced, edits, deaths>>

Granted(a) == Has("approved", a) /\ ~Has("executed", a)

\* The open attempt goes on, when a grant is bound to it.
RunResume(token) ==
    /\ Begin
    /\ HoldsLease(token)
    /\ Current \in Bounded /\ ~Blocked
    /\ Open(manifest.fence) # {}
    /\ LET a == Latest(Open(manifest.fence)) IN
        /\ Granted(a)
        /\ cmd' = [NoCommand EXCEPT !.pc = "gates", !.attempt = a]
    /\ UNCHANGED <<manifest, ledger, consumed, timeVars, granting, console, raced, edits, deaths>>

\* runGovernedCommand: a gate refuses, or lets the attempt through.
Gates ==
    /\ CmdAt("gates")
    /\ \E next \in {"deny", "consume"} : Goto(next)
    /\ UNCHANGED <<manifest, ledger, consumed, timeVars, granting, console, raced, counters>>

ConsumeApproval ==
    /\ CmdAt("consume")
    /\ IF cmd.attempt \in consumed
       THEN Goto("deny") /\ UNCHANGED consumed
       ELSE Goto("execute") /\ consumed' = consumed \cup {cmd.attempt}
    /\ UNCHANGED <<manifest, ledger, timeVars, granting, console, raced, counters>>

\* The worktree cannot be made, or the command runs to its end.
Execute ==
    /\ CmdAt("execute")
    /\ \/ Goto("deny") /\ UNCHANGED ledger
       \/ \E status \in {"succeeded", "failed"} :
            /\ Write(Of("executed", cmd.attempt))
            /\ cmd' = [cmd EXCEPT !.pc = "admit", !.status = status]
    /\ UNCHANGED <<manifest, consumed, timeVars, granting, console, raced, counters>>

RecordAdmission ==
    /\ CmdAt("admit")
    /\ Write(Of("admitted", cmd.attempt))
    /\ Goto("settle")
    /\ UNCHANGED <<manifest, consumed, timeVars, granting, console, raced, counters>>

RecordDenial ==
    /\ CmdAt("deny")
    /\ Write(Of("denied", cmd.attempt))
    /\ cmd' = [cmd EXCEPT !.pc = "settle", !.status = "rejected"]
    /\ UNCHANGED <<manifest, consumed, timeVars, granting, console, raced, counters>>

---------------------------------------------------------------------------
(* settleInternal, from run and from settle.                               *)

\* Bug: the projection is refreshed before the completion is recorded.
Bug_ProjectFirst ==
    /\ CmdAt("settle")
    /\ Write(Settled(cmd.attempt, cmd.status))
    /\ IF Advances(ledger[cmd.attempt].stage, cmd.status)
       THEN cmd' = [cmd EXCEPT !.pc = "write", !.base = manifest, !.copy =
                [manifest EXCEPT !.completed = Cursor \cup {ledger[cmd.attempt].stage}]]
       ELSE Return
    /\ UNCHANGED <<manifest, consumed, timeVars, granting, console, raced, counters>>

RecordSettlement ==
    /\ CmdAt("settle")
    /\ Write(Settled(cmd.attempt, cmd.status))
    /\ IF Advances(ledger[cmd.attempt].stage, cmd.status) THEN Goto("complete") ELSE Return
    /\ UNCHANGED <<manifest, consumed, timeVars, granting, console, raced, counters>>

RecordCompletion ==
    /\ CmdAt("complete")
    /\ Write(Completed(cmd.attempt))
    /\ Goto("project")
    /\ UNCHANGED <<manifest, consumed, timeVars, granting, console, raced, counters>>

\* refreshProjection verifies the chain: first its lines, then the anchor.
ReadLines ==
    /\ CmdAt("project")
    /\ cmd' = [cmd EXCEPT !.pc = "anchor", !.seen = Len(ledger)]
    /\ UNCHANGED <<manifest, ledger, consumed, timeVars, granting, console, raced, counters>>

\* An append without the lock came between the two: the anchor may already
\* count a line that was not read, and then the reading is refused.
Overtaken == CmdAt("anchor") /\ Len(ledger) > cmd.seen

\* It returns null, which nobody looks at: the command ends well, and writes
\* no manifest.
SkipProjection ==
    /\ Overtaken
    /\ Return
    /\ UNCHANGED <<manifest, ledger, consumed, timeVars, granting, console, raced, counters>>

ReadProjection ==
    /\ CmdAt("anchor")
    /\ cmd' = [cmd EXCEPT !.pc = "write", !.base = manifest,
                          !.copy = [manifest EXCEPT !.completed = Cursor]]
    /\ UNCHANGED <<manifest, ledger, consumed, timeVars, granting, console, raced, counters>>

\* writeSessionManifest, and the command ends.
WriteManifest ==
    /\ CmdAt("write")
    /\ manifest' = cmd.copy
    /\ raced' = (raced \/ manifest # cmd.base)
    /\ Return
    /\ UNCHANGED <<ledger, consumed, timeVars, granting, console, counters>>

---------------------------------------------------------------------------
(* amber session settle.                                                   *)

\* Bug: any lease will do.
Bug_AnyFence(token, a) == HoldsLease(token)

\* The attempt is one of the fence that the caller's lease has.
MaySettle(token, a) ==
    /\ HoldsLease(token)
    /\ ledger[a].fence = minted[token]

\* Bug: an existing settlement is not looked for.
Bug_SettleTwice(token, a, status) ==
    /\ Begin
    /\ MaySettle(token, a)
    /\ a > overdue
    /\ status = "skipped" => ledger[a].stage \in Optional
    /\ cmd' = [NoCommand EXCEPT !.pc = "settle", !.attempt = a, !.status = status]
    /\ UNCHANGED <<manifest, ledger, consumed, timeVars, granting, console, raced, edits, deaths>>

Settle(token, a, status) ==
    /\ Begin
    /\ MaySettle(token, a)
    /\ ~Has("settled", a)
    /\ a > overdue
    /\ status = "skipped" => ledger[a].stage \in Optional
    /\ cmd' = [NoCommand EXCEPT !.pc = "settle", !.attempt = a, !.status = status]
    /\ UNCHANGED <<manifest, ledger, consumed, timeVars, granting, console, raced, edits, deaths>>

\* Past its deadline the attempt expires, each time it is settled.
SettleLate(token, a) ==
    /\ Begin
    /\ MaySettle(token, a)
    /\ ~Has("settled", a)
    /\ a <= overdue
    /\ Write(Of("expired", a))
    /\ UNCHANGED <<manifest, consumed, timeVars, cmd, granting, console, raced, edits, deaths>>

\* Bug: a duplicate only refreshes the projection.
Bug_NoReplay(token, a, status) ==
    /\ Begin
    /\ MaySettle(token, a)
    /\ SettledAs(a, status)
    /\ Advances(ledger[a].stage, status)
    /\ cmd' = [NoCommand EXCEPT !.attempt = a, !.status = status, !.pc = "project"]
    /\ UNCHANGED <<manifest, ledger, consumed, timeVars, granting, console, raced, edits, deaths>>

\* The same result again rebuilds what a crash left out.
SettleAgain(token, a, status) ==
    /\ Begin
    /\ MaySettle(token, a)
    /\ SettledAs(a, status)
    /\ Advances(ledger[a].stage, status)
    /\ cmd' = [NoCommand EXCEPT !.attempt = a, !.status = status,
                  !.pc = IF ledger[a].stage \in Cursor THEN "project" ELSE "complete"]
    /\ UNCHANGED <<manifest, ledger, consumed, timeVars, granting, console, raced, edits, deaths>>

---------------------------------------------------------------------------
(* The other commands of a session.                                        *)

\* amber session grant: the attempt is read without the lock.
GrantRead(a) ==
    /\ granting = Unset
    /\ commands < MaxCommands /\ commands' = commands + 1
    /\ StatusOf(a) = "requested"
    /\ granting' = a
    /\ UNCHANGED <<manifest, ledger, consumed, timeVars, cmd, console, raced, edits, deaths>>

GrantAppend ==
    /\ granting # Unset
    /\ Write(Of("approved", granting))
    /\ granting' = Unset
    /\ UNCHANGED <<manifest, consumed, timeVars, cmd, console, raced, counters>>

\* amber session lease: the window may have passed, the token must be the
\* recorded one.
RenewLease(token) ==
    /\ Begin
    /\ manifest.status \notin Terminal
    /\ manifest.token = token
    /\ Rewriting("lease", manifest)
    /\ UNCHANGED <<manifest, ledger, consumed, timeVars, granting, console, raced, edits, deaths>>

WriteLease ==
    /\ CmdAt("lease")
    /\ minted' = Append(minted, cmd.base.fence + 1)
    /\ manifest' = [cmd.base EXCEPT !.fence = @ + 1, !.token = Len(minted')]
    /\ raced' = (raced \/ manifest # cmd.base)
    /\ Return
    /\ UNCHANGED <<ledger, consumed, lapsed, overdue, granting, console, counters>>

\* amber session approve: a person is asked while the lock is held, and the
\* manifest is written back as it was read.
Approve(stage) ==
    /\ Begin
    /\ manifest.status \notin {"completed", "aborted"}
    /\ cmd' = [NoCommand EXCEPT !.pc = "approve", !.attempt = stage, !.base = manifest,
                                !.copy = manifest]
    /\ UNCHANGED <<manifest, ledger, consumed, timeVars, granting, console, raced, edits, deaths>>

RecordApproval ==
    /\ CmdAt("approve")
    /\ Write(Passed(cmd.attempt))
    /\ Goto("write")
    /\ UNCHANGED <<manifest, consumed, timeVars, granting, console, raced, counters>>

\* amber session continue: a created session is routed first.
Continue ==
    /\ Begin
    /\ manifest.status \in {"created", "routed", "paused"}
    /\ Rewriting(IF manifest.status = "created" THEN "route" ELSE "write",
                 [manifest EXCEPT !.status = "executing"])
    /\ UNCHANGED <<manifest, ledger, consumed, timeVars, granting, console, raced, edits, deaths>>

WriteRouted ==
    /\ CmdAt("route")
    /\ manifest' = [cmd.base EXCEPT !.status = "routed"]
    /\ raced' = (raced \/ manifest # cmd.base)
    /\ cmd' = [cmd EXCEPT !.pc = "write", !.base = manifest']
    /\ UNCHANGED <<ledger, consumed, timeVars, granting, console, counters>>

\* amber session abort, and complete once its evidence is there.
End(status) ==
    /\ Begin
    /\ Legal(manifest.status, status)
    /\ Rewriting("write", [manifest EXCEPT !.status = status])
    /\ UNCHANGED <<manifest, ledger, consumed, timeVars, granting, console, raced, edits, deaths>>

---------------------------------------------------------------------------
(* The web console.                                                        *)

\* canInvokeAction, and the statuses the console then writes one by one.
Control(from) ==
    CASE from = "created" -> {<<"routed", "executing">>, <<"aborted">>}
      [] from = "routed" -> {<<"executing">>, <<"aborted">>}
      [] from = "executing" -> {<<"paused">>, <<"aborted">>}
      [] from = "paused" -> {<<"executing">>, <<"aborted">>}
      [] OTHER -> {}

Serve == console.pc = "idle" /\ edits < MaxConsole /\ edits' = edits + 1

Serving(targets) ==
    console' = [NoRequest EXCEPT !.pc = "waiting", !.targets = targets, !.seen = manifest.status]

\* A control of the session waits for the runner to answer.
ConsoleControl ==
    /\ Serve
    /\ \E targets \in Control(manifest.status) : Serving(targets)
    /\ UNCHANGED <<manifest, ledger, consumed, timeVars, cmd, granting, raced, commands, deaths>>

\* A gate is approved; a session that was paused is resumed too.
ConsoleApprove(stage) ==
    /\ Serve
    /\ Write(Passed(stage))
    /\ \/ UNCHANGED console
       \/ manifest.status = "paused" /\ Serving(<<"executing">>)
    /\ UNCHANGED <<manifest, consumed, timeVars, cmd, granting, raced, commands, deaths>>

\* persistSessionStatus: read, and after an await, write.
ConsoleRead ==
    /\ console.pc = "waiting"
    /\ console' = [console EXCEPT !.pc = "writing", !.base = manifest]
    /\ UNCHANGED <<manifest, ledger, consumed, timeVars, cmd, granting, raced, counters>>

ConsoleWrite ==
    /\ console.pc = "writing"
    /\ manifest' = [console.base EXCEPT !.status = Head(console.targets)]
    /\ raced' = (raced \/ manifest # console.base \/ manifest.status # console.seen)
    /\ console' = IF Len(console.targets) = 1 THEN NoRequest
                  ELSE [NoRequest EXCEPT !.pc = "waiting", !.targets = Tail(console.targets),
                                         !.seen = Head(console.targets)]
    /\ UNCHANGED <<ledger, consumed, timeVars, cmd, granting, counters>>

---------------------------------------------------------------------------
(* Time and crashes.                                                       *)

\* A lease and a deadline are five minutes each, so a request is overdue only
\* after the leases minted before it have lapsed.
LeaseLapses ==
    /\ lapsed < Len(minted)
    /\ lapsed' = lapsed + 1
    /\ UNCHANGED <<manifest, ledger, consumed, minted, overdue, cmd, granting, console, raced,
                   counters>>

DeadlinePasses(a) ==
    /\ a > overdue /\ ledger[a].after <= lapsed
    /\ overdue' = a
    /\ UNCHANGED <<manifest, ledger, consumed, minted, lapsed, cmd, granting, console, raced,
                   counters>>

\* The holder of the lock dies, and its lock is taken over; or a file it
\* writes or reads fails, and the command throws.
HolderDies ==
    /\ cmd.pc # "idle"
    /\ deaths < MaxDeaths /\ deaths' = deaths + 1
    /\ Return
    /\ UNCHANGED <<manifest, ledger, consumed, timeVars, granting, console, raced, commands, edits>>

\* amber session start --agent.
SessionInit ==
    /\ manifest = [status |-> "created", completed |-> {}, fence |-> 1, token |-> 1]
    /\ ledger = << >> /\ consumed = {}
    /\ minted = <<1>> /\ lapsed = 0 /\ overdue = 0
    /\ cmd = NoCommand /\ granting = Unset /\ console = NoRequest
    /\ raced = FALSE
    /\ commands = 0 /\ edits = 0 /\ deaths = 0

Token == 1..Len(minted)

Run == \E t \in Token : RunCapture(t) \/ RunResume(t)
Settling == \E t \in Token : \E a \in Places("requested") :
    \/ SettleLate(t, a)
    \/ \E status \in {"succeeded", "skipped", "failed"} :
            Settle(t, a, status) \/ SettleAgain(t, a, status)
RunStep == Gates \/ ConsumeApproval \/ Execute \/ RecordAdmission \/ RecordDenial
SettleStep ==
    RecordSettlement \/ RecordCompletion \/ ReadLines \/ SkipProjection \/ ReadProjection
        \/ WriteManifest

SessionNext ==
    \/ Run \/ Settling \/ RunStep \/ SettleStep
    \/ \E a \in Places("requested") : GrantRead(a) \/ DeadlinePasses(a)
    \/ GrantAppend
    \/ \E t \in Token : RenewLease(t)
    \/ WriteLease
    \/ \E stage \in GateAfter : Approve(stage) \/ ConsoleApprove(stage)
    \/ RecordApproval \/ Continue \/ WriteRouted
    \/ \E status \in {"aborted", "completed"} : End(status)
    \/ ConsoleControl \/ ConsoleRead \/ ConsoleWrite
    \/ LeaseLapses \/ HolderDies

SessionSpec == SessionInit /\ [][SessionNext]_sessionVars

---------------------------------------------------------------------------
EarlierThan(i, kind) == {j \in Places(kind) : j < i}

\* The cursor is earned (resolveCurrentStage, settleLocked): the stages that
\* the ledger completes are a prefix of the route; an attempt was captured only
\* when every earlier stage was complete and the gate before it had passed; it
\* settled once, whatever was retried or resumed after a crash; and each
\* completion follows the advancing settlement of an attempt of its stage.
CursorIsEarned ==
    /\ Cursor = 1..Cardinality(Cursor)
    /\ \A i \in Places("requested") : \A s \in 1..(ledger[i].stage - 1) :
        /\ \E j \in EarlierThan(i, "completed") : ledger[j].stage = s
        /\ s \in GateAfter => \E j \in EarlierThan(i, "gate_passed") : ledger[j].stage = s
    /\ \A i, j \in Places("settled") : ledger[i].on = ledger[j].on => i = j
    /\ \A i \in Places("completed") : \E j \in EarlierThan(i, "settled") :
        ledger[j].on = ledger[i].on /\ Advances(ledger[i].stage, ledger[j].status)

\* The manifest is a projection (refreshProjection: "this never invents a
\* stage the ledger does not record"): whatever the console or a command that
\* read it earlier writes back, it names a prefix of the ledger's cursor.
ProjectionIsBehind ==
    manifest.completed \subseteq Cursor /\ manifest.completed = 1..Cardinality(manifest.completed)

\* "A request carrying an older fence can never settle" (settleLocked): what
\* settles is an attempt of the newest fence ever minted, unless the manifest
\* was written from a stale reading, which can bring an old lease back.
FencedOut ==
    [][\A i \in (Len(ledger) + 1)..Len(ledger') :
            ledger'[i].kind = "settled" =>
                raced \/ \A t \in Token : minted[t] <= ledger[ledger'[i].on].fence]_sessionVars

EndsWell == cmd'.pc = "idle" /\ deaths' = deaths

\* A command that records the advance of a stage, or meets it recorded.
Advancing == cmd.status \in {"succeeded", "skipped"} /\ Advances(ledger[cmd.attempt].stage, cmd.status)

\* Settling again rebuilds what a crash left out (settleLocked: "a crash
\* between the settled event and the projection refresh must not lose the
\* advancement"): when the command ends well, the ledger has the stage, and
\* the manifest names what the ledger has, unless an append without the lock
\* overtook the command's reading of the ledger.
ReplayRebuilds ==
    [][EndsWell /\ Advancing =>
            /\ ledger[cmd.attempt].stage \in Cursor'
            /\ manifest'.completed = Cursor' \/ Overtaken]_sessionVars
=============================================================================
