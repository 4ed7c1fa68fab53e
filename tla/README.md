# Formal verification of Amber Protocol

Amber Protocol is a governance layer for coding agents: a command line (JavaScript, `scripts/`) whose
processes share nothing but files under a repository's `.amber/` directory. Every command is one
process; several of them, a background daemon, an MCP server and a web console work on the same files at
once, any of them may die between two file operations, and the governed state must survive that. This
directory holds TLA+ modules that model those file protocols operation by operation, TLC configurations
that explore them, and TLAPS proofs of the results that matter most.

Contents: 1 the system, 2 the modules and how they correspond to the code, 3 the runs, 4 where the code
and its texts disagree, 5 the proofs, 6 abstractions, 7 what is not modelled, 8 the plan, 9 how to run
everything.

## 1. The system

| Component | State it keeps | Operations | What makes it correct |
|---|---|---|---|
| Session lock (`scripts/lib/session-lock.js`) | one lease file per lock, takeover guards beside it | acquire, release | one owner at a time; a dead owner's lock is reclaimed; nobody's live lease is deleted |
| Governed ledger (`core/registry-ledger.js`, `ledger-family.js`, `jsonl.js`) | a hash-chained JSONL file and its lock file, one pair per family | fold, append | the chain stays whole; a guard's verdict still holds when its event is appended; an acknowledged event is in the chain |
| Harness run (`harness/run-core.js`, `run-state-machine.js`) | `runs/<id>.json`: state history and additive summaries | create, transition | the history is a path of the ten-state machine; a final run never moves; the ledger carries its events |
| Attempts (`harness/attempt-core.js`) | `attempts/<run>/<id>.json` and the run's summary of them | record, settle | an attempt settles once; the summary counts the records |
| Execution adapter (`harness/execution-adapter.js`) and checkpoints (`harness/checkpoint-core.js`) | `executions/<run>.json`, the prepared workspace, checkpoints, sections of the run's record | prepare, run, evaluate, release, capture | a boundary violation stops the run; nothing executes in a run that must not; whoever rewrites the run's record leaves a legal history |
| Execution handles and cancellation (`core/execution-handles.js`, `harness/execution-cancel.js`) | one handle per live command, a fence counter, one create-once cancellation record | persist, clear, cancel, resume | an authorization signals at most once; a termination is claimed only when it was seen |
| Loop ledger (`core/loop-ledger.js`) | a second chained ledger, its anchor `head.json`, a pid lock and the guards of a takeover | append, verify | one writer at a time; a dead writer's lock is reclaimed; a cut ledger is noticed and an interrupted append is not taken for one |
| Governed runner (`core/governed-runner.js`, `loop-commands.js`, `route-commands.js`) | approvals on the loop ledger, one consumed marker per approval | approve, run | an approval spawns at most one command, the one that was approved |
| Runtime schedules and daemon (`harness/runtime-core.js`) | schedule records, revocations, proposals, the trail, `daemon.json`, start lock, fence | admit, revoke, tick, start, stop | a schedule stops when its budget is used or it is revoked; one daemon owns a target |
| Sessions and stage runner (`session-*.js`) | the manifest with its lease, attempts on the session's ledger | lease, run, resume, settle, grant, approve, continue, end | the ledger's cursor is earned; the manifest is a projection that may be behind but not ahead; an older holder settles nothing |
| Approvals (`core/approval-registry.js`) | a family of the governed ledger | grant, revoke, consume | an approval settles one Decision |
| Canonical artifacts (`core/canonical-artifacts.js`) | revisions, a settlement journal and `admit.lock`, one set per artifact home | admit, show, list in flight, sweep | a receipt stays bound to what is on disk; the journal is a serial history; a crash never blocks the next admission |
| Retention (`core/retention-registry.js`) | five families of the governed ledger: classifications, Legal Holds, Holders, candidates, transactions | classify, hold, release, register, prepare, authorize, execute, settle, prove | only what a human reviewed is deleted; a proof covers every Holder; a deleted record never comes back |
| Other registries (`breakglass-`, `external-`, `release-`, `maintain-`, `principal-`, `runner-`, `adapter-registry.js`) | families of the governed ledger | register, revoke, retire | each family's guard |
| Policy and gates (`policy-evaluation.js`, `gate-evaluation.js`, `phase-gates.js`) | none | evaluate | deny wins; missing evidence is never a pass |
| Sync (`core/sync-*.js`) | envelopes, applied, refused and conflict ledgers | pull, apply, commit | an envelope is applied once; a conflict is never marked applied |
| MCP server, command line, web console, upper shell | caches; the web console also rewrites session manifests | call the above | they add no path around the guards |
| Memory, knowledge, context; scaffolding, planning, audits; migration; repository scans | derived indexes and reports | build, read | functions of the files |

How they interact. There are no messages between processes, only files. A harness operation takes the
run's lock (a session lock at another path), rewrites the run's record and then appends to the harness
event ledger, which takes its own, different lock. The execution adapter calls transitions and attempts,
which lock, but rewrites the execution record and the run's record itself without any lock, and so does a
checkpoint. Cancellation signals a child process that another process waits for, and both then write. The
governed runner reads a ledger, a pack and policy files at different times and relies on one exclusive
create. A session command holds the session's lock while the web console rewrites the same manifest
without it. The consumption of an approval admits an artifact, under the artifact home's lock, inside the
append of the approvals' ledger. The authorization of a deletion reads three ledgers and consumes an approval
in another inside its own append.

What is hard. Two processes between a check and the write it protects; a read of a file that another
process has truncated; a lock taken over from a dead holder by two takers at once; a crash between two
files that belong together; a value read before another lock is taken and written after it is released;
a lock given up for dead by its age while its holder is only slow; an error returned as a value where the
caller expects an exception. `PROJECT.json` lists the places under `hazards`, each at its line with the
properties that cover it; the further weak places that were met and have no property are in section 4.

## 2. The modules

| Module | Models | Built on |
|---|---|---|
| `PathLock` | what acquire and release of a lock promise: one holder; an orphan that must be reclaimed first | |
| `SessionLock` | `session-lock.js`, one file system operation per step | implements `PathLock` |
| `RegistryLedger` | the append lock and the governed append of `registry-ledger.js` | |
| `RunLifecycle` | what a run promises: histories that grow along legal edges; the record can only be lost whole | |
| `HarnessRun` | `run-core.js` and `attempt-core.js` | uses `PathLock`, implements `RunLifecycle` |
| `ExecutionAdapter` | `execution-adapter.js` and the capture of `checkpoint-core.js`, with the transitions and attempts they meet | extends `HarnessRun` |
| `ExecutionCancel` | `execution-handles.js`, the command of `execution-domain-adapter.js`, `execution-cancel.js` | takes the append of `RegistryLedger` as one step |
| `LoopLedger` | `loop-ledger.js`: lock, guards, append, anchor, verifier, one file system operation per step | implements `PathLock` |
| `GovernedRunner` | approvals and `runGovernedCommand` for loops, routes and sessions | takes the append of `LoopLedger` as one step |
| `SessionStages` | the session commands, the stage runner and the web console's writers | the session lock as "one command in progress" |
| `Runtime` | schedules, ticks and the daemon of `runtime-core.js` | takes the append of `RegistryLedger` as one step |
| `ArtifactAdmission` | one artifact home of `canonical-artifacts.js`: admission, recovery, readers | |
| `Approvals` | grant, revocation and consumption of `approval-registry.js`, with the admission they perform | extends `ArtifactAdmission` |
| `Retention` | the five ledgers of `retention-registry.js` and the approvals they consume | takes the appends of `RegistryLedger` as one step each |
| `MC*` | instances of bounds and symmetry sets for the runs | |
| `SessionLockProof`, `HarnessRunProof`, `RegistryLedgerProof`, `ExecutionCancelProof`, `GovernedRunnerProof`, `RetentionProof`, `RuntimeProof`, `ApprovalsProof` | theorems and proofs | each extends the module it is named after; `SessionLockProof` also `SessionStages`, `HarnessRunProof` also `ExecutionAdapter`, `GovernedRunnerProof` also `LoopLedger` |

`PROJECT.json` maps every definition that stands for code to its file and lines. The modules keep the
names of the code where they can (`HolderState`, `eventKindForTransition`, `compareBoundaries`,
`validateSettlement`). Operators called `Bug_...` are not part of a specification: each is a plausible
mistake in the definition it is named after, used to show that the property listed with it in
`PROJECT.json` notices the mistake.

**SessionLock.** `dir` is the set of lock files, each a path and its bytes. A guard's path is the path
of what it guards together with the stale bytes, so a path is the sequence of bytes its name was hashed
from. `acquireAt` calls itself for the guard; `frame[p]` is the stack of its locals and `depth[p]` the
level. `claim` is `ClaimWins` and `ClaimExists`; each early return of the loop is an action
(`JudgeCorrupt`, `JudgeLive` with `Locked`, `JudgeStuck`, `ExhaustedByGuard`, `Exhausted`). `removeStale`
is `TakeGuard`, `Check`, `Rm` and the guard's release. `releaseAt` is `ReleaseRead`, then `ReleaseRm`:
another process may step in between. A process may die at any step and its pid may be given to a new
process (`Restart`), told apart by its start time when the platform knows it (`IdentityKnown`).

**RegistryLedger.** The lock file is created (`Open`) before its token is written (`WriteToken`). `Stat`
judges its age, `ReadToken`, `Reread` and `RmStale` are the reclaim. `FoldAndGuard`, `ChainHead`,
`CheckCeiling`, `AppendLine`, `Refold` are the append in its order; `Finish` is every early return
through the `finally` that releases. A hash is the chain of what it covers, which makes it injective. The
modelled guard is the one the families have in common: an event spends a subject, and no subject is
spent twice. Age is `old`, set by `Expire`; `MayStall` says whether a running holder may be outlived
by `staleMs`.

**HarnessRun.** A call takes the lock (`Acquire`, `LockRefused`), reads (`ReadForCreate`,
`ReadForTransition`, `ReadAttempt`), writes (`WriteAttempt`, `RefreshSummary`, `Write`), emits (`Emit`)
and releases (`Unlock`). `writeFileSync` is not atomic: while a process is about to write, a reader without
the lock may read a file that does not parse (`Reads`), and a crash in a write leaves the old record,
the new one, or a torn one (`Crash`).

**ExecutionAdapter.** `task[p]` holds the locals of one adapter operation. When an operation calls
`transitionRun` or `recordAttempt` it enters that call's steps with the step to return to
(`Start(p, call, then)`). A transition's refusal is swallowed (`execution-adapter.js:477`), an attempt's
is thrown (`Throws`). Observations are of three kinds, the ones `compareBoundaries` tells apart: in
bounds, a write outside the declared prefixes, a claim of more enforcement than the provider has. A
capture reads the run (`CheckpointRead`), lists what it refers to (`CheckpointRefs`), writes its own file
(`CheckpointWrite`), reads the run again (`CheckpointRun`) and writes it back with a summary
(`PutCheckpoint`), all without the run's lock. `instance` is the environment of a behaviour: which
callers, operations and faults it has.

**ExecutionCancel.** One run, its handle file, its cancellation record and its events. A runner is
`executeInPreparedWorkspace`: `CheckHandle` (a live handle refuses, a stale one is reconciled by `ClearStale`),
`Spawn`, `Persist` (the exclusive create; `Kill` when it fails), `Clear`, and the terminal event (`Attribute`,
`SettleAttempt`). A canceller is `cancelExecution`, step by step as its comments number them: `ReadState`; then
`SeekHandle`, `ReadHandle`, `Spend`, `Observe`, `Signal`, `Await` the first time, or `ReadRecord`,
`ResumeHandle`, `ResumeRead`, `ResumeObserve` on a retry; then `Verify`, `Link`, `Reread`, `SettleCancel`. The
guards of the two appends are `SpendRefused` and `SettlementRefused`. A child (`live`) is a third actor: it ends
when it likes, survives its runner and may ignore a signal. A process that crashes loses its locals. Whoever
reads the handle asks first whether it exists (`HandleExists`) and reads it in a step of its own (`HandleRead`):
a handle that is half written, or was removed in between, throws.

**LoopLedger.** `lock[d]` is the lock file of level d: level 0 is the ledger's lock, level d + 1 the guard
taken to remove level d. `Claim` is the link that wins or finds a file, `Read` and `Check` judge it,
`Compare` and `Remove` are the removal under the guard, `Unguard` the guard's. Then `Fold`, `AppendLine`,
`WriteAnchor`, `Release` are the append. A verifier reads the lines (`VerifyLines`) and the anchor
(`VerifyHead`) without the lock. `TornAppend`, `WriteFails`, `RemoveLockFails` and `End` are the I/O errors
and crashes; a line cut short joins with the next one to one that does not parse (`AppendText`).

**GovernedRunner.** `surface` says who uses the ledger. `pack` and `policy` are the versions on disk, which
`Edit` changes at any time, and `expired` the context authority of a session. An approval binds the pack it
was given for (`ApproveBind`, `ApproveAppend`); a route stage's binds nothing. A run is `Bind`, `Verify`,
`PackRules`, `Rules`, `Admit` (drift of pack, policy or authority from what was approved), `Select` (the
latest approval without marker), `Eligible`, `Consume` (the exclusive create of the marker), `Execute`,
`RecordBudget`, `Record`, `Outcome`. `spawned` remembers each command with what it ran under.

**SessionStages.** One command at a time is between its steps (`cmd`), a grant and a console request beside it.
A run captures an attempt (`RunCapture`) or resumes a granted one (`RunResume`: `Gates`, `ConsumeApproval`,
`Execute`, `RecordAdmission` or `RecordDenial`). A settlement records the result, moves the cursor and rewrites
the manifest (`RecordSettlement`, `RecordCompletion`, `ReadLines`, `ReadProjection`, `WriteManifest`), or leaves
it when an append without the lock came between the lines it read and the anchor (`Overtaken`,
`SkipProjection`); `SettleAgain` replays it, `SettleLate` is the settlement after the deadline. `RenewLease`
mints a fence, `End`, `Control`, `Continue` and `Approve` are the other commands. The console's `ConsoleRead`
and `ConsoleWrite` are two steps that hold no lock.

**Runtime.** `Admit` creates the schedule's record and `Register` appends its witness or removes the record
again; `Revoke` and `AppendRevocation` likewise. A tick reads the ledger (`Tick`), lists the records
(`ListSchedules`) and takes each schedule's turn (`NextSchedule`, `RunJob`, `CompleteJob`, `FailJob`,
`StopSchedule`, `EndTick`) by the ledger as read when the turn began (`view`). `Start` to `ReleaseStart` create
the start lock, draw a fence or fail to (`RefuseFence`), spawn, and write `daemon.json` in two steps; `Stop`,
`RemoveState` and `GiveUp` signal the worker and remove the file. A worker ticks only while `daemon.json` names
its fence (`Owns`).

**ArtifactAdmission.** `lock` is `admit.lock`, `files[n]` the two halves of revision n. `Open`, `Stat` and
`RmStale` take the lock or remove one that has grown old. `Read` replays the journal, `Recover` aborts or
commits what an earlier admission left, `Reread` and `Judge` decide: an idempotent answer, a refusal, or a
new revision. `Prepare`, `Guard1`, `WriteBody`, `WriteEnvelope`, `Guard2`, `Commit`, `Receipt` are the
four writes with the two checks that the claim still stands; `Unlock` removes whatever lock is there. `Show`,
`InFlight` and `Sweep` are readers, two of which may settle what they find. A crash tears a half written file
or line or not, and the process starts again. `acked` and `overlap` are history.

**Approvals.** `approvals[a]` says whether approval a is granted and revoked, `consumed[a]` is the sequence of its
consumptions. A call names the identity and the body of its Decision (`decision[p]`), a retry perhaps another
identity. `Consume` judges the approval before the lock, `Reserve` enters the governed append, `Judged` judges it
again under the lock and enters the admission of the Decision, and `Admitted` appends `consumed` when the
admission has returned a receipt. The home of one identity (`Here`) is `ArtifactAdmission`'s, with other admissions
and readers beside the consumption; in the others (`AdmitElsewhere`) only consumptions admit, and the approvals'
lock keeps them apart. `settled` is history: the Decisions committed for an approval.

**Retention.** `classes`, `holds`, `holders`, `candidates` and `transactions` are what the five ledgers fold to.
`Content` is what `deriveCandidateContent` computes of the first three at a clock; it is read in three steps
(`ReadClasses`, `ReadHolds`, `ReadHolders`), by `Prepare` before the append (`AppendCandidate`) and by `Authorize`
inside it, where `writer` is the process that holds the candidates' lock. `Settle` compares what was derived with
what was reviewed (`Undrifted`) and consumes the approval (`Consumable`), `RecordAuthorization` appends. `Execute`
reads the candidate and `OpenTransaction` appends; `SettleHolder` records a Holder's receipt; `ReadTransactions` and
`Resolve` are the readers. `during`, `known` and `proved` are history.

## 3. The runs

Every constant named `Max...` is a bound. Deadlock is not checked in any run because the calls are
bounded: a behaviour ends when every process has made its calls or died.

| Run | Instance | States | Shows |
|---|---|---|---|
| `lock` | 2 processes, 2 crashes, 1 reused pid, 2 attempts, guards 2 deep | 81 317 | no leaked lease, no live lease removed, `PathLock` implemented; a caller without competition reclaims what crashes left |
| `ledger` | 2 writers, 3 calls, 3 subjects, 1 fault, 1 expiry, room for 2 events, stalls allowed | 459 304 | single spending while nothing expires; acknowledged events on the chain always; a stale lock is reclaimed |
| `run_safety` | 2 processes, 3 calls each, 1 attempt, histories of 3, 1 crash, 1 refused append | 1.35 million | a trail that accounts for the record, a current summary, single settlement, `RunLifecycle` implemented |
| `execution` | one caller with 6 calls on a git worktree, from before prepare; or 2 callers with 1 call each (checkpoints among them) and 1 fault; 2 attempts, histories of 6 | 1.33 million | alone: a new violation stops the run; racing: a legal history |
| `cancel` | an attempt run twice, 2 cancellers, 2 Decisions, 1 crash, 1 refused append | 690 536 | one signal, a settlement cites the record on disk and the authorized request, nothing claimed that was not seen, kills attributed, a retry settles unless the handle it found is removed before it reads it or is not the request's |
| `loop` | 2 processes, 3 appends and verifications, 3 faults, leftovers of earlier crashes, guards 2 deep | 290 732 | `PathLock` implemented; a writer without competition reclaims; the anchor names a line that is there and every acknowledged record is behind it |
| `governed` | 2 processes, 4 calls, 2 stages, 3 pack and 3 policy versions, 1 edit, 1 crash; as a loop, a route or a session | 3.01 million | an approval spawns once, what is spawned is what was approved, one approval of a loop is good for one run |
| `session` | 2 stages (one bounded with a gate after it, one optional), 5 commands, 1 console request, 1 crash | 2.03 million | an earned cursor, a projection that is never ahead, fencing, settlements and replays that rebuild what a crash left out unless an append without the lock overtakes them |
| `runtime` | 2 callers, 2 schedules, 2 Decisions, budgets of 2, 2 workers, 1 refused append or fence, 1 crash; four mixes of commands | 897 473 | records with a witness, at most the run under way after the end, one worker that ticks, a worker that is not named ends |
| `decisions` | 2 processes and 2 bodies; 3 admissions and reads of a home with 1 key, a fault and an expiry; or 3 consumptions of 2 approvals for Decisions of 2 identities with a fault and an expiry; or both kinds, 2 calls | 2.11 million | receipts bound to the disk, a serial journal, no refusal for what a crash left, an approval consumed once and its Decisions accounted for |
| `retention` | 2 processes, 2 records, holds, Holders, candidates, approvals and transactions; 3 writes by others while 2 calls review; or 4 calls that authorize, 1 write and 1 fault; or 7 calls that also execute and read, and 1 fault; or 5 calls that authorize, execute and read beside Holders that register before or after | 455 488 | an authorization rests on what was reviewed, a deletion has its own approval, a proof covers every Holder, a tombstone stays |
| `exec_final` | the instance of `execution` with fewer callers | | the statement of section 4, violated |

Why the bounds are enough. Takeover needs a dead holder and two takers: two processes, one of which dies
and comes back. A crash in a guard needs the second crash; with the depth bound of the code two crashes
reach the guard of a guard. Lock attempts are two, the smallest number that has a retry (the code's larger
number repeats the same loop). What `lock` says of safety the proofs of section 5 say for all numbers. A
ledger lock is judged, released, taken again and removed by two writers when one of them calls twice; the
double append needs a third, because both others must still be inside. In `loop` the leftovers of earlier
crashes are initial states (the lock of a process long gone, one guard or two, a file without a pid), so
that the three faults are left for what happens to the takers; an append interrupted twice needs three
calls. A cancellation that dies is finished by the other canceller, and the second Decision belongs to a
cancellation that must be refused; the second command of the runner is the later attempt whose handle must
not be taken for the first's. Three transitions reach two legal edges from a created run, an illegal one
and a refused one, and racing settlements need two processes and one attempt. The adapter's single-caller
promises need the violation found, repeated and released with an attempt before and after. Two approvals
and two runs that race for them are the four calls of `governed`, and one edit is what can come between an
approval and its run; a third version of pack and policy is the one whose rules widen or deny. The two
stages of `session` have every kind of what may follow a stage, and five commands are a lease, a run, its
grant, a settlement and the next one's capture or the replay of the same. Two schedules compete for a
Decision and for a proposal; a budget of two is used up by ticks that overlap. Three admissions are one
that is given up for dead, one that took its place and a third that finds what both left; a second identity
is the one that a retry may name. In `retention` two
calls are a preparation and its authorization, with room for a hold, its release and a Holder or a
classification between any of their reads; four are two of each, for one approval; seven add two executions of
candidates that name one record, and a reader; five are a preparation, its authorization, its execution, a
settlement and a reader, with a second Holder that registers before the review or after it, so that a
transaction is covered in part.

Symmetry of processes is used in `run_safety` and `execution`, of processes, bodies and approvals in
`decisions`, and of everything but Holders in `retention`; these check no liveness and no definition singles out
a member of the sets.

Type invariants are in no run: all of them are proved (section 5).

Fairness. `FairSpec` of `SessionLock`, `RegistryLedger` and `LoopLedger` asks only that a running process
that is inside a call keeps executing it: the calls are synchronous JavaScript that waits for nobody, so
the operating system's scheduling justifies weak fairness of each process's steps. Nobody has to call,
crash, restart or let a lock grow old. In `lock` the owner also releases, which every caller does in a
`finally`. `FairSpec` of `ExecutionCancel` asks the same of a canceller, whose waits are bounded by a timer
(`waitFor`), and nothing of runners and children. `Fairness` of `Runtime` asks it of the daemon's workers,
which look at `daemon.json` before every tick and whose sleeps end by a timer or the signal; nobody has to
start, stop or tick. The other modules state no fairness: their properties are of safety, and their loops are
those of the lock and the ledgers.

## 4. Where the code and its texts disagree

One sentence of the source is contradicted by the execution that the run `exec_final` exhibits:
`run-core.js:9` promises that a final run is never rewritten. `evaluateExecution` writes back a run it read
earlier, without the run's lock, and can undo a final transition.

What follows was met while modelling. The properties are stated so that they say what remains true; where
they carry an exception (`raced`, `stray`, `cut`, `overlap`, `torn`, `Misled`, `Overtaken`), this is why.

Governed ledger.
- `registry-ledger.js:101` says that two appends under a doubly held lock fail the next fold. The guard
  judges one fold and the chain head is read a second time (line 233), so the second event can link
  correctly to the first and spend the same subject. The way in is the gap between `statSync` and the first
  read of the token (lines 149 and 158). Hence `SpentOnce` is claimed while nothing has expired.

Harness.
- `run-core.js:88` says that a failing emission propagates; the ledger returns `{ok: false}` and
  `emitRunEvent` drops it (line 107), so a call may succeed without its event.
- `execution-adapter.js:466` says that a run must not march past a violated boundary. The block happens only
  for a verdict that was no violation before (448); after a human resumes the run nothing blocks it again.
  `NewViolationStopsRun` therefore speaks of new violations.
- Two preparations of a run both find no record and the second write replaces the first (216); racing
  evaluations and releases drop each other's entries (431); two evaluations at once record the violation
  twice (452); a crash between the removal of a worktree and the record of it (754) makes every later
  release fail.
- A checkpoint reads the run twice without its lock, so its state and its digest may be those of different
  records, and its summary is written over a transition in progress.
- `execution-handles.js:5` promises a handle for every running command, but `execution-domain-adapter.js:197`
  removes a stale handle by its path, which by then may hold another command's.
- `docs/specs/F081-governed-execution-cancellation.md:160` says that a retry with the same Decision finishes
  the settlement. A retry that finds no record takes the handle in the run's place for its own
  (`execution-cancel.js:586`); when that is a later attempt's, left by a runner that died, every retry is
  refused. When the runner removes the handle between the retry's `existsSync` and its read
  (`execution-handles.js:298`), the retry throws and has to be repeated. `RetrySettles` excludes the two cases
  (`Misled`) and claims the rest, also for a retry that finds no handle.

Loop ledger and governed runner.
- `docs/CLI_REFERENCE.md:360` says that the approval of a route stage authorizes one execution of that stage. The
  stages of a route share a ledger (`route-commands.js:111`) and the runner takes the latest unused approval,
  whatever stage it names (`governed-runner.js:815`). `OnlyWhatWasApproved` claims the subject for sessions only.
- When the very first append is interrupted after its line, there is a ledger without an anchor, which every
  later append refuses; the comment at `loop-ledger.js:92` excuses a lag of one record. A verifier takes no
  lock and may report a truncation when an append comes between its two reads. After several interrupted
  appends the anchor lags by as many records.
- A line cut short swallows the next record. `AnchorFollows` is claimed while no line was cut.
- The policy file of a loop is read twice in one run; the event `policy.evaluated` always reports a denial,
  since what it looks at is never set; the key of a route stage is fixed, so a stage is approved and executed
  once for ever; after a crash past the marker an older unused approval is not found until a new one is given.

Sessions.
- The web console writes the manifest without the lock and may bring back an older status or lease. From then
  on (`raced`) `FencedOut` claims nothing; `CursorIsEarned` and `ProjectionIsBehind` always hold.
- A crash after the marker and before the execution is recorded ends in a denial, though the command may have
  run; one between the execution and its admission leaves the attempt waiting for ever.
- `session-stage-runner.js:1251` says that an advancing duplicate replays any projection a crash left unbuilt.
  `refreshProjection` returns `null` when its reading of the ledger is refused (1229), and nobody looks at that. A
  grant or the console, which append without the session's lock, cause it when they come between the verifier's
  reads of lines and anchor: the settlement succeeds and the manifest lacks the stage until the next one.
  `ReplayRebuilds` excepts a settlement that is overtaken so (`Overtaken`); without the exception TLC finds it
  violated.
- A settlement looks neither at the attempt's status nor at the class of its provider.

Runtime.
- A schedule's record is visible before its witness, and a tick that meets it then, or that read the ledger
  before, throws; a worker dies of it. When the admission crashed there (`cut`), every tick fails from then on.
  A crash in a revocation leaves a file that makes the next one fail.
- `stop` removes `daemon.json` though it may by then be another daemon's (`stray`); a torn `daemon.json` kills
  the worker that reads it; a crash in `start` leaves its lock for good, a refused fence releases it.
- A tick ignores that its event was refused, so a run may go uncounted. Two schedules with one finding meet at
  the same proposal, and the second one's run fails.

Artifacts and approvals.
- A lock is given up for dead by its age, and its holder removes whatever lock is there. When a living holder
  is outlived (`overlap`), two revisions may be committed against one head, both acknowledged, and the store
  is refused from then on; what `ValidIsSerial` says is that no such store is accepted. A reader that replayed the
  journal earlier may append `aborted` after `committed`. A line cut short (`torn`) is refused for ever.
- `canonical-artifacts.js:1776` says that an admission never claims an authority the registry no longer grants
  when it appends; the principal can be revoked between the second verification and the commit.
- `approval-registry.js:904` says that one authorization can never be replayed, and 1027 that consumption and
  settlement are one transaction. After a crash between the Decision and the consumption the approval reads as
  unconsumed, and a retry that names another identity settles a second Decision in another home: TLC finds
  "every approval settles one Decision" violated. `AuthorizationAccounted` says that the approval is consumed once
  all the same, for a Decision that is committed, and that there is no more than one Decision too many for each
  crash or failing append, and for the process inside.

Retention.
- `retention-registry.js:37` says that any drift in what was reviewed refuses the authorization. The three ledgers
  are read again one after the other under none of their locks, so the reads may add up to what was reviewed
  although the ledgers never said it at one moment: a record is reclassified after it was read and a hold that
  would have shown is released before it is. `ReviewIsCurrent` claims each ledger for itself.
- A hold placed after the authorization does not stop the execution, and a Holder registered after it is not
  covered (`executeDeletion` looks at the candidate only). `evaluateRetention` ignores tombstones, so a later
  candidate may name a record that is deleted already; `TombstonesStand` says that this does not bring it back.
- When the consumption is followed by a crash or a full ledger the approval is spent and the candidate stays
  prepared, as the comment at 1271 says. `DeletionsAreApproved` allows it after a fault only.

## 5. The proofs

The proofs hold for every set of processes, every number of attempts, every depth, and any number of crashes and
restarts. They assume only the named assumptions of the modules: bounds are naturals, the values that stand for
"no file" and "unreadable" differ from records, the set of attempt ids is finite, `None` is no child of a
runner, no version, no entry of a ledger, no content and no approval, one Decision identity is apart from the
others, `Nil` is no process and no line of a loop's ledger, `Unset` is no status, no manifest and no number, and
the instances of the adapter are some of the combinations of callers, operations and faults. Every inductive
invariant below was first checked by TLC with the configuration of its module's run.

**SessionLockProof** proves `TypeOK`, `MutualExclusion`, `NoLeakedLease`, `OnlyStaleOrOwnRemoved` and that
`SessionLock` implements `PathLock`. `MutualExclusion` alone is not inductive: a taker that has compared
the stale bytes relies on them being there when it removes the path. The invariant `IInv` adds that an
owner's lease is in the directory (`OwnerInv`), that a taker about to remove a path still has the bytes it
compared below it, that whatever a process is taking over names somebody who is gone for good (`FrameInv`:
a dead process never comes back under the same start time), and that a path holds one entry (`DirInv`).
The step that matters is `Rm`: the guard's path is made of the path and the bytes it guards, so two
processes about to remove the same bytes would own the same guard, and a lease that is gone for good
is never written again.

The second half of the module is about what that lock protects, `SessionStages`: its types, `CursorIsEarned`,
`ProjectionIsBehind`, `FencedOut` and `ReplayRebuilds`, for any route, any number of commands, requests and
crashes. The console's requests write the manifest without the lock, so what a command has read of it may be out
of date. The invariant `SessionInv` says that the ledger alone decides (`Earned`): an attempt is captured only
when every stage before its own has been completed and its gate passed, in the ledger's order, is settled once,
and completes its stage after that; hence the cursor is a prefix of the route. Every manifest, on disk or in
somebody's hands, is `Sound`: it carries a lease that was minted and a prefix of the cursor, which stays one
because the ledger only grows (`Grows`). `CommandInv` says what a command knows of its attempt by its step:
before it writes the manifest, its copy has the cursor of the ledger. That the newest fence is the one on disk
and the one of the attempt that is about to be settled is claimed until a console has written a stale reading
(`FenceInv`).

**HarnessRunProof** proves `TypeOK`, `HistoryIsLegal`, `TrailFollowsRecord`, `SummaryIsCurrent`,
`AttemptSettlesOnce` and that `HarnessRun` implements `RunLifecycle`. It relies on the lock as `PathLock`
describes it, which the first proof establishes of the lease files. `IInv` says that the holder is the one
process between its read and its unlock (`LockInv`), that what it is about to write is still what the
stored record should become (`WriteInv`), that a summary is behind only while its writer is between two
writes (`SummaryInv`), and that the events follow the history up to the one still to be emitted
(`TrailInv`). Torn records need no special case: the invariant speaks of readable ones only.

The second half of the module proves `HistoryIsLegal` and `NewViolationStopsRun` of `ExecutionAdapter`, in which
evaluations, releases and checkpoints write the run's record beside its lock. None of the first half's facts
about the holder survives that: the record may change between a holder's read and its write. What survives is
about values (`Histories`): whatever a process has in hand was once the record, every step extends it by a legal
edge or by a section that is no history, and so the record is always a legal one whoever writes last.
`NewViolationStopsRun` speaks of a single caller (`SoloInv`). `Stopping` follows it from the step at which it
records the violation, through the transition it calls, to the step that tells whether the run is stopped: the
copy it has is the record, so the transition it asks for is one the state machine has and is not refused, unless
the run is in a state already from which nothing is executed.

Of the same behaviours it proves `ExecutionTypeOK` and, once more, `AttemptSettlesOnce`: of what the lock of a
run protects, its attempts are all that only `recordAttempt` writes, and for them the lock is enough. The holder is
the one process between its read and its unlock, and an attempt it is about to write had not settled
(`Settling`). The types need a little of the control: an attempt is drawn before it is recorded, and a
comparison is made before it is written (`Knowing`).

**RegistryLedgerProof** proves the five invariants of `RegistryLedger`: `TypeOK`, `Exclusion`,
`LedgerIntact`, `SpentOnce` and `AckedIsChained`. `IInv` has a part that always holds and a part that holds
while no lock file has outlived its age. Always: a call that has appended finds its line, or a torn one, in
the file, and lines only accumulate, so a second fold that succeeds proves the line chained (`Recorded`).
While nothing has expired (`Quiet`): nobody is at a reclaiming step, so the token in the lock file is the
holder's (`Judged`), nobody else appends, and what the holder found of the ledger at the fold, at the
second read and at the size check is still so at its append; one line on a whole ledger leaves it whole
(`AppendWhole`). After an expiry exclusion is lost, as section 4 says, and only the first part remains.

**ExecutionCancelProof** proves `TypeOK`, `SignalledOnce`, `CitedIsOnDisk`, `TerminatedWasObserved` and
`KilledIsAttributed`, for any number of cancellers and runners, crashes, resumed calls and refused appends. None
of them speaks of what a call has in hand, so none is inductive. `IInv` says by the step of each call what it
knows (`Knows`): the request it acts on is the one its Decision made, the child it signals is named by that
request, its draft claims a termination only of a child that was signalled and is gone, and what it cites is the
record on disk. `OneSignaller` says that one request is ever made and that the call that made it is the only one
that may still signal, and has not: a resumed call never reaches `signal`, and a crash between the two sends no
signal at all. The last property needs a fact about children no call names: a child whose command failed
without the attribution has received no signal, and none will come, because it is gone or no handle names
it (`BeyondSignals`).

**GovernedRunnerProof** proves `TypeOK`, `SpawnedOnce`, `OnlyWhatWasApproved` and `TurnedAwayRightly` on the
three surfaces. A marker is the only thing two processes share, so `IInv` says that a key has one marker and
that it was taken for an approval on the ledger (`Marked`), that of the runs with one key one at most is
between its marker and its record (`HoldsAlone`), and that it knows whether its command was spawned and
recorded (`Held`). What a run has looked at by its step (`Lawful`) is what its command runs with: the policy
that was evaluated, the pack that does not widen, the versions its attempt froze. That a run is turned away
rightly rests on the approval it picked being the last it saw that was not executed (`Choice`), and on
markers never being removed.

The second half of the module is about the ledger the approvals are on, `LoopLedger`, for any number of
processes, leftovers and faults and any depth of guards: its types, `AnchorFollows`, and that it implements
`PathLock`. `LockInv` says that whoever is in the callback or under a guard is named by the file of it (`Owned`), and
that whatever a process has judged on its way down to a guard is still reclaimable, and is still in its place when it
is removed (`Judged`). Every change of a lock file is `Rightful`: the file is free, or one's own, or judged to be gone
and under one's guard; two removals of one file would need two owners of one guard. A crash in the callback leaves
the lock file in place and makes it `PathLock`'s orphan. `AnchorFollows` needs that a writer at its append has read
the ledger as it is, and at its anchor has added one line to what it read (`WriterKnows`), and then says of a
ledger on which no line was cut (`Whole`) that the anchor is behind by the interrupted appends and the one that is
not finished.

**RetentionProof** proves `DeletionsAreApproved`, `ProofCoversHolders`, `TypeOK` and two action properties,
`ReviewIsCurrent` and `TombstonesStand`. The reads of a derivation take no lock, so what a process holds may be
out of date; `IInv` says that while it is in the append to the candidates each of its three readings was true
at some moment since it began (`Authorization`, `Watched`), that the approval it has consumed is for the content of
its candidate and authorizes no other, and that an approval spent for no candidate is about to be recorded
or was lost to a fault (`Spent`). A transaction covers the Holders of its candidate's content, which include the
ones known when the authorization began (`Granted`, `Executed`, `KnownAreRegistered`), and receipts that are
settled stay settled, so a snapshot that a reader takes before it looks at the coverage never claims too much
(`Snapshot`). Everything a process knows survives the steps of the others because ledgers only grow
(`Grows`), except the classifications and holds, of which only the history is claimed.

**RuntimeProof** proves `TypeOK`, `RecordHasWitness`, `EndStopsRuns` and `OneWorkerTicks`, for any schedules,
budgets, callers and workers. `RecordHasWitness` needs that one process at a time is between creating a record
and its witness (`Alone`) and that the record is still the one it created. `EndStopsRuns` bounds what
ticks that overlap can do to a budget: a process in a run turned to its schedule when the ledger showed no end and
runs left, and has recorded none since (`Fresh`); an end that is on the ledger is therefore later than that
reading, so the run it is underway with is its first after the end. `OneWorkerTicks` needs the start lock,
which a crash leaves behind and nobody takes twice, and what the starting process finds in daemon.json at
each of its steps (`Named`).

**ApprovalsProof** proves `TypeOK`, `ApprovalsTypeOK`, `AckedIsBound`, `ValidIsSerial`, `RefusalMeansRace` and
`AuthorizationAccounted` of `Approvals`, the artifact home included, for any processes, contents, keys and
approvals, and however many admissions a stolen lock lets in at once. Every step of a process is first given a
form that says what it does to the journal, the files and its locals (`NextForm`), so that each layer of `IInv` is
proved from fourteen forms. `SlotInv`: each claim is an attempt's only one, every
slot below a claimed one is claimed, and whoever writes a pair made the first claim of its slot (`Owned`), which is
what `settleGuard` tells; a slot number never exceeds the number of attempts, so the bound is never met.
`CommitInv`: an attempt commits once, in its own slot, whose pair nobody else writes, so committed pairs stay as
they are. `ChainInv`: a commit was earned against a head the journal once had (`Earned`); racing commits may still
break the chain, but then `validateSettlement` finds it broken, and in a journal it accepts each head is the
one before. `TurnInv` speaks of behaviours in which no two admissions were inside and no line was cut: the
admission inside then knows the head and the highest slot, since readers beside it append nothing but `aborted`
records of older slots, and so no guard and no check can fail. `ApprovalInv`: the writer of the
governed append is the process between its reservation and its record, the approval it was given stays as
it found it, so it is consumed once, and what it is about to cite is committed with the content it asked for. Of the
Decisions settled for an approval, the ones that no consumption cites are counted: one may belong to the writer
inside that is about to cite it (`Pending`), and every other one is the loss of a fault (`Orphans`).

Only model-checked: liveness (`LoneCallerReclaims`, `LoneWriterReclaims` of both ledgers, `RetrySettles`,
`OrphanEnds`), which is out of the prover's reach together with `ENABLED`. Every invariant and every action
property of a run that passes is stated by a theorem, and so is every module's type invariant. `FinalIsForever` is the property that is violated. Facts that need induction over
data, such as what a fold computes on every ledger, are out of reach as well, since the provers cannot
instantiate the induction theorems; none of the properties above needs one. No module uses a recursive operator.

## 6. Abstractions

- Files are written whole or torn; bytes, formatting, time stamps and wording are left out. Hashes and
  random ids do not collide. Time is an event: a lock grows old, a lease lapses, a deadline passes, a context
  expires, whenever it likes. Pids are not reused except in `SessionLock`.
- In `HarnessRun` the lock is `PathLock` and the ledger append either adds the event or is refused. A
  crashed process stays dead: a new process behaves like one that had not called yet.
- In `HarnessRun` two callers may open the same attempt id, which `recordAttempt` leaves to its caller. The
  adapter draws random ids (`execution-adapter.js:568`), which do not collide in `ExecutionAdapter`.
- `admitted` needs evaluations to be complete; whether they are is an input of the call.
- The run's `execution` section is reduced to the verdict and the release mark, and the summary of
  checkpoints is left out of the record, as the checkpoint's own digest leaves it out.
- In `ExecutionAdapter` `runGovernedCommand` either is refused or takes effect and completes or fails, inside
  or outside the declared prefixes; its gates are `GovernedRunner`'s subject. `runPreparedExecution` checks the
  run's state and the workspace in one step.
- In `ExecutionCancel` an append with its guard is one step or refused. A child stands for its process group.
  Every Decision resolves and is spent in this run only. The fence counter is a step that may be refused.
  Attribution is by run, as in the code: the failure of an attempt that follows a cancelled one is marked
  as cancelled too. The record reaches its place by `link`; the fallback for file systems without hard
  links is left out.
- In `LoopLedger` the hundred spins after which a writer gives up, the exclusive create where `link` fails and
  the adoption of a ledger without an anchor by `ledger seal` are left out.
- In `GovernedRunner` a pack version stands for everything the pack, the route or the runner registry says, and
  the policy's evaluation of a command text is the version's verdict. Dry runs are left out.
- In `SessionStages` every stage is a verb stage and a refused command is no step; the death of a command
  also stands for a file operation that throws. The timeline, by which nothing
  decides here, checkpoints and their restore, and requests or grants from before frozen inputs are left out.
- In `Runtime` whether a schedule is due or in its window is open, and the events that decide nothing (`wake.*`,
  `daemon.*`) are left out. The guard of an append sees the whole ledger.
- In `ArtifactAdmission` a content is its body and the revision it expects; a refusal for other content of the
  same slot is `stale`. Traces between homes, lifecycle transitions, journals without hashes and size ceilings
  are left out. In `Approvals` one Decision identity has the home of `ArtifactAdmission`; in the
  homes of the others an admission is one step. Validity windows and scopes, which are judged at the call,
  are left out; a writer that waits for the approvals' lock in vain has changed nothing.
- In `Retention` every hold, release and Holder brings a Decision of its own that resolves; clocks are any of a few
  readings, since a caller may give one; the consumption of an approval is one step, whose own crashes are
  `Approvals`' subject; a receipt is settled or not; the second fold of the transactions by `deletionProof` is left
  out, since it reads only a hash that never changes; a busy lock is given up at once.
- The governed ledger's size ceiling counts events, not bytes.

## 7. What is not modelled

`PROJECT.json` lists every part under `components` with its reason. Read-only projections, reports, scaffolding,
retrieval, repository scans and argument parsing have no protocol to check. The schemas of records and the
declarative table of ledger families are data validation. The table of stage adapters
(`session-stage-runner.js:94`) ships empty, so for now a session refuses every verb stage; `SessionStages`
models the runner with adapters installed, as its tests do. Of sessions, `currentStage`, `verifySession`, the
strict completion check and external or native providers are left out; of the web console, the writer of
completed stages of routes from before the cursor. Everything else that is not modelled is on the plan.

## 8. The plan

What is left, in this order; each module takes the appends of the ledgers as single steps with their guards
inside, which `RegistryLedger` and `LoopLedger` justify.

1. An abstract event ledger with in-lock guards, implemented by `RegistryLedger` while nothing has expired, and the
   other registries as instances of it with the guards that differ.
2. Racing preparations beside `ExecutionAdapter`; traces between artifact homes and the Decision they settle.
3. Sync: envelopes applied once, conflicts kept.
4. Policy evaluation and gates as operators checked against a reference definition.

## 9. Running it

In this directory: `tlc -config SessionLock_lock.cfg SessionLock.tla`, and likewise for the other
configurations (`PROJECT.json` names the module of each run; where there is an `MC` module, it is that one). The runs
take from seconds to three minutes on two workers. `tlapm SessionLockProof.tla`, and likewise for the other
modules named `...Proof`, checks the proofs. The runs that are expected to be violated print the execution
described in section 4.
