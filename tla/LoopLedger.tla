------------------------------ MODULE LoopLedger ------------------------------
(***************************************************************************)
(* The tamper-evident ledger of scripts/lib/core/loop-ledger.js.  An       *)
(* append takes a lock file named by its holder's pid; a lock whose holder *)
(* is gone is removed under a guard, which is a lock of the same kind one  *)
(* level deeper and may itself have to be reclaimed.  Under the lock the   *)
(* ledger is compared with its anchor, one chained line is appended and    *)
(* the anchor is moved to it.  A verifier reads both without the lock.     *)
(* One file system operation per step.  Level 0 is the ledger's lock, and  *)
(* level d + 1 the `.takeover` guard of level d.                           *)
(*                                                                         *)
(* Left out: pids that are used again, the hundred spins after which       *)
(* acquireLock returns to its caller, and the exclusive create that stands *)
(* in for link(2) on file systems without hard links.                      *)
(***************************************************************************)
EXTENDS Integers, Sequences, FiniteSets

CONSTANTS
    Pid,            \* processes, each with a pid of its own
    MaxUses,        \* bound: appends and verifications of all processes
    MaxFaults,      \* bound: crashes and I/O errors
    Nil,            \* no lock file, no anchor
    Gone,           \* the pid in a lock left by a process gone long ago
    Foreign,        \* a lock file that holds no pid
    Torn,           \* a line cut short, without its newline
    Garbled         \* a line that begins with a torn one

ASSUME BoundsAssumption == MaxUses \in Nat /\ MaxFaults \in Nat

ASSUME ValuesAssumption ==
    /\ Cardinality({Nil, Gone, Foreign}) = 3
    /\ {Nil, Gone, Foreign} \cap Pid = {}

\* The hash of a line is the trail of all lines up to it, by writer and number.
Hash == Seq((Pid \cup {Gone}) \X Nat)
Line == [by : Pid \cup {Gone}, n : Nat, prev : Hash]

\* What is left of a line that was cut short does not parse as one.
ASSUME LinesAssumption == {Torn, Garbled} \cap Line = {}

VARIABLES
    lock,           \* lock[d]: the pid in the lock file of level d
    aged,           \* is a lock file without a pid older than its grace period?
    records,        \* the lines of the ledger
    anchor,         \* head.json: how many lines, and the last one's hash
    alive,          \* alive[p]: the process has neither ended nor crashed
    pc,             \* the next step of each process
    level,          \* level[p]: the level it is acquiring
    raw,            \* raw[p][d]: the pid it read at level d
    seen,           \* seen[p]: the lines it read
    result,         \* result[p]: what its last call returned
    acked,          \* lines whose append returned them
    uses, faults, torn    \* counters for the bounds; lines cut short

lockVars == <<lock, aged>>
fileVars == <<records, anchor, acked, torn>>
takeVars == <<level, raw>>
ledgerVars == <<lockVars, fileVars, takeVars, alive, pc, seen, result, uses, faults>>

---------------------------------------------------------------------------
(* Values.                                                                 *)

MAX_TAKEOVER_DEPTH == 2
Level == 0..MAX_TAKEOVER_DEPTH

GENESIS == << >>

\* hashRecord: the hash of a line stands for it and for every line before it.
HashOf(line) ==
    IF line \in {Torn, Garbled} THEN GENESIS ELSE Append(line.prev, <<line.by, line.n>>)

LastHash(lines) == IF lines = << >> THEN GENESIS ELSE HashOf(lines[Len(lines)])

\* headProblem: is the anchored head missing from these lines?
HeadProblem(lines, head) ==
    IF head = Nil
    THEN lines # << >>
    ELSE \/ head.count \notin 1..Len(lines)
         \/ lines[head.count] \in {Torn, Garbled}
         \/ HashOf(lines[head.count]) # head.headHash

\* verifyLedgerChain, its loop over the lines.
Chained(lines) ==
    \A i \in 1..Len(lines) :
        /\ lines[i] \notin {Torn, Garbled}
        /\ lines[i].prev = LastHash(SubSeq(lines, 1, i - 1))

\* appendFileSync: a line without its newline swallows what is appended to it.
AppendText(lines, text) ==
    IF lines # << >> /\ lines[Len(lines)] = Torn
    THEN [lines EXCEPT ![Len(lines)] = IF text = Torn THEN Torn ELSE Garbled]
    ELSE Append(lines, text)

\* A mutant: every pid counts as running.
Bug_NobodyIsGone(pid) == pid = Foreign /\ aged

\* holderIsReclaimable: kill(pid, 0) finds no such process, or there is no pid
\* and the grace period is over.
HolderIsReclaimable(pid) ==
    \/ pid = Gone
    \/ pid = Foreign /\ aged
    \/ pid \in Pid /\ ~alive[pid]

Outcomes == {"none", "ok", "locked", "chain", "tampered", "failed", "intact"}

\* Steps inside the callback of withLedgerLock.
Inside == {"fold", "line", "anchor", "release"}
Holds(p) == alive[p] /\ pc[p] \in Inside

LedgerTypeOK ==
    /\ lock \in [Level -> Pid \cup {Nil, Gone, Foreign}]
    /\ aged \in BOOLEAN
    /\ alive \in [Pid -> BOOLEAN]
    /\ pc \in [Pid -> {"idle", "claim", "read", "check", "compare", "remove", "unguard",
                        "verifyHead"} \cup Inside]
    /\ level \in [Pid -> Level]
    /\ raw \in [Pid -> [Level -> Pid \cup {Nil, Gone, Foreign}]]
    /\ result \in [Pid -> Outcomes]
    /\ uses \in Nat /\ faults \in Nat /\ torn \in Nat

---------------------------------------------------------------------------
(* acquireLock.                                                            *)

Ready(p, step) == alive[p] /\ pc[p] = step
Proceed(p, step) == pc' = [pc EXCEPT ![p] = step]

Unread == [d \in Level |-> Nil]

\* The call returns or throws, and what it read is forgotten.
Finish(p, outcome) ==
    /\ result' = [result EXCEPT ![p] = outcome]
    /\ Proceed(p, "idle")
    /\ raw' = [raw EXCEPT ![p] = Unread]
    /\ level' = [level EXCEPT ![p] = 0]
    /\ seen' = [seen EXCEPT ![p] = << >>]

\* appendLedgerRecord is called.
Call(p) ==
    /\ Ready(p, "idle")
    /\ uses < MaxUses
    /\ uses' = uses + 1
    /\ level' = [level EXCEPT ![p] = 0]
    /\ Proceed(p, "claim")
    /\ result' = [result EXCEPT ![p] = "none"]
    /\ UNCHANGED <<lockVars, fileVars, alive, raw, seen, faults>>

\* claimLock: link(2) publishes a file that already holds the pid.  Whoever gets
\* a guard returns to the level it guards.
Claim(p) ==
    LET d == level[p] IN
    /\ Ready(p, "claim")
    /\ IF lock[d] # Nil
       THEN Proceed(p, "read") /\ UNCHANGED <<lock, level>>
       ELSE /\ lock' = [lock EXCEPT ![d] = p]
            /\ IF d = 0
               THEN Proceed(p, "fold") /\ UNCHANGED level
               ELSE Proceed(p, "compare") /\ level' = [level EXCEPT ![p] = d - 1]
    /\ UNCHANGED <<aged, fileVars, alive, raw, seen, result, uses, faults>>

\* readLockRaw; a lock that is gone again is claimed in the next spin.
Read(p) ==
    LET d == level[p] IN
    /\ Ready(p, "read")
    /\ raw' = [raw EXCEPT ![p][d] = lock[d]]
    /\ Proceed(p, IF lock[d] = Nil THEN "claim" ELSE "check")
    /\ UNCHANGED <<lockVars, fileVars, alive, level, seen, result, uses, faults>>

\* holderIsReclaimable.  A live holder at any level ends the attempt, and
\* withLedgerLock tries again or, after LOCK_WAIT_MS, gives up.
Check(p) ==
    LET d == level[p] IN
    /\ Ready(p, "check")
    /\ \/ /\ ~HolderIsReclaimable(raw[p][d])
          /\ \/ /\ level' = [level EXCEPT ![p] = 0]
                /\ raw' = [raw EXCEPT ![p] = Unread]
                /\ Proceed(p, "claim")
                /\ UNCHANGED <<seen, result>>
             \/ Finish(p, "locked")
       \/ /\ HolderIsReclaimable(raw[p][d])
          /\ d = MAX_TAKEOVER_DEPTH
          /\ Finish(p, "chain")
       \/ /\ HolderIsReclaimable(raw[p][d])
          /\ d < MAX_TAKEOVER_DEPTH
          /\ level' = [level EXCEPT ![p] = d + 1]
          /\ Proceed(p, "claim")
          /\ UNCHANGED <<raw, seen, result>>
    /\ UNCHANGED <<lockVars, fileVars, alive, uses, faults>>

\* A mutant: the lock is not read again under the guard.
Bug_CompareSkipped(p) ==
    /\ Ready(p, "compare")
    /\ Proceed(p, "remove")
    /\ UNCHANGED <<lockVars, fileVars, takeVars, alive, seen, result, uses, faults>>

\* Under the guard: does the lock still hold the bytes that were judged?
Compare(p) ==
    LET d == level[p] IN
    /\ Ready(p, "compare")
    /\ Proceed(p, IF lock[d] = raw[p][d] THEN "remove" ELSE "unguard")
    /\ UNCHANGED <<lockVars, fileVars, takeVars, alive, seen, result, uses, faults>>

Remove(p) ==
    /\ Ready(p, "remove")
    /\ lock' = [lock EXCEPT ![level[p]] = Nil]
    /\ Proceed(p, "unguard")
    /\ UNCHANGED <<aged, fileVars, takeVars, alive, seen, result, uses, faults>>

\* removeLock(guardPath), whoever the guard names by now.
Unguard(p) ==
    /\ Ready(p, "unguard")
    /\ lock' = [lock EXCEPT ![level[p] + 1] = Nil]
    /\ Proceed(p, "claim")
    /\ UNCHANGED <<aged, fileVars, takeVars, alive, seen, result, uses, faults>>

---------------------------------------------------------------------------
(* appendLedgerRecord, under the lock.                                     *)

\* readLedger and readAnchor: only a holder of the lock writes either.
Fold(p) ==
    /\ Ready(p, "fold")
    /\ seen' = [seen EXCEPT ![p] = records]
    /\ IF HeadProblem(records, anchor)
       THEN Proceed(p, "release") /\ result' = [result EXCEPT ![p] = "tampered"]
       ELSE Proceed(p, "line") /\ UNCHANGED result
    /\ UNCHANGED <<lockVars, fileVars, takeVars, alive, uses, faults>>

NewLine(p) == [by |-> p, n |-> Len(seen[p]) + 1, prev |-> LastHash(seen[p])]

AppendLine(p) ==
    /\ Ready(p, "line")
    /\ records' = AppendText(records, NewLine(p))
    /\ Proceed(p, "anchor")
    /\ UNCHANGED <<lockVars, anchor, acked, torn, takeVars, alive, seen, result, uses, faults>>

\* A mutant: the count is that of the lines before the append.
Bug_AnchorCount(p) ==
    /\ Ready(p, "anchor")
    /\ anchor' = [count |-> Len(seen[p]), headHash |-> HashOf(NewLine(p))]
    /\ acked' = acked \cup {NewLine(p)}
    /\ result' = [result EXCEPT ![p] = "ok"]
    /\ Proceed(p, "release")
    /\ UNCHANGED <<lockVars, records, torn, takeVars, alive, seen, uses, faults>>

\* writeAnchor; the record is returned once the lock is released.
WriteAnchor(p) ==
    /\ Ready(p, "anchor")
    /\ anchor' = [count |-> Len(seen[p]) + 1, headHash |-> HashOf(NewLine(p))]
    /\ acked' = acked \cup {NewLine(p)}
    /\ result' = [result EXCEPT ![p] = "ok"]
    /\ Proceed(p, "release")
    /\ UNCHANGED <<lockVars, records, torn, takeVars, alive, seen, uses, faults>>

\* removeLock(lockPath).
Release(p) ==
    /\ Ready(p, "release")
    /\ lock' = [lock EXCEPT ![0] = Nil]
    /\ Finish(p, result[p])
    /\ UNCHANGED <<aged, fileVars, alive, uses, faults>>

---------------------------------------------------------------------------
(* verifyLedgerChain, by whoever is about to run a governed command.       *)

VerifyLines(p) ==
    /\ Ready(p, "idle")
    /\ uses < MaxUses
    /\ uses' = uses + 1
    /\ IF Chained(records)
       THEN /\ seen' = [seen EXCEPT ![p] = records]
            /\ result' = [result EXCEPT ![p] = "none"]
            /\ Proceed(p, "verifyHead")
            /\ UNCHANGED takeVars
       ELSE Finish(p, "tampered")
    /\ UNCHANGED <<lockVars, fileVars, alive, faults>>

VerifyHead(p) ==
    /\ Ready(p, "verifyHead")
    /\ Finish(p, IF HeadProblem(seen[p], anchor) THEN "tampered" ELSE "intact")
    /\ UNCHANGED <<lockVars, fileVars, alive, uses, faults>>

---------------------------------------------------------------------------
(* Faults, and time.                                                       *)

\* The process ends, or crashes between two steps.
End(p) ==
    /\ alive[p]
    /\ pc[p] # "idle" => faults < MaxFaults
    /\ faults' = IF pc[p] = "idle" THEN faults ELSE faults + 1
    /\ alive' = [alive EXCEPT ![p] = FALSE]
    /\ Finish(p, "none")
    /\ UNCHANGED <<lockVars, fileVars, uses>>

\* The append stops half way: the process crashes, or appendFileSync throws.
TornAppend(p) ==
    /\ Ready(p, "line")
    /\ faults < MaxFaults
    /\ faults' = faults + 1
    /\ torn' = torn + 1
    /\ records' = AppendText(records, Torn)
    /\ \/ alive' = [alive EXCEPT ![p] = FALSE] /\ Finish(p, "none")
       \/ /\ Proceed(p, "release")
          /\ result' = [result EXCEPT ![p] = "failed"]
          /\ UNCHANGED <<alive, takeVars, seen>>
    /\ UNCHANGED <<lockVars, anchor, acked, uses>>

\* The line, or after it the anchor, cannot be written: the call throws, and
\* the finally block releases the lock.
WriteFails(p) ==
    /\ alive[p] /\ pc[p] \in {"line", "anchor"}
    /\ faults < MaxFaults
    /\ faults' = faults + 1
    /\ result' = [result EXCEPT ![p] = "failed"]
    /\ Proceed(p, "release")
    /\ UNCHANGED <<lockVars, fileVars, takeVars, alive, seen, uses>>

\* removeLock gives up after twenty attempts and leaves the file to whoever
\* comes after this process.
RemoveLockFails(p) ==
    /\ faults < MaxFaults
    /\ faults' = faults + 1
    /\ \/ Ready(p, "unguard") /\ Proceed(p, "claim") /\ UNCHANGED <<takeVars, seen, result>>
       \/ Ready(p, "release") /\ Finish(p, result[p])
    /\ UNCHANGED <<lockVars, fileVars, alive, uses>>

\* UNDECIDABLE_GRACE_MS pass.
Grace ==
    /\ Foreign \in {lock[d] : d \in Level}
    /\ ~aged
    /\ aged' = TRUE
    /\ UNCHANGED <<lock, fileVars, takeVars, alive, pc, seen, result, uses, faults>>

---------------------------------------------------------------------------
(* Crashes before the first step may have left a lock, guards on it, or a  *)
(* file that holds no pid.                                                 *)

Leftovers ==
    {[d \in Level |-> IF d < n THEN Gone ELSE Nil] : n \in 0..(MAX_TAKEOVER_DEPTH + 1)}
    \cup {[d \in Level |-> IF d = 0 THEN Foreign ELSE Nil]}

FirstLine == [by |-> Gone, n |-> 1, prev |-> GENESIS]

LedgerInit ==
    /\ lock \in Leftovers
    /\ aged = FALSE
    /\ \/ records = << >> /\ anchor = Nil /\ acked = {}
       \/ /\ records = <<FirstLine>>
          /\ anchor = [count |-> 1, headHash |-> HashOf(FirstLine)]
          /\ acked = {FirstLine}
    /\ alive = [p \in Pid |-> TRUE]
    /\ pc = [p \in Pid |-> "idle"]
    /\ level = [p \in Pid |-> 0]
    /\ raw = [p \in Pid |-> Unread]
    /\ seen = [p \in Pid |-> << >>]
    /\ result = [p \in Pid |-> "none"]
    /\ uses = 0 /\ faults = 0 /\ torn = 0

Step(p) ==
    \/ Claim(p) \/ Read(p) \/ Check(p) \/ Compare(p) \/ Remove(p) \/ Unguard(p)
    \/ Fold(p) \/ AppendLine(p) \/ WriteAnchor(p) \/ Release(p) \/ VerifyHead(p)

Fault(p) == End(p) \/ TornAppend(p) \/ WriteFails(p) \/ RemoveLockFails(p)

LedgerNext == (\E p \in Pid : Call(p) \/ VerifyLines(p) \/ Step(p) \/ Fault(p)) \/ Grace

LedgerSpec == LedgerInit /\ [][LedgerNext]_ledgerVars

\* A process that runs takes its next step.
FairLedgerSpec == LedgerSpec /\ \A p \in Pid : WF_ledgerVars(Step(p))

---------------------------------------------------------------------------
(* Properties.                                                             *)

\* The lock is the abstract path lock: one holder at a time, and what a crash
\* or a failed removal leaves behind keeps everybody out until it is reclaimed,
\* once, whoever else is reclaiming (acquireLock and its guards).
holder == {p \in Pid : Holds(p)}
orphan == lock[0] # Nil /\ lock[0] \notin holder
PL == INSTANCE PathLock WITH Proc <- Pid
ImplementsPathLock == PL!Spec

\* While no line was cut short the anchor, once there is one, names a line of the
\* ledger: every acknowledged record is behind it, so that cutting one off is
\* noticed, and it lags the end by at most one record for each interrupted append
\* and never makes the next append or verification refuse the ledger.
AnchorFollows ==
    torn = 0 /\ anchor # Nil =>
        /\ ~HeadProblem(records, anchor)
        /\ \A line \in acked : \E i \in 1..anchor.count : records[i] = line
        /\ Len(records) - anchor.count <= faults + Cardinality(holder)

\* Crashed holders, of the lock and of a guard on it, do not keep out a process
\* that has no competition: its first attempt takes the lock, and it is told to
\* remove files by hand only if a guard of a guard was left behind as well.
Deserted(p) ==
    /\ \A q \in Pid \ {p} : ~alive[q]
    /\ \A d \in Level : lock[d] \notin {p, Foreign}
    /\ lock[MAX_TAKEOVER_DEPTH] = Nil
LoneWriterReclaims ==
    \A p \in Pid :
        (Ready(p, "claim") /\ level[p] = 0 /\ Deserted(p)) ~> (pc[p] = "fold" \/ ~alive[p])

=============================================================================
