--------------------------- MODULE RegistryLedger ---------------------------
(***************************************************************************)
(* The governed append of scripts/lib/core/registry-ledger.js: writers     *)
(* contend for an age-judged lock file (acquireLedgerLock) and, under it,  *)
(* fold the ledger, ask the caller's guard, read the chain head, check the *)
(* size ceiling, append one hash-chained line and fold again               *)
(* (appendLedgerEvent).  One file system operation per step.               *)
(*                                                                         *)
(* The guard is the one the families share: an event spends a subject (an  *)
(* approval, a Decision, a cancellation) and no subject is spent twice.    *)
(***************************************************************************)
EXTENDS Naturals, Sequences

CONSTANTS
    Writer,         \* processes that append
    Subject,        \* what an event can spend
    Ceiling,        \* events the size ceiling leaves room for
    MaxCalls,       \* bound: append calls of all writers
    MaxFaults,      \* bound: crashes and I/O errors
    MaxExpired,     \* bound: lock files that outlive staleMs
    MayStall,       \* may a running holder outlive staleMs?
    None,           \* no lock file, no subject, no event
    Torn            \* a line cut short by a crash in the append

ASSUME BoundsAssumption ==
    /\ Ceiling \in Nat
    /\ MaxCalls \in Nat
    /\ MaxFaults \in Nat
    /\ MaxExpired \in Nat
    /\ MayStall \in BOOLEAN

ASSUME ValuesAssumption ==
    /\ None \notin Subject
    /\ None \notin [by : Writer, n : Nat]
    /\ None \notin [lock : [by : Writer, n : Nat], written : BOOLEAN, old : BOOLEAN]

VARIABLES
    lock,       \* the lock file
    ledger,     \* the lines of the ledger file
    alive,      \* alive[w]: the writer has not crashed
    pc,         \* the next step of each writer
    token,      \* token[w]: the token it drew for the lock it created
    seen,       \* seen[w]: what it last read of the lock file
    subject,    \* subject[w]: what its event spends
    head,       \* head[w]: the chain head it read
    result,     \* result[w]: what its last call returned
    calls, faults, expired     \* counters for the bounds

fileVars == <<lock, ledger>>
callVars == <<token, seen, subject, head, result>>
counters == <<calls, faults, expired>>
vars == <<fileVars, alive, pc, callVars, counters>>

---------------------------------------------------------------------------
(* Values.                                                                 *)

\* `${Date.now()}:${pid}:${seq}`: no two locks get the same token.
Token == [by : Writer, n : Nat]

\* The file exists before its token is written into it; old means that its
\* mtime is more than staleMs ago.
LockFile == [lock : Token, written : BOOLEAN, old : BOOLEAN]

Genesis == << >>        \* GENESIS_HASH

\* What readLockToken returns: no text yet, or the token.
Contents(file) ==
    IF file = None THEN None ELSE IF file.written THEN <<file.lock>> ELSE << >>

\* chainHash: the hash names the event's body and, through prev, all before it.
Hash(event) == <<event.prev, event.subject, event.by>>

LastHash(lines) == IF lines = << >> THEN Genesis ELSE Hash(lines[Len(lines)])

\* chainLinkProblem, for every line of the fold; readLedgerFailClosed refuses a
\* line that does not parse.
Linked(lines, i) ==
    /\ lines[i] # Torn
    /\ lines[i].prev = IF i = 1 THEN Genesis ELSE Hash(lines[i - 1])
Folds(lines) == \A i \in 1..Len(lines) : Linked(lines, i)
Parses(lines) == \A i \in 1..Len(lines) : lines[i] # Torn

\* appendFileSync: a line with no newline at its end swallows the next one.
AppendText(lines, line) ==
    IF lines # << >> /\ lines[Len(lines)] = Torn THEN lines ELSE Append(lines, line)

Spent(lines) == {lines[i].subject : i \in {j \in 1..Len(lines) : lines[j] # Torn}}

Results == {"none", "ok", "conflict", "corrupt", "refused", "ceiling"}

\* Steps at which a writer believes it holds the lock.
Inside == {"write", "fold", "head", "size", "append", "refold", "release", "releaseRm"}
Reclaiming == {"token", "reread", "rm"}

\* Types; and, while writers exclude each other, the size ceiling.
TypeOK ==
    /\ lock \in LockFile \cup {None}
    /\ alive \in [Writer -> BOOLEAN]
    /\ pc \in [Writer -> {"idle", "open", "stat"} \cup Reclaiming \cup Inside]
    /\ token \in [Writer -> Token]
    /\ seen \in [Writer -> Seq(Token) \cup {None}]
    /\ subject \in [Writer -> Subject \cup {None}]
    /\ result \in [Writer -> Results]
    /\ expired = 0 => Len(ledger) <= Ceiling
    /\ calls \in Nat /\ faults \in Nat /\ expired \in Nat

---------------------------------------------------------------------------
(* acquireLedgerLock.                                                      *)

At(w, step) == alive[w] /\ pc[w] = step

Goto(w, step) == pc' = [pc EXCEPT ![w] = step]

Return(w, outcome) ==
    /\ result' = [result EXCEPT ![w] = outcome]
    /\ Goto(w, "idle")

\* appendLedgerEvent is called for an event that spends s.
Call(w) ==
    /\ At(w, "idle")
    /\ calls < MaxCalls
    /\ calls' = calls + 1
    /\ \E s \in Subject : subject' = [subject EXCEPT ![w] = s]
    /\ result' = [result EXCEPT ![w] = "none"]
    /\ Goto(w, "open")
    /\ UNCHANGED <<fileVars, alive, token, seen, head, faults, expired>>

\* A mutant: openSync(lockPath, "w").
Bug_OpenOverwrites(w) ==
    /\ At(w, "open")
    /\ token' = [token EXCEPT ![w].n = @ + 1]
    /\ lock' = [lock |-> token'[w], written |-> FALSE, old |-> FALSE]
    /\ Goto(w, "write")
    /\ UNCHANGED <<ledger, alive, seen, subject, head, result, counters>>

\* openSync(lockPath, "wx").
Open(w) ==
    /\ At(w, "open")
    /\ IF lock = None
       THEN /\ token' = [token EXCEPT ![w].n = @ + 1]
            /\ lock' = [lock |-> token'[w], written |-> FALSE, old |-> FALSE]
            /\ Goto(w, "write")
       ELSE Goto(w, "stat") /\ UNCHANGED <<token, lock>>
    /\ UNCHANGED <<ledger, alive, seen, subject, head, result, counters>>

\* writeFileSync(fd, token) reaches the file it opened, even if it was unlinked.
WriteToken(w) ==
    /\ At(w, "write")
    /\ lock' = IF lock # None /\ lock.lock = token[w]
               THEN [lock EXCEPT !.written = TRUE, !.old = FALSE] ELSE lock
    /\ Goto(w, "fold")
    /\ UNCHANGED <<ledger, alive, callVars, counters>>

\* A mutant: every lock is reclaimed.
Bug_AgeIgnored(w) ==
    /\ At(w, "stat")
    /\ Goto(w, IF lock = None THEN "open" ELSE "token")
    /\ UNCHANGED <<fileVars, alive, callVars, counters>>

\* A mutant: a fresh lock is waited for.
Bug_WaitForHolder(w) ==
    /\ At(w, "stat")
    /\ Goto(w, IF lock # None /\ lock.old THEN "token" ELSE "open")
    /\ UNCHANGED <<fileVars, alive, callVars, counters>>

\* statSync(lockPath): the file is gone, fresh, or older than staleMs.
Stat(w) ==
    /\ At(w, "stat")
    /\ IF lock = None THEN Goto(w, "open") /\ UNCHANGED result
       ELSE IF lock.old THEN Goto(w, "token") /\ UNCHANGED result
       ELSE Return(w, "conflict")
    /\ UNCHANGED <<fileVars, alive, token, seen, subject, head, counters>>

\* staleToken = readLockToken(lockPath).
ReadToken(w) ==
    /\ At(w, "token")
    /\ seen' = [seen EXCEPT ![w] = Contents(lock)]
    /\ Goto(w, IF lock = None THEN "open" ELSE "reread")
    /\ UNCHANGED <<fileVars, alive, token, subject, head, result, counters>>

\* A mutant: an empty lock file is taken for one that is gone.
Bug_EmptyIsGone(w) ==
    /\ At(w, "reread")
    /\ Goto(w, IF lock # None /\ lock.written /\ Contents(lock) = seen[w] THEN "rm" ELSE "open")
    /\ UNCHANGED <<fileVars, alive, callVars, counters>>

\* readFileSync(lockPath) !== staleToken: back off.
Reread(w) ==
    /\ At(w, "reread")
    /\ Goto(w, IF lock # None /\ Contents(lock) = seen[w] THEN "rm" ELSE "open")
    /\ UNCHANGED <<fileVars, alive, callVars, counters>>

\* rmSync(lockPath): whatever is there now.
RmStale(w) ==
    /\ At(w, "rm")
    /\ lock' = None
    /\ Goto(w, "open")
    /\ UNCHANGED <<ledger, alive, callVars, counters>>

---------------------------------------------------------------------------
(* appendLedgerEvent, under the lock it believes it holds.                 *)

\* Refuse: the finally block releases the lock.
Finish(w, outcome) ==
    /\ result' = [result EXCEPT ![w] = outcome]
    /\ Goto(w, "release")

\* options.fold(cwd), then guard(folded): the guard sees this fold only.
FoldAndGuard(w) ==
    /\ At(w, "fold")
    /\ IF ~Folds(ledger) THEN Finish(w, "corrupt")
       ELSE IF subject[w] \in Spent(ledger) THEN Finish(w, "refused")
       ELSE Goto(w, "head") /\ UNCHANGED result
    /\ UNCHANGED <<fileVars, alive, token, seen, subject, head, counters>>

\* chainHeadHash reads the ledger a second time.
ChainHead(w) ==
    /\ At(w, "head")
    /\ IF Parses(ledger)
       THEN /\ head' = [head EXCEPT ![w] = LastHash(ledger)]
            /\ Goto(w, "size")
            /\ UNCHANGED result
       ELSE Finish(w, "corrupt") /\ UNCHANGED head
    /\ UNCHANGED <<fileVars, alive, token, seen, subject, counters>>

\* A mutant: the line to be appended is not counted.
Bug_CeilingOffByOne(w) ==
    /\ At(w, "size")
    /\ IF Len(ledger) > Ceiling THEN Finish(w, "ceiling")
       ELSE Goto(w, "append") /\ UNCHANGED result
    /\ UNCHANGED <<fileVars, alive, token, seen, subject, head, counters>>

\* appendWithinCeiling.
CheckCeiling(w) ==
    /\ At(w, "size")
    /\ IF Len(ledger) + 1 > Ceiling THEN Finish(w, "ceiling")
       ELSE Goto(w, "append") /\ UNCHANGED result
    /\ UNCHANGED <<fileVars, alive, token, seen, subject, head, counters>>

Event(w) == [prev |-> head[w], subject |-> subject[w], by |-> token[w]]

\* appendJSONL.
AppendLine(w) ==
    /\ At(w, "append")
    /\ ledger' = AppendText(ledger, Event(w))
    /\ Goto(w, "refold")
    /\ UNCHANGED <<lock, alive, callVars, counters>>

\* A mutant: the append is acknowledged without the second fold.
Bug_AckUnread(w) ==
    /\ At(w, "refold")
    /\ Finish(w, "ok")
    /\ UNCHANGED <<fileVars, alive, token, seen, subject, head, counters>>

\* derive(options.fold(cwd)): the append is acknowledged only if it folds.
Refold(w) ==
    /\ At(w, "refold")
    /\ Finish(w, IF Folds(ledger) THEN "ok" ELSE "corrupt")
    /\ UNCHANGED <<fileVars, alive, token, seen, subject, head, counters>>

\* release(): remove only the lock this holder created.
ReleaseRead(w) ==
    /\ At(w, "release")
    /\ Goto(w, IF Contents(lock) = <<token[w]>> THEN "releaseRm" ELSE "idle")
    /\ UNCHANGED <<fileVars, alive, callVars, counters>>

ReleaseRm(w) ==
    /\ At(w, "releaseRm")
    /\ lock' = None
    /\ Goto(w, "idle")
    /\ UNCHANGED <<ledger, alive, callVars, counters>>

---------------------------------------------------------------------------
(* The environment.                                                        *)

Fault ==
    /\ faults < MaxFaults
    /\ faults' = faults + 1

\* A write that is cut short leaves the file as it was, or part of a line.
TornAppend == ledger' \in {ledger, AppendText(ledger, Torn)}

Crash(w) ==
    /\ alive[w] /\ pc[w] # "idle"
    /\ Fault
    /\ alive' = [alive EXCEPT ![w] = FALSE]
    /\ \/ UNCHANGED ledger
       \/ pc[w] = "append" /\ TornAppend
    /\ UNCHANGED <<lock, pc, callVars, calls, expired>>

\* writeFileSync fails after openSync: the empty lock file stays behind.
WriteTokenFails(w) ==
    /\ At(w, "write")
    /\ Fault
    /\ Return(w, "corrupt")
    /\ UNCHANGED <<fileVars, alive, token, seen, subject, head, calls, expired>>

\* appendJSONL throws.
AppendFails(w) ==
    /\ At(w, "append")
    /\ Fault
    /\ TornAppend
    /\ Finish(w, "corrupt")
    /\ UNCHANGED <<lock, alive, token, seen, subject, head, calls, expired>>

HoldsFile(w) == alive[w] /\ pc[w] \in Inside /\ lock.lock = token[w]

\* staleMs pass without a write to the lock file.
Expire ==
    /\ lock # None
    /\ ~lock.old
    /\ expired < MaxExpired
    /\ MayStall \/ ~HoldsFile(lock.lock.by)
    /\ expired' = expired + 1
    /\ lock' = [lock EXCEPT !.old = TRUE]
    /\ UNCHANGED <<ledger, alive, pc, callVars, calls, faults>>

---------------------------------------------------------------------------

Init ==
    /\ lock = None
    /\ ledger = << >>
    /\ alive = [w \in Writer |-> TRUE]
    /\ pc = [w \in Writer |-> "idle"]
    /\ token = [w \in Writer |-> [by |-> w, n |-> 0]]
    /\ seen = [w \in Writer |-> None]
    /\ subject = [w \in Writer |-> None]
    /\ head = [w \in Writer |-> Genesis]
    /\ result = [w \in Writer |-> "none"]
    /\ calls = 0
    /\ faults = 0
    /\ expired = 0

Step(w) ==
    \/ Open(w) \/ WriteToken(w) \/ Stat(w) \/ ReadToken(w) \/ Reread(w) \/ RmStale(w)
    \/ FoldAndGuard(w) \/ ChainHead(w) \/ CheckCeiling(w) \/ AppendLine(w) \/ Refold(w)
    \/ ReleaseRead(w) \/ ReleaseRm(w)

Environment(w) == Crash(w) \/ WriteTokenFails(w) \/ AppendFails(w)

Next == (\E w \in Writer : Call(w) \/ Step(w) \/ Environment(w)) \/ Expire

Spec == Init /\ [][Next]_vars

\* A running writer's calls are synchronous and never block.
FairSpec == Spec /\ \A w \in Writer : WF_vars(Step(w))

---------------------------------------------------------------------------
(* Properties.                                                             *)

Holders == {w \in Writer : alive[w] /\ pc[w] \in Inside}

\* While no lock file has outlived staleMs, at most one running writer is between
\* openSync and the release, faults included.
Exclusion ==
    expired = 0 => \A v, w \in Holders : v = w

\* Then the ledger folds: every line extends the one before it, except that a
\* crash in the append may leave one torn line at the very end.
LedgerIntact ==
    expired = 0 =>
        /\ \A i \in 1..Len(ledger) : ledger[i] = Torn => i = Len(ledger)
        /\ \A i \in 1..Len(ledger) : ledger[i] # Torn => Linked(ledger, i)

\* Two lines spend one subject.
DoubleSpend ==
    \E i, j \in 1..Len(ledger) :
        /\ i # j /\ ledger[i] # Torn /\ ledger[j] # Torn
        /\ ledger[i].subject = ledger[j].subject

\* Then no subject is spent twice: the guard saw every spend that precedes its
\* own, although the chain head is read from the file a second time.
SpentOnce == expired = 0 => ~DoubleSpend

\* Whatever expires, stalls or races: an append that was acknowledged is in the
\* ledger on a chain that is unbroken up to it.
AckedIsChained ==
    \A w \in Writer : result[w] = "ok" =>
        \E i \in 1..Len(ledger) :
            /\ ledger[i] # Torn
            /\ ledger[i].by = token[w] /\ ledger[i].subject = subject[w]
            /\ \A j \in 1..i : Linked(ledger, j)

\* Whatever races, a call returns: the reclaim loop does not spin for ever.
CallReturns == \A w \in Writer : pc[w] # "idle" ~> (pc[w] = "idle" \/ ~alive[w])

\* A crashed holder's lock does not outlive its age: a writer that finds it old
\* and has no competition gets the lock.
LoneWriterReclaims ==
    \A w \in Writer :
        (At(w, "open") /\ lock # None /\ lock.old /\ \A v \in Writer \ {w} : ~alive[v])
            ~> (pc[w] = "write" \/ ~alive[w])

\* "any resulting double append still fails the fold's chain walk closed".
DoubleAppendFailsClosed == DoubleSpend => ~Folds(ledger)

=============================================================================
