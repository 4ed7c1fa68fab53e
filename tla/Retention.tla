----------------------------- MODULE Retention -----------------------------
(***************************************************************************)
(* Retention and coordinated deletion (core/retention-registry.js).  Five  *)
(* ledgers: classifications, Legal Holds, Holders of copies, deletion      *)
(* candidates and deletion transactions.                                   *)
(*                                                                         *)
(* Each ledger is written through the governed append of RegistryLedger,   *)
(* under a lock of its own: while no lock of a living writer is given up   *)
(* for dead, guard and append are one step, and a call that finds the lock *)
(* busy or fails changes nothing.  No lock spans two ledgers, and reads    *)
(* take none: a candidate is derived from three ledgers read one after the *)
(* other, and an authorization, inside the append to the candidates,       *)
(* derives it again and consumes an approval from a sixth.                 *)
(*                                                                         *)
(* Holds and Holders are written on a human Decision each, single-use in   *)
(* its ledger; a call with a Decision spent before is refused, and every   *)
(* call here brings a fresh one.                                           *)
(***************************************************************************)
EXTENDS Integers, FiniteSets

CONSTANTS
    Proc,           \* command processes; one that crashes is started again
    Record,         \* committed artifact revisions
    Hold, Holder, Candidate, Approval, Transaction,     \* ids callers use
    None,
    Time,           \* clock readings; a classification carries its writer's own, a
                    \*   candidate may be given one
    Ttl,            \* times to live the pinned Policies declare
    Instances       \* the environments a behaviour may have, by the fields below

ASSUME RetentionAssumption ==
    /\ Time \subseteq Nat /\ Ttl \subseteq Nat \ {0}
    /\ Instances \subseteq
        [operations : SUBSET {"classify", "hold", "register", "revoke", "prepare",
                              "authorize", "execute", "read"},
         classified : SUBSET Record,    \* classified and expired at the start
         holders : SUBSET Holder,       \* registered at the start
         writes : Nat,      \* bounds: classifications, holds, releases and Holders;
         calls : Nat,       \*   calls of the processes;
         faults : Nat]      \*   crashes and failing appends

VARIABLES
    instance,
    classes,        \* classes[r]: the effective classification of r
    holds,          \* holds[h]: its scope and whether it is released
    holders,        \* the registered Holders
    candidates,     \* candidates[c]: what was derived, and the approval it is authorized by
    approvals,      \* approvals[a]: the content its subject binds, and its status
    transactions,   \* transactions[t]: its candidate, and the latest receipt of each Holder
    writer,         \* the process inside an authorization's append
    st,             \* st[p]: the step p is at, and its locals
    during,         \* history: what the ledgers said since the authorization began
    known,          \* history: known[c]: the Holders when its authorization began
    proved,         \* history: the transactions a Deletion Proof was given for
    writes, calls, faults

ledgerVars == <<classes, holds, holders>>
deletionVars == <<candidates, approvals, transactions>>
counters == <<writes, calls, faults>>
vars == <<instance, ledgerVars, deletionVars, writer, st, during, known, proved, counters>>

Classification == [at : Time, ttl : Ttl]
HoldEntry == [scope : SUBSET Record \ {{}}, released : BOOLEAN]

\* Functions on some members of a set.
Partial(S, T) == UNION {[D -> T] : D \in SUBSET S}

\* The content of a candidate is what its hash binds.
Contents == [records : Partial(Record, Classification), excluded : Partial(Record, SUBSET Hold),
             holders : SUBSET Holder, at : Time]
CandidateEntry == [content : Contents, approval : Approval \cup {None}]
ApprovalEntry == [subject : Contents, status : {"granted", "consumed", "revoked"}]
TransactionEntry == [candidate : Candidate,
                     receipts : Partial(Holder, {None, "settled", "unsettled"})]

ASSUME ValuesAssumption ==
    None \notin Proc \cup Approval \cup {"corrupt"} \cup Classification \cup HoldEntry
              \cup CandidateEntry \cup ApprovalEntry \cup TransactionEntry

Idle == [pc |-> "idle", op |-> None, candidate |-> None, approval |-> None, at |-> 0,
         classes |-> <<>>, holds |-> <<>>, holders |-> {}, transactions |-> <<>>,
         result |-> None]

At(p, label) == st[p].pc = label
Return(p, result) == st' = [st EXCEPT ![p] = [Idle EXCEPT !.result = result]]
Allowed(op) == op \in instance.operations
CountCall == calls < instance.calls /\ calls' = calls + 1
CountWrite == writes < instance.writes /\ writes' = writes + 1

Authorized(c) == candidates[c] # None /\ candidates[c].approval # None
Opened == {t \in Transaction : transactions[t] # None}

---------------------------------------------------------------------------
(* What a candidate says, derived from what three ledgers say.             *)

\* The scopes of the holds that are not released.
Active(hs) == [h \in {x \in Hold : hs[x] # None /\ ~hs[x].released} |-> hs[h].scope]

HeldBy(active, r) == {h \in DOMAIN active : r \in active[h]}

Expired(class, at) == at >= class.at + class.ttl

\* evaluateRetention at the clock `at`, and what deriveCandidateContent keeps of it.
Content(cls, active, registered, at) ==
    LET Held == {r \in Record : cls[r] # None /\ HeldBy(active, r) # {}}
        Eligible == {r \in Record \ Held : cls[r] # None /\ Expired(cls[r], at)}
    IN  [records |-> [r \in Eligible |-> cls[r]],
         excluded |-> [r \in Held |-> HeldBy(active, r)],
         holders |-> registered,
         at |-> at]

Derived(p) == Content(st[p].classes, st[p].holds, st[p].holders, st[p].at)

View == [classes |-> classes, holds |-> Active(holds), holders |-> holders]

---------------------------------------------------------------------------
(* Classifications, holds, Holders and approvals: one append each.         *)

Classify(r) ==
    /\ Allowed("classify")
    /\ CountWrite
    /\ \E class \in Classification :
        /\ class # classes[r]
        /\ classes' = [classes EXCEPT ![r] = class]
    /\ UNCHANGED <<holds, holders, approvals>>

PlaceHold(h) ==
    /\ Allowed("hold")
    /\ holds[h] = None
    /\ CountWrite
    /\ \E scope \in SUBSET Record \ {{}} :
        holds' = [holds EXCEPT ![h] = [scope |-> scope, released |-> FALSE]]
    /\ UNCHANGED <<classes, holders, approvals>>

ReleaseHold(h) ==
    /\ holds[h] # None /\ ~holds[h].released
    /\ CountWrite
    /\ holds' = [holds EXCEPT ![h].released = TRUE]
    /\ UNCHANGED <<classes, holders, approvals>>

RegisterHolder(o) ==
    /\ Allowed("register")
    /\ o \notin holders
    /\ CountWrite
    /\ holders' = holders \cup {o}
    /\ UNCHANGED <<classes, holds, approvals>>

\* A grant binds the content a reviewer saw; grants and revocations are Approvals'.
Grant(a, c) ==
    /\ approvals[a] = None
    /\ candidates[c] # None
    /\ approvals' = [approvals EXCEPT ![a] = [subject |-> candidates[c].content,
                                              status |-> "granted"]]
    /\ UNCHANGED <<ledgerVars, writes>>

Revoke(a) ==
    /\ Allowed("revoke")
    /\ approvals[a] # None /\ approvals[a].status = "granted"
    /\ approvals' = [approvals EXCEPT ![a].status = "revoked"]
    /\ UNCHANGED <<ledgerVars, writes>>

Append ==
    /\ \/ \E r \in Record : Classify(r)
       \/ \E h \in Hold : PlaceHold(h) \/ ReleaseHold(h)
       \/ \E o \in Holder : RegisterHolder(o)
       \/ \E a \in Approval : Revoke(a) \/ \E c \in Candidate : Grant(a, c)
    /\ UNCHANGED <<instance, candidates, transactions, writer, st, known, proved,
                   calls, faults>>

---------------------------------------------------------------------------
(* deriveCandidateContent: three reads, under no lock of theirs.           *)

ReadClasses(p) ==
    /\ At(p, "classes")
    /\ st' = [st EXCEPT ![p].classes = classes, ![p].pc = "holds"]

ReadHolds(p) ==
    /\ At(p, "holds")
    /\ st' = [st EXCEPT ![p].holds = Active(holds), ![p].pc = "holders"]

ReadHolders(p) ==
    /\ At(p, "holders")
    /\ st' = [st EXCEPT ![p].holders = holders,
                        ![p].pc = IF st[p].op = "prepare" THEN "append" ELSE "settle"]

Derive(p) ==
    /\ ReadClasses(p) \/ ReadHolds(p) \/ ReadHolders(p)
    /\ UNCHANGED <<instance, ledgerVars, deletionVars, writer, known, proved, counters>>

\* prepareDeletionCandidate, at the clock it is given.
Prepare(p) ==
    /\ At(p, "idle")
    /\ Allowed("prepare")
    /\ CountCall
    /\ \E c \in Candidate, at \in Time :
        st' = [st EXCEPT ![p] = [Idle EXCEPT !.pc = "classes", !.op = "prepare",
                                             !.candidate = c, !.at = at]]
    /\ UNCHANGED <<instance, ledgerVars, deletionVars, writer, known, proved, writes, faults>>

AppendCandidate(p) ==
    LET content == Derived(p)
        c == st[p].candidate
    IN
    /\ At(p, "append")
    /\ \/ /\ DOMAIN content.records # {} /\ content.holders # {}
          /\ writer = None
          /\ candidates[c] = None
          /\ candidates' = [candidates EXCEPT ![c] = [content |-> content,
                                                      approval |-> None]]
          /\ Return(p, "ok")
       \/ /\ \/ DOMAIN content.records = {} \/ content.holders = {}
             \/ writer # None \/ candidates[c] # None
          /\ Return(p, "refused")
          /\ UNCHANGED candidates
    /\ UNCHANGED <<instance, ledgerVars, approvals, transactions, writer, known, proved,
                   counters>>

---------------------------------------------------------------------------
(* authorizeDeletion: inside the append to the candidates.                 *)

Authorize(p) ==
    /\ At(p, "idle")
    /\ Allowed("authorize")
    /\ writer = None
    /\ CountCall
    /\ \E c \in Candidate, a \in Approval :
        /\ candidates[c] # None /\ ~Authorized(c)
        /\ st' = [st EXCEPT ![p] = [Idle EXCEPT !.pc = "classes", !.op = "authorize",
                                                !.candidate = c, !.approval = a,
                                                !.at = candidates[c].content.at]]
        /\ known' = [known EXCEPT ![c] = holders]
    /\ writer' = p
    /\ UNCHANGED <<instance, ledgerVars, deletionVars, proved, writes, faults>>

\* A mutant: only the records are compared.
Bug_SameRecords(p) == Derived(p).records = candidates[st[p].candidate].content.records

\* The candidate derived again is the one that was reviewed.
Undrifted(p) == Derived(p) = candidates[st[p].candidate].content

\* A mutant: any granted approval will do.
Bug_AnyApproval(a, c) == approvals[a] # None /\ approvals[a].status = "granted"

\* consumeSubjectBoundApproval; the admission of the Decision may be refused.
Consumable(a, c) ==
    /\ approvals[a] # None
    /\ approvals[a].subject = candidates[c].content
    /\ approvals[a].status = "granted"

\* The point of no return.
Settle(p) ==
    LET c == st[p].candidate
        a == st[p].approval
    IN
    /\ At(p, "settle")
    /\ \/ /\ Undrifted(p) /\ Consumable(a, c)
          /\ approvals' = [approvals EXCEPT ![a].status = "consumed"]
          /\ st' = [st EXCEPT ![p] = [Idle EXCEPT !.pc = "record", !.candidate = c,
                                                  !.approval = a]]
          /\ UNCHANGED writer
       \/ /\ Return(p, IF Undrifted(p) THEN "refused" ELSE "drift")
          /\ writer' = None
          /\ UNCHANGED approvals
    /\ UNCHANGED <<instance, ledgerVars, candidates, transactions, known, proved, counters>>

RecordAuthorization(p) ==
    /\ At(p, "record")
    /\ \/ /\ candidates' = [candidates EXCEPT ![st[p].candidate].approval = st[p].approval]
          /\ Return(p, "ok")
          /\ UNCHANGED faults
       \/ /\ faults < instance.faults
          /\ faults' = faults + 1
          /\ Return(p, "failed")
          /\ UNCHANGED candidates
    /\ writer' = None
    /\ UNCHANGED <<instance, ledgerVars, approvals, transactions, known, proved, writes, calls>>

---------------------------------------------------------------------------
(* Deletion transactions.                                                  *)

\* executeDeletion reads the candidate before it takes the lock.
Execute(p) ==
    /\ At(p, "idle")
    /\ Allowed("execute")
    /\ CountCall
    /\ \E c \in Candidate :
        /\ Authorized(c)
        /\ st' = [st EXCEPT ![p] = [Idle EXCEPT !.pc = "open", !.candidate = c]]
    /\ UNCHANGED <<instance, ledgerVars, deletionVars, writer, known, proved, writes, faults>>

NotExecuted(c) == \A t \in Opened : transactions[t].candidate # c

OpenTransaction(p) ==
    LET c == st[p].candidate IN
    /\ At(p, "open")
    /\ \/ \E t \in Transaction \ Opened :
            /\ NotExecuted(c)
            /\ transactions' = [transactions EXCEPT ![t] =
                    [candidate |-> c,
                     receipts |-> [o \in candidates[c].content.holders |-> None]]]
            /\ Return(p, "ok")
       \/ /\ ~NotExecuted(c) \/ Opened # {}       \* or an id that is in use
          /\ Return(p, "refused")
          /\ UNCHANGED transactions
    /\ UNCHANGED <<instance, ledgerVars, candidates, approvals, writer, known, proved, counters>>

\* A mutant: a Holder that has settled may be settled again.
Bug_AnyCovered(t, o) == o \in DOMAIN transactions[t].receipts

\* settleHolder: a retry reaches a covered Holder that has not settled; "unsettled"
\* stands for the receipts refused, failed and unavailable.
Retryable(t, o) == o \in DOMAIN transactions[t].receipts
                   /\ transactions[t].receipts[o] # "settled"

SettleHolder(t, o) ==
    /\ t \in Opened
    /\ Retryable(t, o)
    /\ \E receipt \in {"settled", "unsettled"} :
        transactions' = [transactions EXCEPT ![t].receipts[o] = receipt]
    /\ UNCHANGED <<instance, ledgerVars, candidates, approvals, writer, st, known, proved,
                   counters>>

\* A mutant: a transaction is complete once a Holder has settled.
Bug_AnySettled(tx) == \E o \in DOMAIN tx.receipts : tx.receipts[o] = "settled"

\* The status the transaction fold derives from full coverage.
Completed(tx) == \A o \in DOMAIN tx.receipts : tx.receipts[o] = "settled"

---------------------------------------------------------------------------
(* Readers of the transactions.                                            *)

\* deletionTombstones and deletionProof read the transactions first, then the
\* candidates these refer to.
ReadTransactions(p) ==
    /\ At(p, "idle")
    /\ Allowed("read")
    /\ CountCall
    /\ st' = [st EXCEPT ![p] = [Idle EXCEPT !.pc = "resolve", !.transactions = transactions]]
    /\ UNCHANGED <<instance, ledgerVars, deletionVars, writer, known, proved, writes, faults>>

Resolve(p) ==
    LET seen == {t \in Transaction : st[p].transactions[t] # None}
        Found(t) == candidates[st[p].transactions[t].candidate] # None
    IN
    /\ At(p, "resolve")
    /\ IF \A t \in seen : Found(t)
       THEN /\ Return(p, "ok")
            /\ proved' = proved \cup {t \in seen : Completed(st[p].transactions[t])}
       ELSE Return(p, "corrupt") /\ UNCHANGED proved
    /\ UNCHANGED <<instance, ledgerVars, deletionVars, writer, known, counters>>

\* tombstoneIndex: of several transactions that name a record a completed one counts.
Tombstone(r) ==
    LET naming == {t \in Opened :
                    r \in DOMAIN candidates[transactions[t].candidate].content.records}
    IN  IF naming = {} THEN "live"
        ELSE IF \E t \in naming : Completed(transactions[t]) THEN "deleted"
        ELSE "pending"

---------------------------------------------------------------------------

\* A crash; the lock of a crashed writer is reclaimed in time.
Crash(p) ==
    /\ ~At(p, "idle")
    /\ faults < instance.faults
    /\ faults' = faults + 1
    /\ Return(p, None)
    /\ writer' = IF writer = p THEN None ELSE writer
    /\ UNCHANGED <<instance, ledgerVars, deletionVars, known, proved, writes, calls>>

\* What the ledgers say while an authorization is under way.
Watch == during' = IF writer' = None THEN {}
                   ELSE (IF writer = None THEN {} ELSE during) \cup {View'}

Init ==
    /\ instance \in Instances
    /\ \E at \in Time, ttl \in Ttl :
        /\ \E now \in Time : at + ttl <= now
        /\ classes = [r \in Record |-> IF r \in instance.classified
                                       THEN [at |-> at, ttl |-> ttl] ELSE None]
    /\ holds = [h \in Hold |-> None]
    /\ holders = instance.holders
    /\ candidates = [c \in Candidate |-> None]
    /\ approvals = [a \in Approval |-> None]
    /\ transactions = [t \in Transaction |-> None]
    /\ writer = None
    /\ st = [p \in Proc |-> Idle]
    /\ during = {}
    /\ known = [c \in Candidate |-> {}]
    /\ proved = {}
    /\ writes = 0 /\ calls = 0 /\ faults = 0

Next ==
    /\ \/ Append
       \/ \E p \in Proc : \/ Prepare(p) \/ Derive(p) \/ AppendCandidate(p)
                          \/ Authorize(p) \/ Settle(p) \/ RecordAuthorization(p)
                          \/ Execute(p) \/ OpenTransaction(p)
                          \/ ReadTransactions(p) \/ Resolve(p) \/ Crash(p)
       \/ \E t \in Transaction, o \in Holder : SettleHolder(t, o)
    /\ Watch

Spec == Init /\ [][Next]_vars

---------------------------------------------------------------------------
(* Properties.                                                             *)

Steps == {"idle", "classes", "holds", "holders", "append", "settle", "record", "open", "resolve"}

TypeOK ==
    /\ classes \in [Record -> Classification \cup {None}]
    /\ holds \in [Hold -> HoldEntry \cup {None}]
    /\ holders \subseteq Holder
    /\ candidates \in [Candidate -> CandidateEntry \cup {None}]
    /\ approvals \in [Approval -> ApprovalEntry \cup {None}]
    /\ transactions \in [Transaction -> TransactionEntry \cup {None}]
    /\ writer \in Proc \cup {None}
    /\ \A p \in Proc : st[p].pc \in Steps
    /\ known \in [Candidate -> SUBSET Holder] /\ proved \subseteq Opened
    /\ writes \in Nat /\ calls \in Nat /\ faults \in Nat

\* When an authorization is recorded, each ledger it rests on has said what the
\* reviewer saw at some moment since the authorization began: no hold placed, no
\* Holder registered and no record classified anew before that goes unnoticed.
ReviewIsCurrent ==
    [][\A c \in Candidate : (Authorized(c)' /\ ~Authorized(c)) =>
        \E k, h, o \in during :
            candidates[c].content =
                Content(k.classes, h.holds, o.holders, candidates[c].content.at)]_vars

\* A deletion has the one approval a human granted for exactly what is deleted: no
\* approval authorizes two candidates and no candidate is executed twice, whatever
\* processes race and crash, and an approval is spent for nothing only by a process
\* still inside, a crash or a failed append.
DeletionsAreApproved ==
    /\ \A t, u \in Opened :
        LET c == transactions[t].candidate
            d == transactions[u].candidate
        IN  Authorized(c) /\ (t # u => candidates[c].approval # candidates[d].approval)
    /\ \A a \in Approval :
        LET by == {c \in Candidate : candidates[c] # None /\ candidates[c].approval = a} IN
        /\ Cardinality(by) <= 1
        /\ \A c \in by : approvals[a] = [subject |-> candidates[c].content,
                                        status |-> "consumed"]
        /\ (approvals[a] # None /\ approvals[a].status = "consumed" /\ by = {}) =>
                faults > 0 \/ (writer # None /\ st[writer].approval = a)

\* A Deletion Proof states settled coverage only: every Holder that was registered
\* when the authorization began has settled the transaction it is given for.
ProofCoversHolders ==
    \A t \in proved : \A o \in known[transactions[t].candidate] :
        /\ o \in DOMAIN transactions[t].receipts
        /\ transactions[t].receipts[o] = "settled"

\* Readers that take no lock are never told that a ledger is corrupt, and a record
\* once shown as deleted or pending never comes back, whatever other transaction
\* names it later.
Rank(status) == CASE status = "live" -> 0 [] status = "pending" -> 1 [] OTHER -> 2
TombstonesStand ==
    [][/\ \A p \in Proc : st'[p].result # "corrupt"
       /\ \A r \in Record : Rank(Tombstone(r)') >= Rank(Tombstone(r))]_vars

=============================================================================
