------------------------- MODULE ArtifactAdmission -------------------------
(***************************************************************************)
(* One artifact home of the canonical artifact store                       *)
(* (core/canonical-artifacts.js): revisions rev-N.md and                   *)
(* rev-N.envelope.json, a settlement journal, and admit.lock.              *)
(*                                                                         *)
(* An admission takes the lock, replays the journal, settles what crashed  *)
(* admissions left, and admits its content as a new revision in four       *)
(* writes: prepared, body, envelope, committed.  The lock is given up for  *)
(* dead by its age alone and its holder removes it by its path, so a slow  *)
(* holder may find others inside; what has to stand then is the journal.   *)
(***************************************************************************)
EXTENDS Integers, Sequences, FiniteSets, SequencesExt, FiniteSetsExt

CONSTANTS
    Proc,           \* command processes; one that crashes is started again
    Body,           \* what is admitted: body, provenance, scope, traces
    Key,            \* caller's idempotency keys
    None,
    MaxCalls,       \* bound: calls of all processes
    Instances       \* the environments a behaviour may have, by the fields below

ASSUME AdmissionAssumption ==
    /\ None \notin Body \cup Key \cup Proc
    /\ MaxCalls \in Nat
    /\ Instances \subseteq
        [operations : SUBSET {"admit", "show", "consume"},
         keys : SUBSET Key,     \* the keys used
         revocable : BOOLEAN,   \* the acting principal may be revoked
         calls : 0..MaxCalls,   \* bounds: calls; crashes and failing appends;
         faults : Nat,          \*   times the lock's age passes LOCK_STALE_MS
         expiries : Nat]

VARIABLES
    instance,   \* the environment of this behaviour
    active,     \* resolveActivePrincipal: the acting human is not revoked or expired
    lock,       \* admit.lock: "none", "fresh" or "old"
    journal,    \* the records of the journal
    torn,       \* a line of the journal does not parse
    files,      \* files[n]: the pair of revision n, a half is None while absent
    st,         \* st[p]: the step p is at, and its locals
    acked,      \* history: the receipts handed out
    overlap,    \* history: two admissions have been inside at once
    calls, faults, expiries

storeVars == <<lock, journal, torn, files>>
historyVars == <<acked, overlap>>
env == <<instance, active>>
counters == <<calls, faults, expiries>>
admissionVars == <<env, storeVars, st, historyVars, counters>>

---------------------------------------------------------------------------
(* The journal.                                                            *)

Revision == 1..MaxCalls

\* admissionHash of an admission; expected = 0 is none.
Content == [body : Body, expected : 0..MaxCalls]

ASSUME ContentAssumption == None \notin Content

Record == [kind : {"prepared", "committed", "aborted"}, revision : Revision,
           head : 0..MaxCalls, content : Content, key : Key \cup {None},
           attempt : 1..MaxCalls]

Of(j, kind) == {i \in 1..Len(j) : j[i].kind = kind}
Revisions(j, kinds) == {j[i].revision : i \in {k \in 1..Len(j) : j[k].kind \in kinds}}

MaxOf(revisions) == IF revisions = {} THEN 0 ELSE Max(revisions)

committedHead(j) == MaxOf(Revisions(j, {"committed"}))

\* A mutant: the slot of an attempt that did not commit is used again.
Bug_CommittedSlots(j) == committedHead(j)

highestClaimedRevision(j) == MaxOf(Revisions(j, {"prepared", "committed", "aborted"}))

danglingPreparedRevisions(j) ==
    Revisions(j, {"prepared"}) \ Revisions(j, {"committed", "aborted"})

\* A mutant: the expected head is not replayed.
Bug_NoReplay(j) == \A i \in Of(j, "committed") :
    \E k \in 1..i : j[k].kind = "prepared" /\ j[k].revision = j[i].revision

\* validateSettlement: every commit follows its prepared record, is the only one of
\* its revision, and was made against the head the replay has reached; no slot is
\* skipped.
validateSettlement(j) ==
    /\ \A i \in Of(j, "committed") :
        /\ \E k \in 1..i : /\ j[k].kind = "prepared"
                           /\ j[k].revision = j[i].revision
                           /\ j[k].content = j[i].content
        /\ \A k \in Of(j, "committed") : j[k].revision = j[i].revision => k = i
        /\ j[i].head = committedHead(SubSeq(j, 1, i - 1))
    /\ 1..highestClaimedRevision(j) \subseteq {j[i].revision : i \in 1..Len(j)}

\* readJournal, then validateSettlement.
Sound == ~torn /\ validateSettlement(journal)

Settled(j, revision) ==
    j[CHOOSE i \in Of(j, "committed") : j[i].revision = revision]

\* The pair of a committed revision is there and holds what was committed.
Holds(record) ==
    files[record.revision] = [body |-> record.content.body, envelope |-> record.content]

Swept(j) == \A i \in Of(j, "committed") : Holds(j[i])

---------------------------------------------------------------------------
(* Control.                                                                *)

NoContent == [body |-> None, expected |-> 0]

Idle == [pc |-> "idle", content |-> NoContent, key |-> None, via |-> None, attempt |-> 0,
         view |-> <<>>, todo |-> {}, head |-> 0, revision |-> 0, result |-> "none"]

At(p, step) == st[p].pc = step
Goto(p, step) == st' = [st EXCEPT ![p].pc = step]

\* Where an admission returns to: its caller, or the approval it was made under.
Leave(p, result) ==
    st' = [st EXCEPT ![p] = [Idle EXCEPT !.result = result, !.via = st[p].via,
            !.revision = st[p].revision,
            !.pc = IF st[p].via = None THEN "idle" ELSE "admitted"]]

\* The finally clause comes next.
Finish(p, result) == st' = [st EXCEPT ![p].pc = "unlock", ![p].result = result]

\* A verification read has no attempt of its own.
Reading(p) == st[p].attempt = 0

Holding(q) == ~Reading(q) /\ st[q].pc \in
    {"reverify", "read", "recover", "reread", "judge", "prepare", "guard1", "writeBody",
     "writeEnvelope", "guard2", "commit", "receipt", "unlock"}

\* appendJSONL: a line after one cut short is part of it.
AppendLine(record) ==
    /\ journal' = IF torn THEN journal ELSE Append(journal, record)
    /\ UNCHANGED <<torn, faults>>

\* The append fails, whole or cut short.
AppendFails ==
    /\ faults < instance.faults
    /\ faults' = faults + 1
    /\ torn' \in {torn, TRUE}
    /\ UNCHANGED journal

Mine(p, kind) ==
    [kind |-> kind, revision |-> st[p].revision, head |-> st[p].head,
     content |-> st[p].content, key |-> st[p].key, attempt |-> st[p].attempt]

---------------------------------------------------------------------------
(* admitArtifact, of a Decision.                                           *)

Called(operation) ==
    /\ operation \in instance.operations
    /\ calls < instance.calls
    /\ calls' = calls + 1

\* Called with any head the caller may have seen.
Admit(p) ==
    /\ At(p, "idle")
    /\ Called("admit")
    /\ \E body \in Body, key \in instance.keys \cup {None}, expected \in {0} \cup Revisions(journal, {"committed"}) :
        st' = [st EXCEPT ![p] = [Idle EXCEPT !.pc = "verify", !.key = key, !.attempt = calls + 1,
                                             !.content = [body |-> body, expected |-> expected]]]
    /\ UNCHANGED <<env, storeVars, historyVars, faults, expiries>>

\* The principal, before the lock and again under it.
Verify(p) ==
    /\ At(p, "verify")
    /\ IF active THEN Goto(p, "open") ELSE Leave(p, "denied")
    /\ UNCHANGED <<env, storeVars, historyVars, counters>>

Reverify(p) ==
    /\ At(p, "reverify")
    /\ IF active THEN Goto(p, "read") ELSE Finish(p, "denied")
    /\ UNCHANGED <<env, storeVars, historyVars, counters>>

\* acquireAdmissionLock.
Open(p) ==
    /\ At(p, "open")
    /\ IF lock = "none"
       THEN /\ lock' = "fresh"
            /\ overlap' = (overlap \/ \E q \in Proc \ {p} : Holding(q))
            /\ Goto(p, "reverify")
       ELSE Goto(p, "stat") /\ UNCHANGED <<lock, overlap>>
    /\ UNCHANGED <<env, journal, torn, files, acked, counters>>

Stat(p) ==
    /\ At(p, "stat")
    /\ CASE lock = "none" -> Goto(p, "open")
         [] lock = "old" -> Goto(p, "rmStale")
         [] lock = "fresh" -> Leave(p, "inFlight")
    /\ UNCHANGED <<env, storeVars, historyVars, counters>>

RmStale(p) ==
    /\ At(p, "rmStale")
    /\ lock' = "none"
    /\ Goto(p, "open")
    /\ UNCHANGED <<env, journal, torn, files, historyVars, counters>>

---------------------------------------------------------------------------
(* admitUnderLock.                                                         *)

Quiet == UNCHANGED <<env, storeVars, historyVars, counters>>

Fail(p, result) == IF Reading(p) THEN Leave(p, result) ELSE Finish(p, result)

\* What this call will settle as aborted, if anything.
See(p, step) ==
    LET dangling == danglingPreparedRevisions(journal) IN
    st' = [st EXCEPT ![p].view = journal, ![p].todo = dangling,
                     ![p].pc = IF dangling # {} THEN "recover" ELSE step]

Read(p) ==
    /\ At(p, "read")
    /\ IF Sound THEN See(p, "judge") ELSE Finish(p, "corrupt")
    /\ Quiet

\* recoverDanglingPrepared: the record copies the last claim of the slot.
Recover(p) ==
    LET revision == Min(st[p].todo)
        claim == SelectLastInSeq(st[p].view,
                    LAMBDA record : record.kind = "prepared" /\ record.revision = revision)
    IN
    /\ At(p, "recover")
    /\ \/ /\ AppendLine([st[p].view[claim] EXCEPT !.kind = "aborted"])
          /\ st' = [st EXCEPT ![p].todo = @ \ {revision},
                              ![p].pc = IF st[p].todo = {revision} THEN "reread" ELSE @]
       \/ AppendFails /\ Fail(p, "io")
    /\ UNCHANGED <<env, lock, files, historyVars, calls, expiries>>

Reread(p) ==
    /\ At(p, "reread")
    /\ IF torn THEN Fail(p, "corrupt")
       ELSE st' = [st EXCEPT ![p].view = journal,
                             ![p].pc = IF Reading(p) THEN "sweep" ELSE "judge"]
    /\ Quiet

\* Every committed revision has its pair before anything is answered from the store.
Paired(j) == \A i \in Of(j, "committed") :
    files[j[i].revision].body # None /\ files[j[i].revision].envelope # None

Keyed(j, key) == {j[i].revision : i \in {k \in Of(j, "committed") : key # None /\ j[k].key = key}}

Same(j, content) ==
    {n \in Revisions(j, {"committed"}) : files[n].envelope = content}

\* Idempotency by the caller's key, then by content, then the expected head.
Verdict(p) ==
    LET j == st[p].view
        mine == st[p].content
        head == committedHead(j)
        keyed == Keyed(j, st[p].key)
        same == Same(j, mine)
        prior == IF keyed # {} THEN Max(keyed) ELSE IF same # {} THEN Max(same) ELSE head
    IN
    IF ~Paired(j) THEN "corrupt"
    ELSE IF keyed \cup same # {} THEN
        IF ~Holds(Settled(j, prior)) THEN "corrupt"
        ELSE IF files[prior].envelope # mine THEN "keyConflict"
        ELSE "duplicate"
    ELSE IF mine.expected # head THEN "stale"
    ELSE IF head > 0 /\ ~Holds(Settled(j, head)) THEN "corrupt"
    ELSE "new"

Judge(p) ==
    LET j == st[p].view
        verdict == Verdict(p)
        keyed == Keyed(j, st[p].key)
        same == Same(j, st[p].content)
    IN
    /\ At(p, "judge")
    /\ st' = [st EXCEPT
            ![p].pc = IF verdict = "new" THEN "prepare" ELSE "unlock",
            ![p].result = IF verdict = "duplicate" THEN "ok"
                          ELSE IF verdict = "new" THEN "none" ELSE verdict,
            ![p].head = committedHead(j),
            ![p].revision = IF verdict = "new" THEN highestClaimedRevision(j) + 1
                            ELSE MaxOf(IF keyed # {} THEN keyed ELSE same),
            ![p].view = <<>>]
    /\ Quiet

\* The durable writes.  Each may fail.
Write(p, kind, next) ==
    /\ \/ AppendLine(Mine(p, kind)) /\ Goto(p, next)
       \/ AppendFails /\ Finish(p, "io")
    /\ UNCHANGED <<env, lock, files, historyVars, calls, expiries>>

Prepare(p) == At(p, "prepare") /\ Write(p, "prepared", "guard1")

\* A mutant: the guard does not look who claimed the slot.
Bug_AnyClaim(p) == IF committedHead(journal) # st[p].head THEN "lost" ELSE "none"

\* settleGuard.
FirstClaim(revision) ==
    journal[SelectInSeq(journal,
        LAMBDA record : record.kind = "prepared" /\ record.revision = revision)]

settleGuard(p) ==
    IF ~Sound THEN "corrupt"
    ELSE IF \/ st[p].revision \notin Revisions(journal, {"prepared"})
            \/ FirstClaim(st[p].revision).attempt # st[p].attempt
            \/ committedHead(journal) # st[p].head
         THEN "lost"
    ELSE "none"

Guard(p, next) ==
    /\ IF settleGuard(p) = "none" THEN Goto(p, next) ELSE Finish(p, settleGuard(p))
    /\ Quiet

Guard1(p) == At(p, "guard1") /\ Guard(p, "writeBody")

\* One half of the pair; half a file is as good as none, as its slot is not used again.
WriteHalf(p, pair, next) ==
    /\ \/ /\ files' = [files EXCEPT ![st[p].revision] = pair]
          /\ Goto(p, next)
          /\ UNCHANGED faults
       \/ /\ faults < instance.faults
          /\ faults' = faults + 1
          /\ Finish(p, "io")
          /\ UNCHANGED files
    /\ UNCHANGED <<env, lock, journal, torn, historyVars, calls, expiries>>

WriteBody(p) ==
    /\ At(p, "writeBody")
    /\ WriteHalf(p, [files[st[p].revision] EXCEPT !.body = st[p].content.body], "writeEnvelope")

WriteEnvelope(p) ==
    /\ At(p, "writeEnvelope")
    /\ WriteHalf(p, [files[st[p].revision] EXCEPT !.envelope = st[p].content], "guard2")

Guard2(p) == At(p, "guard2") /\ Guard(p, "commit")

Commit(p) == At(p, "commit") /\ Write(p, "committed", "receipt")

\* The receipt reads the journal once more.
Receipt(p) ==
    /\ At(p, "receipt")
    /\ Finish(p, IF torn THEN "corrupt" ELSE "ok")
    /\ Quiet

\* The lock file is removed by its path, whoever made it.
Unlock(p) ==
    /\ At(p, "unlock")
    /\ lock' = "none"
    /\ acked' = IF st[p].result = "ok"
                THEN acked \cup {[revision |-> st[p].revision, content |-> st[p].content]}
                ELSE acked
    /\ Leave(p, st[p].result)
    /\ UNCHANGED <<env, journal, torn, files, overlap, counters>>

---------------------------------------------------------------------------
(* verifyArtifactHomeForRead, which takes no lock.                         *)

Show(p) ==
    /\ At(p, "idle")
    /\ Called("show")
    /\ IF ~Sound THEN st' = [st EXCEPT ![p] = [Idle EXCEPT !.result = "corrupt"]]
       ELSE LET dangling == danglingPreparedRevisions(journal) IN
            st' = [st EXCEPT ![p] = [Idle EXCEPT !.view = journal, !.todo = dangling,
                        !.pc = IF dangling # {} THEN "inFlight" ELSE "sweep"]]
    /\ UNCHANGED <<env, storeVars, historyVars, faults, expiries>>

\* admissionInFlight: a fresh lock's holder still owns its prepared records.
InFlight(p) ==
    /\ At(p, "inFlight")
    /\ Goto(p, IF lock = "fresh" THEN "sweep" ELSE "recover")
    /\ Quiet

Sweep(p) ==
    /\ At(p, "sweep")
    /\ Leave(p, IF Swept(st[p].view) THEN "served" ELSE "corrupt")
    /\ Quiet

---------------------------------------------------------------------------
(* Time, crashes, and the registry of principals.                          *)

Expire ==
    /\ lock = "fresh"
    /\ expiries < instance.expiries
    /\ lock' = "old"
    /\ expiries' = expiries + 1
    /\ UNCHANGED <<env, journal, torn, files, st, historyVars, calls, faults>>

Appending(p) == st[p].pc \in {"recover", "prepare", "commit"}

\* The lock stays behind, and maybe half a line.
Crash(p) ==
    /\ ~At(p, "idle")
    /\ faults < instance.faults
    /\ faults' = faults + 1
    /\ torn' \in {torn, torn \/ Appending(p)}
    /\ st' = [st EXCEPT ![p] = Idle]
    /\ UNCHANGED <<env, lock, journal, files, historyVars, calls, expiries>>

\* Revocation of a principal is final.
Deactivate ==
    /\ active
    /\ instance.revocable
    /\ active' = FALSE
    /\ UNCHANGED <<instance, storeVars, st, historyVars, counters>>

---------------------------------------------------------------------------

AdmissionInit ==
    /\ instance \in Instances
    /\ active = TRUE
    /\ lock = "none"
    /\ journal = <<>> /\ torn = FALSE
    /\ files = [n \in Revision |-> [body |-> None, envelope |-> None]]
    /\ st = [p \in Proc |-> Idle]
    /\ acked = {} /\ overlap = FALSE
    /\ calls = 0 /\ faults = 0 /\ expiries = 0

Step(p) ==
    \/ Verify(p) \/ Open(p) \/ Stat(p) \/ RmStale(p) \/ Reverify(p) \/ Read(p)
    \/ Recover(p) \/ Reread(p) \/ Judge(p) \/ Prepare(p) \/ Guard1(p) \/ WriteBody(p)
    \/ WriteEnvelope(p) \/ Guard2(p) \/ Commit(p) \/ Receipt(p) \/ Unlock(p)
    \/ InFlight(p) \/ Sweep(p)

AdmissionNext ==
    \/ \E p \in Proc : Admit(p) \/ Show(p) \/ Step(p) \/ Crash(p)
    \/ Expire \/ Deactivate

AdmissionSpec == AdmissionInit /\ [][AdmissionNext]_admissionVars

---------------------------------------------------------------------------
(* Properties.                                                             *)

TypeOK ==
    /\ active \in BOOLEAN
    /\ lock \in {"none", "fresh", "old"}
    /\ journal \in Seq(Record) /\ torn \in BOOLEAN
    /\ files \in [Revision -> [body : Body \cup {None}, envelope : Content \cup {None}]]
    /\ acked \subseteq [revision : Revision, content : Content]
    /\ overlap \in BOOLEAN

\* What was acknowledged stays: a receipt's revision is committed with the receipt's
\* content, and every committed revision's pair holds what its record committed,
\* whoever else was inside and whoever crashed.
AckedIsBound ==
    /\ \A receipt \in acked : \E i \in Of(journal, "committed") :
        journal[i].revision = receipt.revision /\ journal[i].content = receipt.content
    /\ Swept(journal)

\* "Even a stolen or stale lock cannot let two admissions fork history silently":
\* a journal that a reader accepts is one chain, in which every revision supersedes
\* the one committed before it and no idempotency key was settled twice.
ValidIsSerial ==
    Sound => \A i, k \in Of(journal, "committed") : i < k =>
        /\ journal[i].revision <= journal[k].content.expected
        /\ journal[k].content.expected < journal[k].revision
        /\ journal[k].key # None => journal[k].key # journal[i].key

\* An admission loses its slot, and the store is found corrupt, only after two
\* admissions have been inside at once or a line was cut short: what a crash
\* leaves otherwise never stands in the way of the next admission.
RefusalMeansRace ==
    (\E p \in Proc : st[p].result \in {"lost", "corrupt"}) => overlap \/ torn

=============================================================================
