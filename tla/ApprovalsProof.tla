--------------------------- MODULE ApprovalsProof ---------------------------
(***************************************************************************)
(* Proofs about Approvals, and so about the artifact home of               *)
(* ArtifactAdmission under it, for any processes, contents, keys,          *)
(* approvals and bounds.                                                   *)
(***************************************************************************)
EXTENDS Approvals, FiniteSetTheorems, SequenceTheorems, WellFoundedInduction, TLAPS

---------------------------------------------------------------------------
(* The inductive invariant: types.                                         *)

\* The steps before an attempt has claimed its slot, and those after.
Before == {"reserve", "consumable", "verify", "open", "stat", "rmStale", "reverify",
           "read", "recover", "reread", "judge", "prepare", "elsewhere"}
Owning == {"writeBody", "writeEnvelope", "guard2", "commit"}
Claiming == Owning \cup {"guard1"}
Steps == Before \cup Claiming
            \cup {"receipt", "unlock", "idle", "admitted", "inFlight", "sweep"}

Results == {"none", "denied", "inFlight", "io", "corrupt", "ok", "lost", "keyConflict",
            "stale", "served", "spent"}

Locals == [pc : Steps, content : Content \cup {NoContent}, key : Key \cup {None},
           via : Approval \cup {None}, attempt : 0..MaxCalls, view : Seq(Record),
           todo : SUBSET Revision, head : 0..MaxCalls, revision : 0..MaxCalls,
           result : Results]

Shape ==
    /\ TypeOK
    /\ instance \in Instances
    /\ st \in [Proc -> Locals]
    /\ calls \in 0..MaxCalls
    /\ faults \in Nat
    /\ torn => faults > 0

---------------------------------------------------------------------------
(* Slots.                                                                  *)

Attempts(j) == {j[i].attempt : i \in Of(j, "prepared")}

Prefix(v, j) == Len(v) <= Len(j) /\ \A i \in 1..Len(v) : v[i] = j[i]

\* The i-th record is the first claim of its slot.
FirstOf(j, i) ==
    \A k \in 1..(i - 1) : j[k].kind = "prepared" => j[k].revision # j[i].revision

\* The record of an attempt with the locals s.
RecordOf(s, kind) ==
    [kind |-> kind, revision |-> s.revision, head |-> s.head,
     content |-> s.content, key |-> s.key, attempt |-> s.attempt]

Claimed(s, j) == \E i \in Of(j, "prepared") : j[i] = RecordOf(s, "prepared")
Owned(s, j) == \E i \in Of(j, "prepared") : j[i] = RecordOf(s, "prepared") /\ FirstOf(j, i)

\* Every record is about a claimed slot, and so is every slot below; each claim is an
\* attempt's only one, so slots are no more than attempts.
Slots(j) ==
    /\ \A i \in 1..Len(j) : \E k \in Of(j, "prepared") : k <= i /\ j[k].revision = j[i].revision
    /\ \A i, k \in Of(j, "prepared") : j[i].attempt = j[k].attempt => i = k
    /\ \A i \in 1..Len(j) : j[i].attempt <= calls
    /\ \A i \in 1..Len(j) : \A r \in 1..j[i].revision : r \in Revisions(j, {"prepared"})
    /\ \A i \in 1..Len(j) : j[i].revision <= Cardinality(Attempts(j))

\* What a process with the locals s knows of the slots.
KnowsSlots(s, j) ==
    /\ s.attempt <= calls
    /\ s.attempt # 0 => s.content \in Content
    /\ s.pc \in {"idle", "admitted", "inFlight", "sweep"} => s.attempt = 0
    /\ s.attempt = 0 => s.pc \in {"idle", "admitted", "inFlight", "sweep", "recover", "reread"}
    /\ Prefix(s.view, j)
    /\ s.pc \in Before /\ s.attempt # 0 => s.attempt \notin Attempts(j)
    /\ s.pc = "prepare" =>
        /\ s.revision <= Cardinality(Attempts(j)) + 1
        /\ \A r \in 1..(s.revision - 1) : r \in Revisions(j, {"prepared"})
    /\ s.pc \in Claiming \cup {"prepare"} => s.revision # 0
    /\ s.pc = "guard1" => torn \/ Claimed(s, j)
    /\ s.pc \in Owning => Owned(s, j)
    /\ s.pc \in {"recover", "inFlight"} =>
        s.todo # {} /\ s.todo \subseteq Revisions(s.view, {"prepared"})

OwnAttempts ==
    \A p, q \in Proc : st[p].attempt = st[q].attempt /\ st[p].attempt # 0 => p = q

SlotInv ==
    /\ Shape
    /\ Slots(journal)
    /\ \A p \in Proc : KnowsSlots(st[p], journal)
    /\ OwnAttempts

---------------------------------------------------------------------------
(* What is committed.                                                      *)

Settles(j, revision, content) ==
    \E i \in Of(j, "committed") : j[i].revision = revision /\ j[i].content = content

\* A commit is its attempt's only one, and of the slot that attempt was the first to claim.
Commits(j) ==
    /\ \A k \in Of(j, "committed") : \E i \in Of(j, "prepared") :
        /\ i < k
        /\ FirstOf(j, i)
        /\ j[i] = [j[k] EXCEPT !.kind = "prepared"]
    /\ \A i, k \in Of(j, "committed") : j[i].attempt = j[k].attempt => i = k

KnowsCommits(s, j) ==
    /\ s.pc \in Claiming => \A k \in Of(j, "committed") : j[k].attempt # s.attempt
    /\ s.pc \in {"writeEnvelope", "guard2", "commit"} => files[s.revision].body = s.content.body
    /\ s.pc \in {"guard2", "commit"} => files[s.revision].envelope = s.content
    /\ s.pc = "receipt" => torn \/ Settles(j, s.revision, s.content)
    /\ s.pc = "unlock" /\ s.result = "ok" => Settles(j, s.revision, s.content)

CommitInv ==
    /\ Commits(journal)
    /\ AckedIsBound
    /\ \A p \in Proc : KnowsCommits(st[p], journal)

---------------------------------------------------------------------------
(* The chain.                                                              *)

\* h is the greatest revision committed in the first n records.
IsHead(j, n, h) ==
    /\ \A i \in 1..n : j[i].kind = "committed" => j[i].revision <= h
    /\ h = 0 \/ \E i \in 1..n : j[i].kind = "committed" /\ j[i].revision = h

\* The record was made against a head of the journal, under a key not settled before it.
Earned(record, j) ==
    /\ record.content.expected = record.head
    /\ record.head < record.revision
    /\ \E n \in 0..Len(j) :
        /\ IsHead(j, n, record.head)
        /\ record.key # None =>
            \A i \in 1..n : j[i].kind = "committed" => j[i].key # record.key

ChainInv ==
    /\ \A k \in Of(journal, "committed") : Earned(journal[k], journal)
    /\ \A p \in Proc : st[p].pc \in Claiming \cup {"prepare"} =>
                            Earned(RecordOf(st[p], "committed"), journal)

---------------------------------------------------------------------------
(* While no two admissions have been inside at once and no line was cut.   *)

Undisturbed == ~overlap /\ ~torn

KnowsTurn(s, j) ==
    /\ s.pc = "judge" => \A i \in (Len(s.view) + 1)..Len(j) : j[i].kind = "aborted"
    /\ s.pc = "prepare" => \A i \in 1..Len(j) : j[i].revision < s.revision
    /\ s.pc \in Claiming \cup {"prepare"} => IsHead(j, Len(j), s.head)
    /\ s.pc = "guard1" => Owned(s, j)

TurnInv == Undisturbed =>
    /\ \A k \in Of(journal, "committed") : IsHead(journal, k - 1, journal[k].head)
    /\ \A p, q \in Proc : Holding(p) /\ Holding(q) => p = q
    /\ \A p \in Proc : KnowsTurn(st[p], journal)
    /\ \A p \in Proc : st[p].result \notin {"lost", "corrupt"}

---------------------------------------------------------------------------
(* The approvals.                                                          *)

Inside(p) == st[p].via # None /\ st[p].pc # "reserve"

\* The steps at which the commit of a Decision is known, and not yet recorded.
Citing(s) ==
    \/ s.pc = "receipt" /\ ~torn
    \/ s.pc \in {"unlock", "admitted"} /\ s.result = "ok"

\* The writer inside is about to cite a Decision settled for the approval.
Pending(a) ==
    /\ writer # None
    /\ st[writer].via = a
    /\ Citing(st[writer])
    /\ DecisionOf(writer, st[writer].revision) \in settled[a]

Event == [identity : Identity, revision : 0..MaxCalls, body : Body]

EventOf(p) ==
    [identity |-> decision[p].identity, revision |-> st[p].revision, body |-> decision[p].body]

KnowsApproval(p) ==
    /\ At(p, "idle") => st[p].via = None
    /\ st[p].pc \in {"reserve", "consumable", "elsewhere", "admitted"} => st[p].via # None
    /\ st[p].via # None =>
        /\ decision[p] \in Named
        /\ st[p].attempt # 0 => st[p].content = [body |-> decision[p].body, expected |-> 0]
        /\ st[p].pc \notin {"reserve", "consumable"} => Consumable(st[p].via)
        /\ st[p].pc \notin {"reserve", "consumable", "elsewhere", "admitted"} =>
                decision[p].identity = Here
    /\ At(p, "elsewhere") => decision[p].identity # Here
    /\ At(p, "admitted") /\ st[p].result = "ok" => Backed(EventOf(p))

\* What is recorded of one approval, and settled for it.
Accounted(a) ==
    /\ Len(consumed[a]) <= 1
    /\ consumed[a] # <<>> => "revoked" \notin approvals[a]
    /\ \A n \in 1..Len(consumed[a]) : Backed(consumed[a][n])
    /\ IsFiniteSet(settled[a])
    /\ Cardinality(Orphans(a)) <= faults + (IF Pending(a) THEN 1 ELSE 0)

ApprovalInv ==
    /\ ApprovalsTypeOK
    /\ \A p \in Proc : Inside(p) <=> writer = p
    /\ \A p \in Proc : KnowsApproval(p)
    /\ \A a \in Approval : Accounted(a)

IInv == SlotInv /\ CommitInv /\ ChainInv /\ TurnInv /\ ApprovalInv

---------------------------------------------------------------------------
(* Greatest and least elements.                                            *)

\* The assumptions on the constants, together.
LEMMA Constants ==
    /\ MaxCalls \in Nat
    /\ None \notin Body /\ None \notin Key /\ None \notin Proc
    /\ None \notin Content /\ None \notin Approval /\ Here \notin Elsewhere
    /\ Revision \subseteq Nat \ {0}
    /\ \A i \in Instances : i.calls \in 0..MaxCalls
BY AdmissionAssumption, ContentAssumption, ApprovalAssumption DEF Revision

\* A nonempty set of numbers has a least one.
LEMMA HasLeast ==
    ASSUME NEW S, S \subseteq Nat, S # {}
    PROVE  Min(S) \in S /\ \A x \in S : Min(S) <= x
<1>1. PICK s \in S : \A t \in S : ~(<<t, s>> \in OpToRel(<, Nat))
  BY WFMin, NatLessThanWellFounded, Zenon
<1>2. \A t \in S : s <= t
  <2> SUFFICES ASSUME NEW t \in S PROVE s <= t
    OBVIOUS
  <2>1. ~(<<t, s>> \in {ss \in Nat \X Nat : ss[1] < ss[2]})
    BY <1>1 DEF OpToRel
  <2>2. s \in Nat /\ t \in Nat
    OBVIOUS
  <2> QED
    BY <2>1, <2>2
<1> QED
  BY <1>2 DEF Min

\* A bounded nonempty set of numbers has a greatest one.
LEMMA HasGreatest ==
    ASSUME NEW n \in Nat, NEW S, S \subseteq 0..n, S # {}
    PROVE  Max(S) \in S /\ \A x \in S : x <= Max(S)
<1> DEFINE T == {k \in Nat : \E i \in S : k = n - i}
<1>1. T \subseteq Nat /\ T # {}
  <2>1. PICK i \in S : i \in 0..n
    OBVIOUS
  <2>2. n - i \in T
    BY <2>1
  <2> QED
    BY <2>2
<1>2. Min(T) \in T /\ \A k \in T : Min(T) <= k
  <2> HIDE DEF T
  <2> QED
    BY <1>1, HasLeast
<1>3. PICK m \in S : Min(T) = n - m
  BY <1>2
<1>4. \A i \in S : i <= m
  <2> SUFFICES ASSUME NEW i \in S PROVE i <= m
    OBVIOUS
  <2>1. n - i \in T /\ i \in 0..n /\ m \in 0..n
    OBVIOUS
  <2>2. n - m <= n - i
    BY <2>1, <1>2, <1>3
  <2> QED
    BY <2>1, <2>2
<1> QED
  BY <1>4 DEF Max

\* MaxOf is the greatest element, and 0 of the empty set.
LEMMA MaxOfIs ==
    ASSUME NEW n \in Nat, NEW S, S \subseteq 0..n
    PROVE  /\ MaxOf(S) \in 0..n
           /\ \A x \in S : x <= MaxOf(S)
           /\ MaxOf(S) = 0 \/ MaxOf(S) \in S
           /\ S # {} => MaxOf(S) \in S
<1>1. CASE S = {}
  BY <1>1 DEF MaxOf
<1>2. CASE S # {}
  <2>1. Max(S) \in S /\ \A x \in S : x <= Max(S)
    BY <1>2, HasGreatest
  <2> QED
    BY <1>2, <2>1 DEF MaxOf
<1> QED
  BY <1>1, <1>2

---------------------------------------------------------------------------
(* Journals.                                                               *)

\* What the journal's operators give is in its range.
LEMMA JournalRange ==
    ASSUME NEW j \in Seq(Record)
    PROVE  /\ \A i \in 1..Len(j) : j[i] \in Record /\ j[i].revision \in Revision
           /\ \A kinds : Revisions(j, kinds) \subseteq Revision
           /\ \A kind : Of(j, kind) \subseteq 1..Len(j)
<1>1. \A i \in 1..Len(j) : j[i] \in Record
  OBVIOUS
<1>2. \A i \in 1..Len(j) : j[i].revision \in Revision
  BY <1>1 DEF Record
<1> QED
  BY <1>1, <1>2 DEF Revisions, Of

\* The committed head is the head of the whole journal.
LEMMA HeadIs ==
    ASSUME NEW j \in Seq(Record)
    PROVE  /\ committedHead(j) \in 0..MaxCalls
           /\ IsHead(j, Len(j), committedHead(j))
<1> DEFINE S == Revisions(j, {"committed"})
<1>1. S \subseteq 0..MaxCalls
  BY JournalRange, Constants DEF Revision
<1>2. /\ MaxOf(S) \in 0..MaxCalls
      /\ \A x \in S : x <= MaxOf(S)
      /\ MaxOf(S) = 0 \/ MaxOf(S) \in S
  <2> HIDE DEF S
  <2> QED
    BY <1>1, MaxOfIs, Constants
<1>3. \A i \in 1..Len(j) : j[i].kind = "committed" => j[i].revision \in S
  BY DEF Revisions
<1>4. \A r \in S : \E i \in 1..Len(j) : j[i].kind = "committed" /\ j[i].revision = r
  BY DEF Revisions
<1> QED
  BY <1>2, <1>3, <1>4 DEF IsHead, committedHead

\* There is one head.
LEMMA HeadIsOne ==
    ASSUME NEW j \in Seq(Record), NEW n \in 0..Len(j), NEW g \in Nat, NEW h \in Nat,
           IsHead(j, n, g), IsHead(j, n, h)
    PROVE  g = h
<1>1. \A i \in 1..n : i \in 1..Len(j) /\ j[i].revision \in Nat \ {0}
  <2> SUFFICES ASSUME NEW i \in 1..n PROVE i \in 1..Len(j) /\ j[i].revision \in Nat \ {0}
    OBVIOUS
  <2>1. i \in 1..Len(j)
    OBVIOUS
  <2> QED
    BY <2>1, JournalRange, Constants
<1> QED
  BY <1>1 DEF IsHead

\* The head of the first n records is the committed head of that part.
LEMMA HeadOfPart ==
    ASSUME NEW j \in Seq(Record), NEW n \in 0..Len(j), NEW h \in Nat, IsHead(j, n, h)
    PROVE  committedHead(SubSeq(j, 1, n)) = h
<1> DEFINE part == SubSeq(j, 1, n)
<1>1. part \in Seq(Record) /\ Len(part) = n /\ \A i \in 1..n : part[i] = j[i]
  OBVIOUS
<1>2. IsHead(part, Len(part), h)
  BY <1>1 DEF IsHead
<1> HIDE DEF part
<1>3. IsHead(part, Len(part), committedHead(part)) /\ committedHead(part) \in Nat
  <2>1. IsHead(part, Len(part), committedHead(part)) /\ committedHead(part) \in 0..MaxCalls
    BY <1>1, HeadIs
  <2> QED
    BY <2>1, Constants
<1>4. committedHead(part) = h
  <2>1. n \in 0..Len(part)
    BY <1>1
  <2> QED
    BY <1>1, <1>2, <1>3, <2>1, HeadIsOne
<1> QED
  BY <1>4 DEF part

\* An appended record is one more, and changes no other.
LEMMA AppendIs ==
    ASSUME NEW j \in Seq(Record), NEW record \in Record, NEW k, k = Append(j, record)
    PROVE  /\ k \in Seq(Record) /\ k # j
           /\ Len(k) = Len(j) + 1 /\ Len(j) \in Nat
           /\ \A i \in 1..Len(j) : k[i] = j[i]
           /\ k[Len(k)] = record
           /\ 1..Len(k) = 1..Len(j) \cup {Len(k)}
           /\ Len(k) \notin 1..Len(j)
OBVIOUS

\* Where the records of a kind are after one more.
LEMMA AppendOf ==
    ASSUME NEW j \in Seq(Record), NEW record \in Record, NEW kind
    PROVE  Of(Append(j, record), kind) =
                IF record.kind = kind THEN Of(j, kind) \cup {Len(j) + 1} ELSE Of(j, kind)
BY AppendIs DEF Of

\* And the revisions they name.
LEMMA AppendRevisions ==
    ASSUME NEW j \in Seq(Record), NEW record \in Record, NEW kinds
    PROVE  Revisions(Append(j, record), kinds) =
                IF record.kind \in kinds THEN Revisions(j, kinds) \cup {record.revision}
                                         ELSE Revisions(j, kinds)
<1> DEFINE k == Append(j, record)
           S == IF record.kind \in kinds THEN Revisions(j, kinds) \cup {record.revision}
                                         ELSE Revisions(j, kinds)
<1>1. /\ \A i \in 1..Len(j) : k[i] = j[i]
      /\ k[Len(k)] = record
      /\ 1..Len(k) = 1..Len(j) \cup {Len(k)}
  OBVIOUS
<1> HIDE DEF k
<1>2. ASSUME NEW r \in Revisions(k, kinds) PROVE r \in S
  <2>1. PICK i \in 1..Len(k) : k[i].kind \in kinds /\ k[i].revision = r
    BY DEF Revisions
  <2>2. CASE i \in 1..Len(j)
    BY <2>1, <2>2, <1>1 DEF Revisions
  <2>3. CASE i = Len(k)
    BY <2>1, <2>3, <1>1
  <2> QED
    BY <1>1, <2>2, <2>3
<1>3. ASSUME NEW r \in S PROVE r \in Revisions(k, kinds)
  <2>1. CASE r \in Revisions(j, kinds)
    <3>1. PICK i \in 1..Len(j) : j[i].kind \in kinds /\ j[i].revision = r
      BY <2>1 DEF Revisions
    <3> QED
      BY <3>1, <1>1 DEF Revisions
  <2>2. CASE record.kind \in kinds /\ r = record.revision
    BY <2>2, <1>1 DEF Revisions
  <2> QED
    BY <2>1, <2>2
<1> QED
  BY <1>2, <1>3 DEF k

---------------------------------------------------------------------------
(* The forms a step takes.                                                 *)

\* Only p moves, and nothing counted is taken back.
Frame(p) ==
    /\ st' \in [Proc -> Locals]
    /\ \A q \in Proc \ {p} : st'[q] = st[q]
    /\ calls' \in 0..MaxCalls /\ calls <= calls'
    /\ torn' \in BOOLEAN /\ (torn => torn')
    /\ faults' \in Nat /\ faults <= faults' /\ (torn' => faults' > 0)
    /\ torn' = torn \/ faults < faults'
    /\ overlap' \in BOOLEAN /\ (overlap => overlap')
    /\ instance' = instance /\ active' = active
    /\ lock' \in {"none", "fresh", "old"}

Stays == journal' = journal /\ files' = files /\ acked' = acked

\* p goes on with the same attempt, and with the same place in the journal.
Carries(p) ==
    /\ st'[p].content = st[p].content /\ st'[p].key = st[p].key
    /\ st'[p].via = st[p].via /\ st'[p].attempt = st[p].attempt

Keeps(p) ==
    /\ Carries(p)
    /\ st'[p].head = st[p].head /\ st'[p].revision = st[p].revision
    /\ st'[p].view = st[p].view /\ st'[p].todo = st[p].todo
    /\ st'[p].result = st[p].result

\* A call begins.
Begins(p) ==
    /\ Stays
    /\ At(p, "idle")
    /\ st'[p].pc \in {"verify", "reserve"}
    /\ st'[p].attempt = calls + 1 /\ calls' = calls + 1
    /\ st'[p].content \in Content
    /\ st'[p].via # None => st'[p].content.expected = 0
    /\ st'[p].pc = "verify" <=> st'[p].via = None
    /\ st'[p].view = <<>> /\ st'[p].result = "none"

\* p comes nearer to the journal.
Walking == {"reserve", "consumable", "verify", "open", "stat", "rmStale", "reverify"}

Walks(p) ==
    /\ Stays
    /\ st[p].pc \in Walking /\ st'[p].pc \in (Walking \ {"reserve"}) \cup {"read", "elsewhere"}
    /\ Keeps(p)
    /\ st'[p].pc = "consumable" <=> At(p, "reserve")
    /\ st'[p].pc = "read" => At(p, "reverify")
    /\ st'[p].pc = "elsewhere" => At(p, "consumable")
    /\ st'[p].pc = "reverify" => overlap' \/ \A q \in Proc \ {p} : ~Holding(q)

\* p gives up, with a reason for the worst answers, or its process ends.
Excused(p) ==
    \/ torn' \/ ~Sound
    \/ st[p].pc \in {"guard1", "guard2"} /\ settleGuard(p) # "none"
    \/ At(p, "sweep") /\ ~Swept(st[p].view)
    \/ st'[p].result = st[p].result

Quits(p) ==
    /\ Stays
    /\ \/ /\ st'[p].pc = "idle" /\ st'[p].via = None
          /\ st'[p].attempt = 0 /\ st'[p].view = <<>>
       \/ /\ st'[p].pc = "admitted" /\ st'[p].via = st[p].via
          /\ st'[p].attempt = 0 /\ st'[p].view = <<>>
          /\ (st[p].via # None /\ st'[p].result # "ok") \/ At(p, "elsewhere")
       \/ /\ Holding(p) /\ st[p].attempt # 0 /\ st'[p].pc = "unlock"
          /\ Carries(p) /\ st'[p].view = st[p].view /\ st'[p].result # "ok"
    /\ st'[p].result \in {"lost", "corrupt"} => Excused(p)

\* p replays the journal: a reader, or an admission inside.
Looks(p) ==
    /\ Stays
    /\ Sound
    /\ st'[p].view = journal /\ st'[p].todo = danglingPreparedRevisions(journal)
    /\ st'[p].pc \in {"inFlight", "recover"} => st'[p].todo # {}
    /\ \/ /\ At(p, "idle") /\ st'[p].pc \in {"inFlight", "sweep"}
          /\ st'[p].attempt = 0 /\ st'[p].via = None /\ st'[p].result = "none"
       \/ /\ At(p, "read") /\ st'[p].pc \in {"recover", "judge"}
          /\ Carries(p) /\ st'[p].result = st[p].result

\* p settles a slot as aborted; one claimed in what it replayed.
Aborts(p) ==
    /\ files' = files /\ acked' = acked
    /\ At(p, "recover")
    /\ Carries(p) /\ st'[p].view = st[p].view /\ st'[p].result = st[p].result
    /\ \/ st'[p].pc = "recover" /\ st'[p].todo # {} /\ st'[p].todo \subseteq st[p].todo
       \/ st'[p].pc = "reread"
    /\ \/ torn /\ journal' = journal
       \/ \E record \in Record :
            /\ ~torn'
            /\ record.kind = "aborted"
            /\ \E i \in Of(journal, "prepared") :
                /\ journal[i].revision = record.revision
                /\ journal[i].attempt = record.attempt
            /\ journal' = Append(journal, record)

Rereads(p) ==
    /\ Stays
    /\ ~torn
    /\ At(p, "reread")
    /\ Carries(p) /\ st'[p].view = journal /\ st'[p].result = st[p].result
    /\ st'[p].pc = IF st[p].attempt = 0 THEN "sweep" ELSE "judge"

Waits(p) ==
    /\ Stays
    /\ At(p, "inFlight") /\ st'[p].pc \in {"sweep", "recover"}
    /\ Keeps(p)

Judges(p) ==
    /\ Stays
    /\ At(p, "judge")
    /\ Carries(p) /\ st'[p].view = <<>>
    /\ \/ /\ Verdict(p) = "new"
          /\ st'[p].pc = "prepare" /\ st'[p].result = "none"
          /\ st'[p].head = committedHead(st[p].view)
          /\ st'[p].revision = highestClaimedRevision(st[p].view) + 1
       \/ /\ Verdict(p) = "duplicate"
          /\ st'[p].pc = "unlock" /\ st'[p].result = "ok"
          /\ st'[p].revision = LET keyed == Keyed(st[p].view, st[p].key) IN
                MaxOf(IF keyed # {} THEN keyed ELSE Same(st[p].view, st[p].content))
       \/ /\ Verdict(p) \notin {"new", "duplicate"}
          /\ st'[p].pc = "unlock" /\ st'[p].result = Verdict(p)

\* One record of p's own.
Records(p, kind) ==
    /\ files' = files /\ acked' = acked
    /\ Keeps(p)
    /\ torn' = torn /\ faults' = faults
    /\ \/ torn /\ journal' = journal
       \/ ~torn /\ journal' = Append(journal, RecordOf(st[p], kind))

Claims(p) == At(p, "prepare") /\ st'[p].pc = "guard1" /\ Records(p, "prepared")

Settlement(p) == At(p, "commit") /\ st'[p].pc = "receipt" /\ Records(p, "committed")

Passes(p) ==
    /\ Stays
    /\ settleGuard(p) = "none"
    /\ Keeps(p)
    /\ \/ At(p, "guard1") /\ st'[p].pc = "writeBody"
       \/ At(p, "guard2") /\ st'[p].pc = "commit"

Fills(p) ==
    /\ journal' = journal /\ acked' = acked
    /\ Keeps(p)
    /\ \/ /\ At(p, "writeBody") /\ st'[p].pc = "writeEnvelope"
          /\ files' = [files EXCEPT ![st[p].revision] = [@ EXCEPT !.body = st[p].content.body]]
       \/ /\ At(p, "writeEnvelope") /\ st'[p].pc = "guard2"
          /\ files' = [files EXCEPT ![st[p].revision] = [@ EXCEPT !.envelope = st[p].content]]

Receives(p) ==
    /\ Stays
    /\ ~torn
    /\ At(p, "receipt") /\ st'[p].pc = "unlock" /\ st'[p].result = "ok"
    /\ Carries(p) /\ st'[p].revision = st[p].revision /\ st'[p].view = st[p].view

Returns(p) ==
    /\ journal' = journal /\ files' = files
    /\ At(p, "unlock")
    /\ st'[p].pc = IF st[p].via = None THEN "idle" ELSE "admitted"
    /\ st'[p].attempt = 0 /\ st'[p].view = <<>> /\ st'[p].via = st[p].via
    /\ st'[p].result = st[p].result /\ st'[p].revision = st[p].revision
    /\ acked' = IF st[p].result = "ok"
                THEN acked \cup {[revision |-> st[p].revision, content |-> st[p].content]}
                ELSE acked

Turn(p) ==
    \/ Begins(p) \/ Walks(p) \/ Quits(p) \/ Looks(p) \/ Aborts(p) \/ Rereads(p) \/ Waits(p)
    \/ Judges(p) \/ Claims(p) \/ Passes(p) \/ Fills(p) \/ Settlement(p) \/ Receives(p)
    \/ Returns(p)

---------------------------------------------------------------------------
(* Every step of a process has one of the forms.                           *)

\* A process that goes on to the next step changes nothing else of its locals.
LEMMA GotoIs ==
    ASSUME st \in [Proc -> Locals], NEW p \in Proc, NEW x \in Steps, Goto(p, x)
    PROVE  /\ st' \in [Proc -> Locals]
           /\ \A q \in Proc \ {p} : st'[q] = st[q]
           /\ Keeps(p) /\ st'[p].pc = x
<1>1. st[p] \in Locals
  OBVIOUS
<1>2. [st[p] EXCEPT !.pc = x] \in Locals
  BY <1>1 DEF Locals
<1>3. st' = [st EXCEPT ![p] = [st[p] EXCEPT !.pc = x]]
  BY DEF Goto
<1> DEFINE new == [st[p] EXCEPT !.pc = x]
<1>4. /\ new.pc = x /\ new.content = st[p].content /\ new.key = st[p].key
      /\ new.via = st[p].via /\ new.attempt = st[p].attempt
      /\ new.head = st[p].head /\ new.revision = st[p].revision
      /\ new.view = st[p].view /\ new.todo = st[p].todo
      /\ new.result = st[p].result
  BY <1>1 DEF Locals
<1> HIDE DEF new
<1>5. st' \in [Proc -> Locals] /\ st'[p] = new /\ \A q \in Proc \ {p} : st'[q] = st[q]
  BY <1>2, <1>3 DEF new
<1> QED
  BY <1>4, <1>5 DEF Keeps, Carries

\* A process that finishes keeps its attempt, and comes to the finally clause.
LEMMA FinishIs ==
    ASSUME st \in [Proc -> Locals], NEW p \in Proc, NEW r \in Results, Finish(p, r)
    PROVE  /\ st' \in [Proc -> Locals]
           /\ \A q \in Proc \ {p} : st'[q] = st[q]
           /\ Carries(p) /\ st'[p].pc = "unlock" /\ st'[p].result = r
           /\ st'[p].revision = st[p].revision /\ st'[p].view = st[p].view
<1>1. st[p] \in Locals
  OBVIOUS
<1> DEFINE new == [[st[p] EXCEPT !.pc = "unlock"] EXCEPT !.result = r]
<1>2. new \in Locals
  BY <1>1 DEF Locals, Steps
<1>3. st' = [st EXCEPT ![p] = new]
  BY DEF Finish
<1>4. /\ new.pc = "unlock" /\ new.content = st[p].content /\ new.key = st[p].key
      /\ new.via = st[p].via /\ new.attempt = st[p].attempt
      /\ new.revision = st[p].revision
      /\ new.view = st[p].view
      /\ new.result = r
  BY <1>1 DEF Locals
<1> HIDE DEF new
<1>5. st' \in [Proc -> Locals] /\ st'[p] = new /\ \A q \in Proc \ {p} : st'[q] = st[q]
  BY <1>2, <1>3
<1> QED
  BY <1>4, <1>5 DEF Carries

\* The locals of a process at rest.
LEMMA IdleType == Idle \in Locals
BY Constants DEF Idle, Locals, Steps, Results

\* A process that leaves keeps its result, its revision and its approval.
LEMMA LeaveIs ==
    ASSUME st \in [Proc -> Locals], NEW p \in Proc, NEW r \in Results, Leave(p, r)
    PROVE  /\ st' \in [Proc -> Locals]
           /\ \A q \in Proc \ {p} : st'[q] = st[q]
           /\ st'[p].pc = IF st[p].via = None THEN "idle" ELSE "admitted"
           /\ st'[p].attempt = 0 /\ st'[p].view = <<>>
           /\ st'[p].via = st[p].via /\ st'[p].result = r
           /\ st'[p].revision = st[p].revision
<1>1. st[p] \in Locals
  OBVIOUS
<1> DEFINE new == [Idle EXCEPT !.result = r, !.via = st[p].via, !.revision = st[p].revision,
                     !.pc = IF st[p].via = None THEN "idle" ELSE "admitted"]
<1>2. new \in Locals
  BY <1>1, IdleType DEF Locals, Steps
<1>3. st' = [st EXCEPT ![p] = new]
  BY DEF Leave
<1>4. /\ new.pc = IF st[p].via = None THEN "idle" ELSE "admitted"
      /\ new.attempt = 0 /\ new.view = <<>>
      /\ new.via = st[p].via /\ new.result = r
      /\ new.revision = st[p].revision
  BY DEF Idle
<1> HIDE DEF new
<1>5. st' \in [Proc -> Locals] /\ st'[p] = new /\ \A q \in Proc \ {p} : st'[q] = st[q]
  BY <1>2, <1>3
<1> QED
  BY <1>4, <1>5

\* A process that stops leaves its locals behind.
LEMMA RestsIs ==
    ASSUME st \in [Proc -> Locals], NEW p \in Proc, NEW r \in Results,
           st' = [st EXCEPT ![p] = [Idle EXCEPT !.result = r]]
    PROVE  /\ st' \in [Proc -> Locals]
           /\ \A q \in Proc \ {p} : st'[q] = st[q]
           /\ st'[p].pc = "idle" /\ st'[p].attempt = 0 /\ st'[p].view = <<>>
           /\ st'[p].via = None /\ st'[p].result = r
<1> DEFINE new == [Idle EXCEPT !.result = r]
<1>1. new \in Locals
  BY IdleType DEF Locals
<1>2. /\ new.pc = "idle" /\ new.attempt = 0 /\ new.view = <<>>
      /\ new.via = None /\ new.result = r
  BY DEF Idle
<1> HIDE DEF new
<1>3. st' \in [Proc -> Locals] /\ st'[p] = new /\ \A q \in Proc \ {p} : st'[q] = st[q]
  BY <1>1 DEF new
<1> QED
  BY <1>2, <1>3

\* A record of p's own is a record.
LEMMA RecordType ==
    ASSUME SlotInv, NEW p \in Proc, st[p].attempt # 0, st[p].revision # 0,
           NEW kind \in {"prepared", "committed"}
    PROVE  RecordOf(st[p], kind) \in Record /\ Mine(p, kind) = RecordOf(st[p], kind)
<1>1. st[p] \in Locals /\ st[p].content \in Content
  BY DEF SlotInv, Shape, KnowsSlots
<1>2. st[p].revision \in Revision /\ st[p].attempt \in 1..MaxCalls
      /\ st[p].head \in 0..MaxCalls /\ st[p].key \in Key \cup {None}
  BY <1>1, Constants DEF Locals, Revision
<1> QED
  BY <1>1, <1>2 DEF RecordOf, Mine, Record

\* The attempts that claimed a slot are counted.
LEMMA AttemptsCount ==
    ASSUME SlotInv
    PROVE  /\ Attempts(journal) \subseteq 1..calls
           /\ IsFiniteSet(Attempts(journal))
           /\ Cardinality(Attempts(journal)) \in Nat
<1>1. \A i \in Of(journal, "prepared") : journal[i].attempt \in 1..calls
  <2> SUFFICES ASSUME NEW i \in Of(journal, "prepared") PROVE journal[i].attempt \in 1..calls
    OBVIOUS
  <2>1. i \in 1..Len(journal) /\ journal[i] \in Record /\ calls \in Nat
    BY Constants DEF SlotInv, Shape, TypeOK, Of
  <2>2. journal[i].attempt \in 1..MaxCalls /\ journal[i].attempt <= calls
    BY <2>1 DEF SlotInv, Slots, Record
  <2> QED
    BY <2>1, <2>2, Constants
<1>2. Attempts(journal) \subseteq 1..calls
  BY <1>1 DEF Attempts
<1>3. IsFiniteSet(1..calls)
  BY FS_Interval DEF SlotInv, Shape
<1> QED
  BY <1>2, <1>3, FS_Subset, FS_CardinalityType

\* An attempt that has yet to claim a slot is one more than those that did.
LEMMA AttemptsLeft ==
    ASSUME SlotInv, NEW p \in Proc, st[p].pc \in Before, st[p].attempt # 0
    PROVE  Cardinality(Attempts(journal)) < calls
<1> DEFINE T == 1..calls
           a == st[p].attempt
<1>1. calls \in Nat /\ a \in T /\ a \notin Attempts(journal)
  <2>1. calls \in Nat
    BY Constants DEF SlotInv, Shape
  <2>2. st[p] \in Locals /\ KnowsSlots(st[p], journal)
    BY DEF SlotInv, Shape
  <2>3. a \in Nat /\ a <= calls
    BY <2>2, Constants DEF Locals, KnowsSlots
  <2> QED
    BY <2>1, <2>2, <2>3 DEF KnowsSlots
<1>2. IsFiniteSet(T) /\ Cardinality(T) = calls
  <2>1. calls \in Int /\ 1 \in Int /\ ~(1 > calls) /\ calls - 1 + 1 = calls
    BY <1>1
  <2>2. IsFiniteSet(1..calls) /\ Cardinality(1..calls) = calls - 1 + 1
    BY <2>1, FS_Interval
  <2> QED
    BY <2>1, <2>2
<1>3. IsFiniteSet(T \ {a}) /\ Cardinality(T \ {a}) = calls - 1
  <2> HIDE DEF T, a
  <2> QED
    BY <1>1, <1>2, FS_RemoveElement
<1>4. Attempts(journal) \subseteq T \ {a}
  BY <1>1, AttemptsCount
<1>5. Cardinality(Attempts(journal)) <= Cardinality(T \ {a})
  <2> HIDE DEF T, a
  <2> QED
    BY <1>3, <1>4, FS_Subset
<1> QED
  BY <1>1, <1>3, <1>5, AttemptsCount

\* The slot after those claimed in what p replayed.
LEMMA NextSlot ==
    ASSUME SlotInv, NEW p \in Proc, At(p, "judge")
    PROVE  LET next == highestClaimedRevision(st[p].view) + 1 IN
           /\ next \in Revision
           /\ next <= Cardinality(Attempts(journal)) + 1
           /\ \A r \in 1..(next - 1) : r \in Revisions(journal, {"prepared"})
           /\ \A i \in 1..Len(st[p].view) : st[p].view[i].revision < next
           /\ committedHead(st[p].view) < next
<1> DEFINE v == st[p].view
           S == Revisions(v, {"prepared", "committed", "aborted"})
           h == highestClaimedRevision(v)
<1>1. /\ st[p] \in Locals /\ v \in Seq(Record) /\ Prefix(v, journal)
      /\ st[p].attempt # 0
      /\ journal \in Seq(Record)
  BY DEF SlotInv, Shape, TypeOK, Locals, KnowsSlots, At
<1>2. S \subseteq 0..MaxCalls
  <2>1. S \subseteq Revision
    BY <1>1, JournalRange
  <2> QED
    BY <2>1 DEF Revision
<1>3. h \in 0..MaxCalls /\ (\A x \in S : x <= h) /\ (h = 0 \/ h \in S)
  <2> HIDE DEF S
  <2>1. /\ MaxOf(S) \in 0..MaxCalls
        /\ \A x \in S : x <= MaxOf(S)
        /\ MaxOf(S) = 0 \/ MaxOf(S) \in S
    BY <1>2, MaxOfIs, Constants
  <2> QED
    BY <2>1 DEF highestClaimedRevision, S
<1>4. \A i \in 1..Len(v) : v[i].revision \in S /\ v[i] \in Record
  <2> SUFFICES ASSUME NEW i \in 1..Len(v) PROVE v[i].revision \in S /\ v[i] \in Record
    OBVIOUS
  <2>1. v[i] \in Record
    BY <1>1
  <2>2. v[i].kind \in {"prepared", "committed", "aborted"}
    BY <2>1 DEF Record
  <2> QED
    BY <2>1, <2>2 DEF Revisions
<1>5. h # 0 => \E i \in 1..Len(journal) : journal[i].revision = h
  <2> SUFFICES ASSUME h # 0 PROVE \E i \in 1..Len(journal) : journal[i].revision = h
    OBVIOUS
  <2>1. PICK i \in 1..Len(v) : v[i].revision = h
    BY <1>3 DEF Revisions
  <2>2. i \in 1..Len(journal) /\ v[i] = journal[i]
    BY <1>1, <2>1 DEF Prefix
  <2> QED
    BY <2>1, <2>2
<1> HIDE DEF S, h
<1>6. h <= Cardinality(Attempts(journal))
  BY <1>3, <1>5, AttemptsCount DEF SlotInv, Slots
<1>7. \A r \in 1..h : r \in Revisions(journal, {"prepared"})
  <2> SUFFICES ASSUME NEW r \in 1..h PROVE r \in Revisions(journal, {"prepared"})
    OBVIOUS
  <2>1. h # 0
    BY <1>3
  <2>2. PICK i \in 1..Len(journal) : journal[i].revision = h
    BY <1>5, <2>1
  <2> QED
    BY <2>2 DEF SlotInv, Slots
<1>8. h + 1 \in Revision
  <2>1. Cardinality(Attempts(journal)) < calls /\ Cardinality(Attempts(journal)) \in Nat
    BY <1>1, AttemptsLeft, AttemptsCount DEF Before, At
  <2>2. calls \in 0..MaxCalls
    BY DEF SlotInv, Shape
  <2> QED
    BY <2>1, <2>2, <1>3, <1>6, Constants DEF Revision
<1>9. \A i \in 1..Len(v) : v[i].revision < h + 1
  BY <1>3, <1>4, JournalRange, Constants DEF Record, Revision
<1>10. committedHead(v) < h + 1
  <2>1. committedHead(v) \in 0..MaxCalls /\ IsHead(v, Len(v), committedHead(v))
    BY <1>1, HeadIs
  <2> QED
    BY <2>1, <1>3, <1>9 DEF IsHead
<1> QED
  BY <1>3, <1>6, <1>7, <1>8, <1>9, <1>10, AttemptsCount DEF h

\* The first claim of a claimed slot.
LEMMA FirstClaimIs ==
    ASSUME journal \in Seq(Record), NEW revision \in Revisions(journal, {"prepared"})
    PROVE  \E i \in Of(journal, "prepared") :
                /\ FirstClaim(revision) = journal[i]
                /\ journal[i].revision = revision
                /\ FirstOf(journal, i)
<1> DEFINE I == {i \in 1..Len(journal) :
                    journal[i].kind = "prepared" /\ journal[i].revision = revision}
<1>1. I # {} /\ I \subseteq Nat
  BY DEF Revisions
<1>2. Min(I) \in I /\ \A i \in I : Min(I) <= i
  <2> HIDE DEF I
  <2> QED
    BY <1>1, HasLeast
<1>3. FirstClaim(revision) = journal[Min(I)]
  BY <1>1 DEF FirstClaim, SelectInSeq
<1>4. FirstOf(journal, Min(I))
  <2> SUFFICES ASSUME NEW k \in 1..(Min(I) - 1), journal[k].kind = "prepared"
               PROVE  journal[k].revision # journal[Min(I)].revision
    BY DEF FirstOf
  <2>1. Min(I) \in 1..Len(journal) /\ journal[Min(I)].revision = revision /\ Len(journal) \in Nat
    BY <1>2
  <2>2. k \in 1..Len(journal) /\ k < Min(I)
    BY <2>1
  <2>3. k \notin I
    <3>1. \A i \in I : Min(I) <= i /\ i \in Nat
      BY <1>2
    <3> HIDE DEF I
    <3> QED
      BY <2>1, <2>2, <3>1
  <2> QED
    BY <2>1, <2>2, <2>3
<1> QED
  BY <1>2, <1>3, <1>4 DEF Of

\* The last claim of a slot that p replayed and is about to settle.
LEMMA LastClaimIs ==
    ASSUME NEW v \in Seq(Record), NEW revision \in Revisions(v, {"prepared"})
    PROVE  LET claim == SelectLastInSeq(v,
                    LAMBDA record : record.kind = "prepared" /\ record.revision = revision)
           IN  claim \in Of(v, "prepared") /\ v[claim].revision = revision
<1> DEFINE I == {i \in 1..Len(v) : v[i].kind = "prepared" /\ v[i].revision = revision}
<1>1. I # {} /\ I \subseteq 0..Len(v)
  BY DEF Revisions
<1>2. Max(I) \in I
  <2>1. Len(v) \in Nat
    OBVIOUS
  <2> HIDE DEF I
  <2> QED
    BY <1>1, <2>1, HasGreatest
<1> QED
  BY <1>1, <1>2 DEF SelectLastInSeq, Of

\* A process given new locals has them.
LEMMA BecomesIs ==
    ASSUME st \in [Proc -> Locals], NEW p \in Proc, NEW new \in Locals,
           st' = [st EXCEPT ![p] = new]
    PROVE  /\ st' \in [Proc -> Locals]
           /\ \A q \in Proc \ {p} : st'[q] = st[q]
           /\ st'[p] = new
OBVIOUS

\* What the frame of a step needs.
LEMMA FrameIs ==
    ASSUME SlotInv, NEW p \in Proc,
           st' \in [Proc -> Locals], \A q \in Proc \ {p} : st'[q] = st[q],
           env' = env,
           calls' = calls \/ (calls' = calls + 1 /\ calls < instance.calls),
           \/ torn' = torn /\ faults' = faults
           \/ torn' \in BOOLEAN /\ (torn => torn') /\ faults' = faults + 1,
           overlap' = overlap \/ (overlap' \in BOOLEAN /\ (overlap => overlap')),
           lock' \in {lock, "none", "fresh"}
    PROVE  Frame(p)
<1>1. /\ calls \in 0..MaxCalls /\ faults \in Nat /\ torn \in BOOLEAN
      /\ (torn => faults > 0) /\ overlap \in BOOLEAN /\ instance \in Instances
      /\ lock \in {"none", "fresh", "old"}
  BY DEF SlotInv, Shape, TypeOK
<1>2. instance.calls \in 0..MaxCalls
  BY <1>1, Constants
<1>3. calls' \in 0..MaxCalls /\ calls <= calls'
  BY <1>1, <1>2, Constants
<1>4. faults' \in Nat /\ faults <= faults' /\ (torn' => faults' > 0)
  BY <1>1
<1>5. /\ torn' \in BOOLEAN /\ (torn => torn') /\ overlap' \in BOOLEAN /\ (overlap => overlap')
      /\ torn' = torn \/ faults < faults'
  BY <1>1
<1> QED
  BY <1>1, <1>3, <1>4, <1>5 DEF Frame, env

\* A call of admitArtifact begins.
LEMMA AdmitTurn == ASSUME SlotInv, NEW p \in Proc, Admit(p) PROVE Frame(p) /\ Turn(p)
<1>1. PICK body \in Body, key \in instance.keys \cup {None},
           expected \in {0} \cup Revisions(journal, {"committed"}) :
        st' = [st EXCEPT ![p] = [Idle EXCEPT !.pc = "verify", !.key = key,
                                             !.attempt = calls + 1,
                                             !.content = [body |-> body, expected |-> expected]]]
  BY DEF Admit
<1> DEFINE content == [body |-> body, expected |-> expected]
           new == [Idle EXCEPT !.pc = "verify", !.key = key, !.attempt = calls + 1,
                               !.content = content]
<1>2. /\ st \in [Proc -> Locals] /\ journal \in Seq(Record) /\ calls \in 0..MaxCalls
      /\ instance \in Instances
  BY DEF SlotInv, Shape, TypeOK
<1>3. content \in Content
  <2>1. expected \in 0..MaxCalls
    BY <1>2, JournalRange, Constants DEF Revision
  <2> QED
    BY <2>1 DEF Content
<1>4. calls + 1 \in 0..MaxCalls
  BY <1>2, Constants DEF Admit, Called
<1>5. key \in Key \cup {None}
  BY <1>2, AdmissionAssumption
<1>6. new \in Locals
  <2> HIDE DEF content
  <2> QED
    BY <1>3, <1>4, <1>5, IdleType DEF Locals, Steps, Before
<1>7. /\ new.pc = "verify" /\ new.attempt = calls + 1 /\ new.content \in Content
      /\ new.via = None /\ new.view = <<>> /\ new.result = "none"
  BY <1>3 DEF Idle
<1>8. st' = [st EXCEPT ![p] = new]
  BY <1>1
<1> HIDE DEF new
<1>9. /\ st' \in [Proc -> Locals] /\ st'[p] = new
      /\ \A q \in Proc \ {p} : st'[q] = st[q]
  BY <1>2, <1>6, <1>8, BecomesIs
<1>10. Frame(p)
  BY <1>9, FrameIs DEF Admit, Called, storeVars, historyVars
<1>11. Begins(p)
  BY <1>7, <1>9 DEF Begins, Stays, Admit, Called, At, storeVars, historyVars
<1> QED
  BY <1>10, <1>11 DEF Turn

\* And one of consumeApproval.
LEMMA ConsumeTurn == ASSUME SlotInv, NEW p \in Proc, Consume(p) PROVE Frame(p) /\ Turn(p)
<1>1. PICK a \in Approval, named \in Named :
        st' = [st EXCEPT ![p] = [Idle EXCEPT !.pc = "reserve", !.via = a,
                                             !.content = [body |-> named.body, expected |-> 0],
                                             !.attempt = calls + 1]]
  BY DEF Consume
<1> DEFINE content == [body |-> named.body, expected |-> 0]
           new == [Idle EXCEPT !.pc = "reserve", !.via = a, !.content = content,
                               !.attempt = calls + 1]
<1>2. /\ st \in [Proc -> Locals] /\ calls \in 0..MaxCalls /\ instance \in Instances
  BY DEF SlotInv, Shape, TypeOK
<1>3. content \in Content
  BY Constants DEF Content, Named
<1>4. calls + 1 \in 0..MaxCalls
  BY <1>2, Constants DEF Consume, Called
<1>5. new \in Locals
  <2> HIDE DEF content
  <2> QED
    BY <1>3, <1>4, IdleType DEF Locals, Steps, Before
<1>6. /\ new.pc = "reserve" /\ new.attempt = calls + 1 /\ new.content \in Content
      /\ new.via = a /\ new.view = <<>> /\ new.result = "none" /\ new.content.expected = 0
  BY <1>3 DEF Idle
<1>7. st' = [st EXCEPT ![p] = new]
  BY <1>1
<1> HIDE DEF new
<1>8. /\ st' \in [Proc -> Locals] /\ st'[p] = new
      /\ \A q \in Proc \ {p} : st'[q] = st[q]
  BY <1>2, <1>5, <1>7, BecomesIs
<1>9. Frame(p)
  BY <1>8, FrameIs DEF Consume, Called, storeVars, historyVars
<1>10. Begins(p)
  BY <1>6, <1>8, Constants DEF Begins, Stays, Consume, Called, At, storeVars, historyVars
<1> QED
  BY <1>9, <1>10 DEF Turn

\* Going on, giving up, and leaving, with what is counted left as it was.
LEMMA GoesOn ==
    ASSUME SlotInv, NEW p \in Proc, NEW x \in (Walking \ {"reserve"}) \cup {"read", "elsewhere"},
           Goto(p, x), st[p].pc \in Walking,
           x = "consumable" <=> At(p, "reserve"), x = "read" => At(p, "reverify"),
           x = "elsewhere" => At(p, "consumable"),
           x = "reverify" => overlap' \/ \A q \in Proc \ {p} : ~Holding(q),
           env' = env, Stays, torn' = torn, counters' = counters,
           overlap' = overlap \/ (overlap' \in BOOLEAN /\ (overlap => overlap')),
           lock' \in {lock, "none", "fresh"}
    PROVE  Frame(p) /\ Turn(p)
<1>1. x \in Steps
  BY DEF Steps, Before, Walking
<1>2. st \in [Proc -> Locals]
  BY DEF SlotInv, Shape
<1>3. /\ st' \in [Proc -> Locals] /\ \A q \in Proc \ {p} : st'[q] = st[q]
      /\ Keeps(p) /\ st'[p].pc = x
  BY <1>1, <1>2, GotoIs
<1>4. Frame(p)
  BY <1>3, FrameIs DEF counters
<1>5. Walks(p)
  BY <1>3 DEF Walks
<1> QED
  BY <1>4, <1>5 DEF Turn

\* A call that ends early, whatever for.
LEMMA GivesUp ==
    ASSUME SlotInv, NEW p \in Proc, NEW r \in Results \ {"ok"}, Stays, env' = env,
           \/ Leave(p, r)
           \/ Finish(p, r) /\ Holding(p)
           \/ st' = [st EXCEPT ![p] = [Idle EXCEPT !.result = r]],
           r \in {"lost", "corrupt"} =>
                \/ torn' \/ ~Sound
                \/ st[p].pc \in {"guard1", "guard2"} /\ settleGuard(p) # "none"
                \/ At(p, "sweep") /\ ~Swept(st[p].view)
                \/ r = st[p].result,
           calls' = calls \/ (calls' = calls + 1 /\ calls < instance.calls),
           \/ torn' = torn /\ faults' = faults
           \/ torn' \in BOOLEAN /\ (torn => torn') /\ faults' = faults + 1,
           overlap' = overlap, lock' \in {lock, "none"}
    PROVE  Frame(p) /\ Turn(p)
<1>1. st \in [Proc -> Locals]
  BY DEF SlotInv, Shape
<1>2. CASE Leave(p, r)
  <2>1. /\ st' \in [Proc -> Locals] /\ \A q \in Proc \ {p} : st'[q] = st[q]
        /\ st'[p].pc = IF st[p].via = None THEN "idle" ELSE "admitted"
        /\ st'[p].attempt = 0 /\ st'[p].view = <<>>
        /\ st'[p].via = st[p].via /\ st'[p].result = r
    BY <1>1, <1>2, LeaveIs
  <2>2. Frame(p)
    BY <2>1, FrameIs
  <2>3. Quits(p)
    BY <2>1 DEF Quits, Excused
  <2> QED
    BY <2>2, <2>3 DEF Turn
<1>3. CASE Finish(p, r) /\ Holding(p)
  <2>1. /\ st' \in [Proc -> Locals] /\ \A q \in Proc \ {p} : st'[q] = st[q]
        /\ Carries(p) /\ st'[p].pc = "unlock" /\ st'[p].result = r
        /\ st'[p].view = st[p].view
    BY <1>1, <1>3, FinishIs
  <2>2. Frame(p)
    BY <2>1, FrameIs
  <2>3. Quits(p)
    BY <1>3, <2>1 DEF Quits, Excused, Holding, Reading
  <2> QED
    BY <2>2, <2>3 DEF Turn
<1>4. CASE st' = [st EXCEPT ![p] = [Idle EXCEPT !.result = r]]
  <2>1. /\ st' \in [Proc -> Locals] /\ \A q \in Proc \ {p} : st'[q] = st[q]
        /\ st'[p].pc = "idle" /\ st'[p].attempt = 0 /\ st'[p].view = <<>>
        /\ st'[p].via = None /\ st'[p].result = r
    BY <1>1, <1>4, RestsIs
  <2>2. Frame(p)
    BY <2>1, FrameIs
  <2>3. Quits(p)
    BY <2>1 DEF Quits, Excused
  <2> QED
    BY <2>2, <2>3 DEF Turn
<1> QED
  BY <1>2, <1>3, <1>4

\* The governed append is entered.
LEMMA ReserveTurn == ASSUME SlotInv, NEW p \in Proc, Reserve(p) PROVE Frame(p) /\ Turn(p)
BY GoesOn DEF Reserve, At, Walking, Stays, storeVars, historyVars

\* The verdict under it lets the admission begin, or ends the call.
LEMMA JudgedTurn == ASSUME SlotInv, NEW p \in Proc, Judged(p) PROVE Frame(p) /\ Turn(p)
<1>1. CASE Goto(p, "verify")
  BY <1>1, GoesOn DEF Judged, At, Walking, Stays, storeVars, historyVars
<1>2. CASE Goto(p, "elsewhere")
  BY <1>2, GoesOn DEF Judged, At, Walking, Stays, storeVars, historyVars
<1>3. CASE st' = [st EXCEPT ![p] = [Idle EXCEPT !.result = "spent"]]
  BY <1>3, GivesUp DEF Judged, Results, Stays, storeVars, historyVars, counters
<1> QED
  BY <1>1, <1>2, <1>3 DEF Judged, Ends

\* The admission in another home answers, and the consumption goes on.
LEMMA AnswerIs ==
    ASSUME SlotInv, NEW p \in Proc, AdmitElsewhere(p)
    PROVE  /\ st' \in [Proc -> Locals]
           /\ \A q \in Proc \ {p} : st'[q] = st[q]
           /\ st'[p].pc = "admitted" /\ st'[p].via = st[p].via /\ st'[p].attempt = 0
           /\ st'[p].view = <<>> /\ st'[p].revision = 1
           /\ st'[p].result \in {"ok", "stale", "denied", "inFlight"}
<1>1. PICK r \in {"ok", "stale", "denied", "inFlight"} :
        st' = [st EXCEPT ![p] = [Idle EXCEPT !.pc = "admitted", !.via = st[p].via,
                                             !.revision = 1, !.result = r]]
  BY Zenon DEF AdmitElsewhere
<1> DEFINE new == [Idle EXCEPT !.pc = "admitted", !.via = st[p].via, !.revision = 1,
                               !.result = r]
<1>2. st \in [Proc -> Locals] /\ st[p] \in Locals
  BY DEF SlotInv, Shape
<1>3. 1 \in 0..MaxCalls
  <2>1. calls \in 0..MaxCalls /\ st[p].attempt # 0 /\ st[p].attempt <= calls
    BY DEF SlotInv, Shape, KnowsSlots, AdmitElsewhere, At
  <2>2. st[p].attempt \in 0..MaxCalls
    BY <1>2 DEF Locals
  <2> QED
    BY <2>1, <2>2, Constants
<1>4. new \in Locals
  BY <1>2, <1>3, IdleType DEF Locals, Steps, Results
<1>5. /\ new.pc = "admitted" /\ new.via = st[p].via /\ new.attempt = 0 /\ new.view = <<>>
      /\ new.revision = 1 /\ new.result = r
  BY DEF Idle
<1>6. st' = [st EXCEPT ![p] = new]
  BY <1>1
<1> HIDE DEF new
<1> QED
  BY <1>2, <1>4, <1>5, <1>6, BecomesIs

\* And so is this a step that gives up its attempt, whatever the answer.
LEMMA AdmitElsewhereTurn ==
    ASSUME SlotInv, NEW p \in Proc, AdmitElsewhere(p) PROVE Frame(p) /\ Turn(p)
<1>1. Frame(p)
  BY AnswerIs, FrameIs DEF AdmitElsewhere, storeVars, historyVars, counters
<1>2. Quits(p)
  BY AnswerIs DEF Quits, Stays, AdmitElsewhere, storeVars, historyVars
<1> QED
  BY <1>1, <1>2 DEF Turn

\* The outcome of a consumption is its process's own.
LEMMA AdmittedTurn == ASSUME SlotInv, NEW p \in Proc, Admitted(p) PROVE Frame(p) /\ Turn(p)
<1>1. st \in [Proc -> Locals] /\ st[p].result \in Results
  BY DEF SlotInv, Shape, Locals
<1>2. st' = [st EXCEPT ![p] = [Idle EXCEPT !.result = st[p].result]]
  BY DEF Admitted, Ends
<1>3. /\ st' \in [Proc -> Locals] /\ \A q \in Proc \ {p} : st'[q] = st[q]
      /\ st'[p].pc = "idle" /\ st'[p].attempt = 0 /\ st'[p].view = <<>>
      /\ st'[p].via = None /\ st'[p].result = st[p].result
  BY <1>1, <1>2, RestsIs
<1>4. Frame(p)
  <2>1. /\ env' = env /\ calls' = calls /\ torn' = torn /\ overlap' = overlap /\ lock' = lock
        /\ faults' = faults \/ faults' = faults + 1
    BY DEF Admitted, storeVars, historyVars
  <2>2. torn \in BOOLEAN
    BY DEF SlotInv, Shape, TypeOK
  <2> QED
    BY <1>3, <2>1, <2>2, FrameIs
<1>5. Quits(p)
  BY <1>3 DEF Quits, Excused, Stays, Admitted, storeVars, historyVars
<1> QED
  BY <1>4, <1>5 DEF Turn

\* A crash forgets the locals.
LEMMA CrashTurn == ASSUME SlotInv, NEW p \in Proc, Crash(p) PROVE Frame(p) /\ Turn(p)
<1>1. [Idle EXCEPT !.result = "none"] = Idle
  <2>1. Idle.result = "none"
    BY DEF Idle
  <2> QED
    BY <2>1, IdleType DEF Locals
<1>2. torn' \in BOOLEAN /\ (torn => torn') /\ faults' = faults + 1
  BY DEF Crash, SlotInv, Shape, TypeOK, Appending
<1>3. st' = [st EXCEPT ![p] = [Idle EXCEPT !.result = "none"]]
  BY <1>1 DEF Crash
<1> QED
  BY <1>2, <1>3, GivesUp DEF Crash, Results, Stays, historyVars

\* The principal is looked at before the lock.
LEMMA VerifyTurn == ASSUME SlotInv, NEW p \in Proc, Verify(p) PROVE Frame(p) /\ Turn(p)
<1>1. CASE Goto(p, "open")
  BY <1>1, GoesOn DEF Verify, At, Walking, Stays, storeVars, historyVars
<1>2. CASE Leave(p, "denied")
  BY <1>2, GivesUp DEF Verify, Results, Stays, storeVars, historyVars, counters
<1> QED
  BY <1>1, <1>2 DEF Verify

\* And again under it.
LEMMA ReverifyTurn == ASSUME SlotInv, NEW p \in Proc, Reverify(p) PROVE Frame(p) /\ Turn(p)
<1>1. CASE Goto(p, "read")
  BY <1>1, GoesOn DEF Reverify, At, Walking, Stays, storeVars, historyVars
<1>2. CASE Finish(p, "denied")
  <2>1. Holding(p)
    BY DEF Reverify, At, SlotInv, KnowsSlots, Holding, Reading
  <2> QED
    BY <1>2, <2>1, GivesUp DEF Reverify, Results, Stays, storeVars, historyVars, counters
<1> QED
  BY <1>1, <1>2 DEF Reverify

\* The lock is made, or found there.
LEMMA OpenTurn == ASSUME SlotInv, NEW p \in Proc, Open(p) PROVE Frame(p) /\ Turn(p)
<1>1. CASE Goto(p, "reverify") /\ lock' = "fresh"
            /\ overlap' = (overlap \/ \E q \in Proc \ {p} : Holding(q))
  <2>1. overlap \in BOOLEAN
    BY DEF SlotInv, Shape, TypeOK
  <2> QED
    BY <1>1, <2>1, GoesOn DEF Open, At, Walking, Stays
<1>2. CASE Goto(p, "stat") /\ UNCHANGED <<lock, overlap>>
  BY <1>2, GoesOn DEF Open, At, Walking, Stays
<1> QED
  BY <1>1, <1>2 DEF Open

\* A lock that is there is waited for, stolen or given way to.
LEMMA StatTurn == ASSUME SlotInv, NEW p \in Proc, Stat(p) PROVE Frame(p) /\ Turn(p)
<1>0. lock \in {"none", "fresh", "old"}
  BY DEF SlotInv, Shape, TypeOK
<1>1. CASE Goto(p, "open")
  BY <1>1, GoesOn DEF Stat, At, Walking, Stays, storeVars, historyVars
<1>2. CASE Goto(p, "rmStale")
  BY <1>2, GoesOn DEF Stat, At, Walking, Stays, storeVars, historyVars
<1>3. CASE Leave(p, "inFlight")
  BY <1>3, GivesUp DEF Stat, Results, Stays, storeVars, historyVars, counters
<1> QED
  BY <1>0, <1>1, <1>2, <1>3 DEF Stat

\* The stolen lock is removed.
LEMMA RmStaleTurn == ASSUME SlotInv, NEW p \in Proc, RmStale(p) PROVE Frame(p) /\ Turn(p)
BY GoesOn DEF RmStale, At, Walking, Stays, historyVars

\* What a replay leaves in the locals.
LEMMA SeeIs ==
    ASSUME SlotInv, NEW p \in Proc, At(p, "read"), See(p, "judge")
    PROVE  /\ st' \in [Proc -> Locals]
           /\ \A q \in Proc \ {p} : st'[q] = st[q]
           /\ Carries(p) /\ st'[p].result = st[p].result
           /\ st'[p].view = journal /\ st'[p].todo = danglingPreparedRevisions(journal)
           /\ st'[p].pc = IF st'[p].todo # {} THEN "recover" ELSE "judge"
<1> DEFINE dangling == danglingPreparedRevisions(journal)
           new == [[[st[p] EXCEPT !.view = journal] EXCEPT !.todo = dangling]
                        EXCEPT !.pc = IF dangling # {} THEN "recover" ELSE "judge"]
<1>1. /\ st \in [Proc -> Locals] /\ st[p] \in Locals
      /\ journal \in Seq(Record)
  BY DEF SlotInv, Shape, TypeOK
<1>2. dangling \subseteq Revision
  BY <1>1, JournalRange DEF danglingPreparedRevisions
<1>3. st' = [st EXCEPT ![p] = new]
  BY DEF See
<1> HIDE DEF dangling
<1>4. new \in Locals
  BY <1>1, <1>2 DEF Locals, Steps, Before
<1>5. /\ new.content = st[p].content /\ new.key = st[p].key
      /\ new.via = st[p].via /\ new.attempt = st[p].attempt
      /\ new.view = journal /\ new.todo = dangling /\ new.result = st[p].result
      /\ new.pc = IF dangling # {} THEN "recover" ELSE "judge"
  BY <1>1 DEF Locals
<1> HIDE DEF new
<1>6. st' \in [Proc -> Locals] /\ st'[p] = new /\ \A q \in Proc \ {p} : st'[q] = st[q]
  BY <1>1, <1>3, <1>4, BecomesIs
<1> QED
  BY <1>5, <1>6 DEF Carries, dangling

\* An admission inside replays the journal.
LEMMA ReadTurn == ASSUME SlotInv, NEW p \in Proc, Read(p) PROVE Frame(p) /\ Turn(p)
<1>1. CASE Sound /\ See(p, "judge")
  <2>1. /\ st' \in [Proc -> Locals] /\ \A q \in Proc \ {p} : st'[q] = st[q]
        /\ Carries(p) /\ st'[p].result = st[p].result
        /\ st'[p].view = journal /\ st'[p].todo = danglingPreparedRevisions(journal)
        /\ st'[p].pc = IF st'[p].todo # {} THEN "recover" ELSE "judge"
    BY <1>1, SeeIs DEF Read
  <2>2. Frame(p)
    BY <2>1, FrameIs DEF Read, Quiet, storeVars, historyVars, counters
  <2>3. Looks(p)
    BY <1>1, <2>1 DEF Looks, Read, Quiet, Stays, storeVars, historyVars, At
  <2> QED
    BY <2>2, <2>3 DEF Turn
<1>2. CASE ~Sound /\ Finish(p, "corrupt")
  <2>1. Holding(p)
    BY DEF Read, At, SlotInv, KnowsSlots, Holding, Reading
  <2> QED
    BY <1>2, <2>1, GivesUp DEF Read, Quiet, Results, Stays, storeVars, historyVars, counters
<1> QED
  BY <1>1, <1>2 DEF Read

\* And so does a reader.
LEMMA ShowTurn == ASSUME SlotInv, NEW p \in Proc, Show(p) PROVE Frame(p) /\ Turn(p)
<1>1. st \in [Proc -> Locals] /\ journal \in Seq(Record)
  BY DEF SlotInv, Shape, TypeOK
<1>2. CASE ~Sound /\ st' = [st EXCEPT ![p] = [Idle EXCEPT !.result = "corrupt"]]
  BY <1>2, GivesUp DEF Show, Called, Results, Stays, storeVars, historyVars
<1> DEFINE dangling == danglingPreparedRevisions(journal)
           new == [Idle EXCEPT !.view = journal, !.todo = dangling,
                        !.pc = IF dangling # {} THEN "inFlight" ELSE "sweep"]
<1>3. CASE Sound /\ st' = [st EXCEPT ![p] = new]
  <2>1. dangling \subseteq Revision
    BY <1>1, JournalRange DEF danglingPreparedRevisions
  <2> HIDE DEF dangling
  <2>2. new \in Locals
    BY <1>1, <2>1, IdleType DEF Locals, Steps
  <2>3. /\ new.attempt = 0 /\ new.via = None /\ new.result = "none"
        /\ new.view = journal /\ new.todo = dangling
        /\ new.pc = IF dangling # {} THEN "inFlight" ELSE "sweep"
    BY DEF Idle
  <2> HIDE DEF new
  <2>4. st' \in [Proc -> Locals] /\ st'[p] = new /\ \A q \in Proc \ {p} : st'[q] = st[q]
    BY <1>1, <1>3, <2>2, BecomesIs
  <2>5. Frame(p)
    BY <2>4, FrameIs DEF Show, Called, storeVars, historyVars
  <2>6. Looks(p)
    BY <1>3, <2>3, <2>4 DEF Looks, Show, Stays, storeVars, historyVars, At, dangling
  <2> QED
    BY <2>5, <2>6 DEF Turn
<1> QED
  BY <1>2, <1>3 DEF Show

\* A reader leaves the slots of a live admission to it.
LEMMA InFlightTurn == ASSUME SlotInv, NEW p \in Proc, InFlight(p) PROVE Frame(p) /\ Turn(p)
<1> DEFINE x == IF lock = "fresh" THEN "sweep" ELSE "recover"
<1>1. x \in Steps /\ x \in {"sweep", "recover"}
  BY DEF Steps, Before
<1>2. Goto(p, x)
  BY DEF InFlight
<1> HIDE DEF x
<1>3. /\ st' \in [Proc -> Locals] /\ \A q \in Proc \ {p} : st'[q] = st[q]
      /\ Keeps(p) /\ st'[p].pc = x
  BY <1>1, <1>2, GotoIs DEF SlotInv, Shape
<1>4. Frame(p)
  BY <1>3, FrameIs DEF InFlight, Quiet, storeVars, historyVars, counters
<1>5. Waits(p)
  BY <1>1, <1>3 DEF Waits, InFlight, Quiet, Stays, storeVars, historyVars, At
<1> QED
  BY <1>4, <1>5 DEF Turn

\* A reader answers from the store.
LEMMA SweepTurn == ASSUME SlotInv, NEW p \in Proc, Sweep(p) PROVE Frame(p) /\ Turn(p)
<1>1. CASE Swept(st[p].view) /\ Leave(p, "served")
  BY <1>1, GivesUp DEF Sweep, Quiet, Results, Stays, storeVars, historyVars, counters
<1>2. CASE ~Swept(st[p].view) /\ Leave(p, "corrupt")
  BY <1>2, GivesUp DEF Sweep, Quiet, Results, Stays, storeVars, historyVars, counters
<1> QED
  BY <1>1, <1>2 DEF Sweep

\* A reader that gives up leaves, and an admission comes to its finally clause.
LEMMA FailIs ==
    ASSUME SlotInv, NEW p \in Proc, NEW r, Fail(p, r), st[p].pc \in {"recover", "reread"}
    PROVE  Leave(p, r) \/ (Finish(p, r) /\ Holding(p))
BY DEF Fail, Reading, Holding

\* An append that fails leaves the journal as it was.
LEMMA FailsIs ==
    ASSUME SlotInv, AppendFails
    PROVE  /\ torn' \in BOOLEAN /\ (torn => torn') /\ faults' = faults + 1
           /\ journal' = journal
<1>1. torn \in BOOLEAN
  BY DEF SlotInv, Shape, TypeOK
<1>2. torn' \in {torn, TRUE} /\ faults' = faults + 1 /\ journal' = journal
  BY DEF AppendFails
<1> QED
  BY <1>1, <1>2

\* A slot a crashed attempt left is settled as aborted.
LEMMA RecoverTurn == ASSUME SlotInv, NEW p \in Proc, Recover(p) PROVE Frame(p) /\ Turn(p)
<1> DEFINE todo == st[p].todo
           v == st[p].view
           revision == Min(todo)
           claim == SelectLastInSeq(v,
                    LAMBDA record : record.kind = "prepared" /\ record.revision = revision)
           rest == todo \ {revision}
           new == [[st[p] EXCEPT !.todo = rest]
                        EXCEPT !.pc = IF todo = {revision} THEN "reread" ELSE "recover"]
           record == [v[claim] EXCEPT !.kind = "aborted"]
<1>1. /\ st \in [Proc -> Locals] /\ st[p] \in Locals /\ st[p].pc = "recover"
      /\ journal \in Seq(Record) /\ v \in Seq(Record)
      /\ todo # {} /\ todo \subseteq Revisions(v, {"prepared"}) /\ todo \subseteq Revision
      /\ Prefix(v, journal)
  BY DEF SlotInv, Shape, TypeOK, KnowsSlots, Locals, Recover, At
<1>2. revision \in todo
  <2> HIDE DEF todo
  <2> QED
    BY <1>1, HasLeast, Constants
<1>3. claim \in Of(v, "prepared") /\ v[claim].revision = revision
  <2>1. revision \in Revisions(v, {"prepared"}) /\ v \in Seq(Record)
    BY <1>1, <1>2
  <2> HIDE DEF v, revision
  <2> QED
    BY <2>1, LastClaimIs
<1>4. /\ claim \in Of(journal, "prepared") /\ journal[claim].revision = revision
      /\ journal[claim] = v[claim] /\ journal[claim] \in Record
  <2>1. claim \in 1..Len(v) /\ v[claim].kind = "prepared"
    BY <1>3 DEF Of
  <2> HIDE DEF claim, v, revision
  <2> QED
    BY <1>1, <1>3, <2>1 DEF Of, Prefix
<1>5. CASE AppendLine(record) /\ st' = [st EXCEPT ![p] = new]
  <2>1. /\ record \in Record /\ record.kind = "aborted"
        /\ record.revision = journal[claim].revision
        /\ record.attempt = journal[claim].attempt
    <3> HIDE DEF claim, v, revision
    <3> QED
      BY <1>4 DEF Record
  <2> HIDE DEF record
  <2>2. rest \subseteq Revision /\ rest \subseteq todo
    BY <1>1
  <2>3. todo # {revision} => rest # {}
    BY <1>2
  <2> HIDE DEF rest
  <2>4. new \in Locals
    BY <1>1, <2>2 DEF Locals, Steps, Before
  <2>5. /\ new.content = st[p].content /\ new.key = st[p].key
        /\ new.via = st[p].via /\ new.attempt = st[p].attempt
        /\ new.view = st[p].view /\ new.result = st[p].result
        /\ new.todo = rest
        /\ new.pc = IF todo = {revision} THEN "reread" ELSE "recover"
    BY <1>1 DEF Locals
  <2> HIDE DEF new
  <2>6. st' \in [Proc -> Locals] /\ st'[p] = new /\ \A q \in Proc \ {p} : st'[q] = st[q]
    BY <1>1, <1>5, <2>4, BecomesIs
  <2>7. Frame(p)
    BY <1>5, <2>6, FrameIs DEF Recover, AppendLine, historyVars
  <2>8. files' = files /\ acked' = acked
    BY DEF Recover, historyVars
  <2>9. Carries(p) /\ st'[p].view = st[p].view /\ st'[p].result = st[p].result
    BY <2>5, <2>6 DEF Carries
  <2>10. \/ st'[p].pc = "recover" /\ st'[p].todo # {} /\ st'[p].todo \subseteq st[p].todo
         \/ st'[p].pc = "reread"
    BY <2>2, <2>3, <2>5, <2>6
  <2>11. \/ torn /\ journal' = journal
         \/ ~torn' /\ journal' = Append(journal, record)
    BY <1>5 DEF AppendLine
  <2>12. Aborts(p)
    <3> HIDE DEF claim
    <3> QED
      BY <1>1, <1>4, <2>1, <2>8, <2>9, <2>10, <2>11 DEF Aborts, At
  <2> QED
    BY <2>7, <2>12 DEF Turn
<1>6. CASE AppendFails /\ Fail(p, "io")
  <2>1. Leave(p, "io") \/ (Finish(p, "io") /\ Holding(p))
    BY <1>1, <1>6, FailIs
  <2>2. /\ torn' \in BOOLEAN /\ (torn => torn') /\ faults' = faults + 1
        /\ journal' = journal
    BY <1>6, FailsIs
  <2> QED
    BY <1>6, <2>1, <2>2, GivesUp DEF Recover, Results, Stays, historyVars
<1>7. ASSUME st' = [st EXCEPT ![p].todo = @ \ {revision},
                             ![p].pc = IF st[p].todo = {revision} THEN "reread" ELSE @]
      PROVE  st' = [st EXCEPT ![p] = new]
  BY <1>1, <1>7
<1> QED
  BY <1>5, <1>6, <1>7 DEF Recover

\* The journal is replayed again.
LEMMA RereadTurn == ASSUME SlotInv, NEW p \in Proc, Reread(p) PROVE Frame(p) /\ Turn(p)
<1>1. CASE torn /\ Fail(p, "corrupt")
  <2>1. torn' = torn
    BY DEF Reread, Quiet, storeVars
  <2>2. Leave(p, "corrupt") \/ (Finish(p, "corrupt") /\ Holding(p))
    BY <1>1, FailIs DEF Reread, At
  <2> QED
    BY <1>1, <2>1, <2>2, GivesUp DEF Reread, Quiet, Results, Stays, storeVars, historyVars, counters
<1> DEFINE step == IF Reading(p) THEN "sweep" ELSE "judge"
           new == [[st[p] EXCEPT !.view = journal] EXCEPT !.pc = step]
<1>2. CASE ~torn /\ st' = [st EXCEPT ![p] = new]
  <2>1. st \in [Proc -> Locals] /\ st[p] \in Locals /\ journal \in Seq(Record)
    BY DEF SlotInv, Shape, TypeOK
  <2>2. step \in Steps
    BY DEF Steps, Before
  <2> HIDE DEF step
  <2>3. new \in Locals
    BY <2>1, <2>2 DEF Locals
  <2>4. /\ new.content = st[p].content /\ new.key = st[p].key
        /\ new.via = st[p].via /\ new.attempt = st[p].attempt
        /\ new.view = journal /\ new.result = st[p].result
        /\ new.pc = step
    BY <2>1 DEF Locals
  <2> HIDE DEF new
  <2>5. st' \in [Proc -> Locals] /\ st'[p] = new /\ \A q \in Proc \ {p} : st'[q] = st[q]
    BY <1>2, <2>1, <2>3, BecomesIs
  <2>6. Frame(p)
    BY <2>5, FrameIs DEF Reread, Quiet, storeVars, historyVars, counters
  <2>7. Rereads(p)
    BY <1>2, <2>4, <2>5
       DEF Rereads, Carries, Reread, Quiet, Stays, storeVars, historyVars, At, step, Reading
  <2> QED
    BY <2>6, <2>7 DEF Turn
<1> QED
  BY <1>1, <1>2 DEF Reread

\* The answers of a judged admission.
LEMMA VerdictIs ==
    ASSUME NEW p \in Proc
    PROVE  Verdict(p) \in {"corrupt", "keyConflict", "duplicate", "stale", "new"}
BY DEF Verdict

\* The verdict goes with the answer, or with the slot.
LEMMA JudgeTurn == ASSUME SlotInv, NEW p \in Proc, Judge(p) PROVE Frame(p) /\ Turn(p)
<1> DEFINE j == st[p].view
           verdict == Verdict(p)
           keyed == Keyed(j, st[p].key)
           same == Same(j, st[p].content)
           prior == MaxOf(IF keyed # {} THEN keyed ELSE same)
           pc == IF verdict = "new" THEN "prepare" ELSE "unlock"
           result == IF verdict = "duplicate" THEN "ok"
                     ELSE IF verdict = "new" THEN "none" ELSE verdict
           head == committedHead(j)
           revision == IF verdict = "new" THEN highestClaimedRevision(j) + 1 ELSE prior
           new == [[[[[st[p] EXCEPT !.pc = pc] EXCEPT !.result = result] EXCEPT !.head = head]
                        EXCEPT !.revision = revision] EXCEPT !.view = <<>>]
<1>1. st \in [Proc -> Locals] /\ st[p] \in Locals /\ j \in Seq(Record)
  BY DEF SlotInv, Shape, Locals
<1>2. verdict \in {"corrupt", "keyConflict", "duplicate", "stale", "new"}
  BY VerdictIs
<1>3. prior \in 0..MaxCalls
  <2>1. keyed \subseteq Revision /\ same \subseteq Revision
    BY <1>1, JournalRange DEF Keyed, Same, Of
  <2>2. Revision \subseteq 0..MaxCalls
    BY Constants DEF Revision
  <2> DEFINE S == IF keyed # {} THEN keyed ELSE same
  <2>3. S \subseteq 0..MaxCalls
    BY <2>1, <2>2
  <2>4. MaxOf(S) \in 0..MaxCalls
    <3> HIDE DEF S
    <3> QED
      BY <2>3, MaxOfIs, Constants
  <2> QED
    BY <2>4
<1>4. head \in 0..MaxCalls
  BY <1>1, HeadIs
<1>5. highestClaimedRevision(j) + 1 \in 0..MaxCalls
  <2>1. highestClaimedRevision(j) + 1 \in Revision
    BY NextSlot DEF Judge
  <2> QED
    BY <2>1 DEF Revision
<1>6. st' = [st EXCEPT ![p] = new]
  BY <1>1 DEF Judge
<1> HIDE DEF verdict, prior, head
<1>7. revision \in 0..MaxCalls
  BY <1>3, <1>5
<1>8. pc \in Steps /\ result \in Results
  BY <1>2 DEF Steps, Before, Results
<1>9. <<>> \in Seq(Record)
  OBVIOUS
<1> HIDE DEF pc, result, revision
<1>10. new \in Locals
  BY <1>1, <1>4, <1>7, <1>8, <1>9 DEF Locals
<1>11. /\ new.content = st[p].content /\ new.key = st[p].key
       /\ new.via = st[p].via /\ new.attempt = st[p].attempt
       /\ new.view = <<>> /\ new.result = result
       /\ new.pc = pc /\ new.head = head /\ new.revision = revision
  BY <1>1 DEF Locals
<1> HIDE DEF new
<1>12. st' \in [Proc -> Locals] /\ st'[p] = new /\ \A q \in Proc \ {p} : st'[q] = st[q]
  BY <1>1, <1>6, <1>10, BecomesIs
<1>13. Frame(p)
  BY <1>12, FrameIs DEF Judge, Quiet, storeVars, historyVars, counters
<1>14. Judges(p)
  <2>1. Stays /\ At(p, "judge")
    BY DEF Judge, Quiet, Stays, storeVars, historyVars
  <2>2. Carries(p) /\ st'[p].view = <<>> /\ st'[p].pc = pc /\ st'[p].result = result
        /\ st'[p].head = head /\ st'[p].revision = revision
    BY <1>11, <1>12 DEF Carries
  <2>3. CASE verdict = "new"
    BY <2>1, <2>2, <2>3 DEF Judges, verdict, pc, result, head, revision
  <2>4. CASE verdict = "duplicate"
    BY <2>1, <2>2, <2>4 DEF Judges, verdict, pc, result, revision, prior
  <2>5. CASE verdict \notin {"new", "duplicate"}
    BY <2>1, <2>2, <2>5 DEF Judges, verdict, pc, result
  <2> QED
    BY <2>3, <2>4, <2>5
<1> QED
  BY <1>13, <1>14 DEF Turn

\* A write of p's own record, or its failure.
LEMMA WriteTurn ==
    ASSUME SlotInv, NEW p \in Proc, NEW kind \in {"prepared", "committed"},
           NEW next \in {"guard1", "receipt"}, Write(p, kind, next),
           st[p].attempt # 0, st[p].revision # 0,
           kind = "prepared" => At(p, "prepare") /\ next = "guard1",
           kind = "committed" => At(p, "commit") /\ next = "receipt"
    PROVE  Frame(p) /\ Turn(p)
<1>1. CASE AppendLine(Mine(p, kind)) /\ Goto(p, next)
  <2>1. next \in Steps
    BY DEF Steps, Claiming
  <2>2. /\ st' \in [Proc -> Locals] /\ \A q \in Proc \ {p} : st'[q] = st[q]
        /\ Keeps(p) /\ st'[p].pc = next
    BY <1>1, <2>1, GotoIs DEF SlotInv, Shape
  <2>3. Frame(p)
    BY <1>1, <2>2, FrameIs DEF Write, AppendLine, historyVars
  <2>4. Mine(p, kind) = RecordOf(st[p], kind)
    BY RecordType
  <2>5. /\ torn' = torn /\ faults' = faults
        /\ \/ torn /\ journal' = journal
           \/ ~torn /\ journal' = Append(journal, RecordOf(st[p], kind))
    BY <1>1, <2>4 DEF AppendLine
  <2>6. Records(p, kind)
    BY <2>2, <2>5 DEF Records, Write, historyVars
  <2> QED
    BY <2>2, <2>3, <2>6 DEF Turn, Claims, Settlement
<1>2. CASE AppendFails /\ Finish(p, "io")
  <2>1. /\ torn' \in BOOLEAN /\ (torn => torn') /\ faults' = faults + 1
        /\ journal' = journal
    BY <1>2, FailsIs
  <2> QED
    BY <1>2, <2>1, GivesUp DEF Write, Holding, Reading, At, Results, Stays, historyVars
<1> QED
  BY <1>1, <1>2 DEF Write

\* The claim of a slot.
LEMMA PrepareTurn == ASSUME SlotInv, NEW p \in Proc, Prepare(p) PROVE Frame(p) /\ Turn(p)
<1>1. st[p].attempt # 0 /\ st[p].revision # 0
  BY DEF Prepare, At, SlotInv, KnowsSlots
<1> QED
  BY <1>1, WriteTurn DEF Prepare

\* The commit.
LEMMA CommitTurn == ASSUME SlotInv, NEW p \in Proc, Commit(p) PROVE Frame(p) /\ Turn(p)
<1>1. st[p].attempt # 0 /\ st[p].revision # 0
  BY DEF Commit, At, SlotInv, KnowsSlots, Claiming, Owning
<1> QED
  BY <1>1, WriteTurn DEF Commit

\* A guard lets the attempt pass, or turns it away.
LEMMA GuardTurn ==
    ASSUME SlotInv, NEW p \in Proc, NEW next \in {"writeBody", "commit"}, Guard(p, next),
           next = "writeBody" => At(p, "guard1"), next = "commit" => At(p, "guard2")
    PROVE  Frame(p) /\ Turn(p)
<1>1. CASE settleGuard(p) = "none" /\ Goto(p, next)
  <2>1. next \in Steps
    BY DEF Steps, Claiming, Owning
  <2>2. /\ st' \in [Proc -> Locals] /\ \A q \in Proc \ {p} : st'[q] = st[q]
        /\ Keeps(p) /\ st'[p].pc = next
    BY <1>1, <2>1, GotoIs DEF SlotInv, Shape
  <2>3. Frame(p)
    BY <2>2, FrameIs DEF Guard, Quiet, storeVars, historyVars, counters
  <2>4. Passes(p)
    BY <1>1, <2>2 DEF Passes, Guard, Quiet, Stays, storeVars, historyVars
  <2> QED
    BY <2>3, <2>4 DEF Turn
<1>2. CASE settleGuard(p) # "none" /\ Finish(p, settleGuard(p))
  <2>1. settleGuard(p) \in {"lost", "corrupt"}
    BY <1>2 DEF settleGuard
  <2>2. Holding(p) /\ st[p].pc \in {"guard1", "guard2"}
    BY DEF At, SlotInv, KnowsSlots, Holding, Reading
  <2>3. settleGuard(p) \in Results \ {"ok"}
    BY <2>1 DEF Results
  <2> QED
    BY <1>2, <2>2, <2>3, GivesUp DEF Guard, Quiet, Stays, storeVars, historyVars, counters
<1> QED
  BY <1>1, <1>2 DEF Guard

\* Before the pair is written.
LEMMA Guard1Turn == ASSUME SlotInv, NEW p \in Proc, Guard1(p) PROVE Frame(p) /\ Turn(p)
BY GuardTurn DEF Guard1

\* And after.
LEMMA Guard2Turn == ASSUME SlotInv, NEW p \in Proc, Guard2(p) PROVE Frame(p) /\ Turn(p)
BY GuardTurn DEF Guard2

\* A half of the pair, or the write's failure.
LEMMA HalfTurn ==
    ASSUME SlotInv, NEW p \in Proc, NEW pair, NEW next \in {"writeEnvelope", "guard2"},
           WriteHalf(p, pair, next),
           \/ /\ next = "writeEnvelope" /\ At(p, "writeBody")
              /\ pair = [files[st[p].revision] EXCEPT !.body = st[p].content.body]
           \/ /\ next = "guard2" /\ At(p, "writeEnvelope")
              /\ pair = [files[st[p].revision] EXCEPT !.envelope = st[p].content]
    PROVE  Frame(p) /\ Turn(p)
<1>1. CASE files' = [files EXCEPT ![st[p].revision] = pair] /\ Goto(p, next) /\ UNCHANGED faults
  <2>1. next \in Steps
    BY DEF Steps, Claiming, Owning
  <2>2. /\ st' \in [Proc -> Locals] /\ \A q \in Proc \ {p} : st'[q] = st[q]
        /\ Keeps(p) /\ st'[p].pc = next
    BY <1>1, <2>1, GotoIs DEF SlotInv, Shape
  <2>3. Frame(p)
    BY <1>1, <2>2, FrameIs DEF WriteHalf, historyVars
  <2>4. Fills(p)
    BY <1>1, <2>2 DEF Fills, WriteHalf, historyVars
  <2> QED
    BY <2>3, <2>4 DEF Turn
<1>2. CASE Finish(p, "io") /\ faults' = faults + 1 /\ UNCHANGED files
  <2>1. Holding(p)
    BY DEF At, SlotInv, KnowsSlots, Holding, Reading
  <2>2. torn \in BOOLEAN
    BY DEF SlotInv, Shape, TypeOK
  <2> QED
    BY <1>2, <2>1, <2>2, GivesUp DEF WriteHalf, Results, Stays, historyVars
<1> QED
  BY <1>1, <1>2 DEF WriteHalf

\* The body.
LEMMA WriteBodyTurn == ASSUME SlotInv, NEW p \in Proc, WriteBody(p) PROVE Frame(p) /\ Turn(p)
BY HalfTurn DEF WriteBody

\* The envelope.
LEMMA WriteEnvelopeTurn ==
    ASSUME SlotInv, NEW p \in Proc, WriteEnvelope(p) PROVE Frame(p) /\ Turn(p)
BY HalfTurn DEF WriteEnvelope

\* The receipt is read, or a line of the journal does not parse.
LEMMA ReceiptTurn == ASSUME SlotInv, NEW p \in Proc, Receipt(p) PROVE Frame(p) /\ Turn(p)
<1>1. CASE torn /\ Finish(p, "corrupt")
  <2>1. Holding(p) /\ torn' = torn
    BY DEF Receipt, Quiet, storeVars, At, SlotInv, KnowsSlots, Holding, Reading
  <2> QED
    BY <1>1, <2>1, GivesUp DEF Receipt, Quiet, Results, Stays, storeVars, historyVars, counters
<1>2. CASE ~torn /\ Finish(p, "ok")
  <2>1. /\ st' \in [Proc -> Locals] /\ \A q \in Proc \ {p} : st'[q] = st[q]
        /\ Carries(p) /\ st'[p].pc = "unlock" /\ st'[p].result = "ok"
        /\ st'[p].revision = st[p].revision /\ st'[p].view = st[p].view
    BY <1>2, FinishIs DEF SlotInv, Shape, Results
  <2>2. Frame(p)
    BY <2>1, FrameIs DEF Receipt, Quiet, storeVars, historyVars, counters
  <2>3. Receives(p)
    BY <1>2, <2>1 DEF Receives, Receipt, Quiet, Stays, storeVars, historyVars
  <2> QED
    BY <2>2, <2>3 DEF Turn
<1> QED
  BY <1>1, <1>2 DEF Receipt

\* The finally clause hands out the result.
LEMMA UnlockTurn == ASSUME SlotInv, NEW p \in Proc, Unlock(p) PROVE Frame(p) /\ Turn(p)
<1>1. st \in [Proc -> Locals] /\ st[p].result \in Results
  BY DEF SlotInv, Shape, Locals
<1>2. /\ st' \in [Proc -> Locals] /\ \A q \in Proc \ {p} : st'[q] = st[q]
      /\ st'[p].pc = IF st[p].via = None THEN "idle" ELSE "admitted"
      /\ st'[p].attempt = 0 /\ st'[p].view = <<>>
      /\ st'[p].via = st[p].via /\ st'[p].result = st[p].result
      /\ st'[p].revision = st[p].revision
  BY <1>1, LeaveIs DEF Unlock
<1>3. Frame(p)
  BY <1>2, FrameIs DEF Unlock, counters
<1>4. Returns(p)
  BY <1>2 DEF Returns, Unlock
<1> QED
  BY <1>3, <1>4 DEF Turn

---------------------------------------------------------------------------
(* The steps of all.                                                       *)

Acts(p) == Admit(p) \/ Show(p) \/ Step(p) \/ Crash(p)
                \/ Consume(p) \/ Reserve(p) \/ Judged(p) \/ AdmitElsewhere(p)
                \/ Admitted(p)

\* A step of an admission, or of a reader.
LEMMA StepTurn == ASSUME SlotInv, NEW p \in Proc, Step(p) PROVE Frame(p) /\ Turn(p)
BY VerifyTurn, OpenTurn, StatTurn, RmStaleTurn, ReverifyTurn, ReadTurn, RecoverTurn, RereadTurn,
   JudgeTurn, PrepareTurn, Guard1Turn, WriteBodyTurn, WriteEnvelopeTurn, Guard2Turn, CommitTurn,
   ReceiptTurn, UnlockTurn, InFlightTurn, SweepTurn DEF Step

\* A step of any process.
LEMMA ActsTurn == ASSUME SlotInv, NEW p \in Proc, Acts(p) PROVE Frame(p) /\ Turn(p)
BY AdmitTurn, ShowTurn, StepTurn, CrashTurn, ConsumeTurn, ReserveTurn, JudgedTurn,
   AdmitElsewhereTurn, AdmittedTurn DEF Acts

\* Time, a revocation, a decision about an approval, or nothing.
Rests ==
    /\ UNCHANGED <<instance, journal, torn, files, st, historyVars, calls, faults>>
    /\ active' \in BOOLEAN
    /\ lock' \in {"none", "fresh", "old"}

\* A step has one of the forms, or no process moves.
LEMMA NextForm ==
    ASSUME SlotInv, [Next]_vars
    PROVE  Rests \/ \E p \in Proc : Acts(p) /\ Frame(p) /\ Turn(p)
<1>1. active \in BOOLEAN /\ lock \in {"none", "fresh", "old"}
  BY DEF SlotInv, Shape, TypeOK
<1>2. ASSUME NEW p \in Proc, Acts(p) PROVE \E q \in Proc : Acts(q) /\ Frame(q) /\ Turn(q)
  BY <1>2, ActsTurn
<1>3. CASE \E p \in Proc : \/ (Admit(p) \/ Show(p)) /\ UNCHANGED approvalVars
                           \/ AdmissionStep(p) \/ CrashWriter(p)
                           \/ Consume(p) \/ Reserve(p) \/ Judged(p) \/ AdmitElsewhere(p)
                           \/ Admitted(p)
  <2>1. \E p \in Proc : Acts(p)
    BY <1>3 DEF Acts, AdmissionStep, CrashWriter
  <2> QED
    BY <1>2, <2>1
<1>4. CASE Expire \/ Deactivate
  BY <1>1, <1>4 DEF Rests, Expire, Deactivate, env, storeVars, historyVars, counters
<1>5. CASE \E a \in Approval : Grant(a) \/ Revoke(a)
  BY <1>1, <1>5 DEF Rests, Grant, Revoke, admissionVars, env, storeVars, historyVars, counters
<1>6. CASE UNCHANGED vars
  BY <1>1, <1>6 DEF Rests, vars, admissionVars, env, storeVars, historyVars, counters
<1> QED
  BY <1>3, <1>4, <1>5, <1>6 DEF Next

---------------------------------------------------------------------------
(* How the journal grows.                                                  *)

\* What p may append.
Origin(p, record) ==
    \/ At(p, "prepare") /\ record = RecordOf(st[p], "prepared")
    \/ At(p, "commit") /\ record = RecordOf(st[p], "committed")
    \/ At(p, "recover") /\ record.kind = "aborted" /\ \E i \in Of(journal, "prepared") :
            journal[i].revision = record.revision /\ journal[i].attempt = record.attempt

Grows(p) ==
    \/ journal' = journal
    \/ ~torn /\ \E record \in Record : Origin(p, record) /\ journal' = Append(journal, record)

\* A process appends nothing but its own records and those that settle a slot.
LEMMA TurnGrows == ASSUME SlotInv, NEW p \in Proc, Frame(p), Turn(p) PROVE Grows(p)
<1>1. CASE Claims(p)
  <2>1. st[p].attempt # 0 /\ st[p].revision # 0
    BY <1>1 DEF Claims, At, SlotInv, KnowsSlots
  <2>2. RecordOf(st[p], "prepared") \in Record
    BY <2>1, RecordType
  <2> QED
    BY <1>1, <2>2 DEF Claims, Records, Grows, Origin
<1>2. CASE Settlement(p)
  <2>1. st[p].attempt # 0 /\ st[p].revision # 0
    BY <1>2 DEF Settlement, At, SlotInv, KnowsSlots, Claiming, Owning
  <2>2. RecordOf(st[p], "committed") \in Record
    BY <2>1, RecordType
  <2> QED
    BY <1>2, <2>2 DEF Settlement, Records, Grows, Origin
<1>3. CASE Aborts(p)
  <2>1. ~torn' => ~torn
    BY DEF Frame
  <2> QED
    BY <1>3, <2>1 DEF Aborts, Grows, Origin
<1>4. CASE ~Claims(p) /\ ~Settlement(p) /\ ~Aborts(p)
  <2>1. journal' = journal
    BY <1>4 DEF Turn, Begins, Walks, Quits, Looks, Rereads, Waits, Judges, Passes, Fills,
                Receives, Returns, Stays
  <2> QED
    BY <2>1 DEF Grows
<1> QED
  BY <1>1, <1>2, <1>3, <1>4

\* What is on the journal stays on it.
LEMMA Later ==
    ASSUME SlotInv, NEW p \in Proc, Grows(p)
    PROVE  /\ journal' \in Seq(Record)
           /\ Len(journal) \in Nat /\ Len(journal') \in Nat /\ Len(journal) <= Len(journal')
           /\ \A i \in 1..Len(journal) : i \in 1..Len(journal') /\ journal'[i] = journal[i]
           /\ \A kind : Of(journal, kind) \subseteq Of(journal', kind)
           /\ \A kinds : Revisions(journal, kinds) \subseteq Revisions(journal', kinds)
<1>1. journal \in Seq(Record) /\ Len(journal) \in Nat
  BY DEF SlotInv, Shape, TypeOK
<1>2. CASE journal' = journal
  BY <1>1, <1>2
<1>3. ASSUME NEW record \in Record, journal' = Append(journal, record)
      PROVE  /\ journal' \in Seq(Record)
             /\ Len(journal') = Len(journal) + 1
             /\ \A i \in 1..Len(journal) : journal'[i] = journal[i]
             /\ \A kind : Of(journal, kind) \subseteq Of(journal', kind)
             /\ \A kinds : Revisions(journal, kinds) \subseteq Revisions(journal', kinds)
  <2>1. /\ journal' \in Seq(Record)
        /\ Len(journal') = Len(journal) + 1
        /\ \A i \in 1..Len(journal) : journal'[i] = journal[i]
    BY <1>1, <1>3, AppendIs
  <2>2. ASSUME NEW kind PROVE Of(journal, kind) \subseteq Of(journal', kind)
    BY <1>1, <1>3, AppendOf
  <2>3. ASSUME NEW kinds PROVE Revisions(journal, kinds) \subseteq Revisions(journal', kinds)
    BY <1>1, <1>3, AppendRevisions
  <2> QED
    BY <2>1, <2>2, <2>3
<1> QED
  BY <1>1, <1>2, <1>3 DEF Grows

\* And what was known of it stays true.
LEMMA KeptFacts ==
    ASSUME SlotInv, NEW p \in Proc, Grows(p)
    PROVE  /\ \A v : Prefix(v, journal) /\ Len(v) \in Nat => Prefix(v, journal')
           /\ \A s : Claimed(s, journal) => Claimed(s, journal')
           /\ \A s : Owned(s, journal) => Owned(s, journal')
           /\ \A r, c : Settles(journal, r, c) => Settles(journal', r, c)
           /\ \A i \in 1..Len(journal) : FirstOf(journal', i) <=> FirstOf(journal, i)
<1>1. /\ Len(journal) \in Nat /\ Len(journal') \in Nat /\ Len(journal) <= Len(journal')
      /\ \A i \in 1..Len(journal) : i \in 1..Len(journal') /\ journal'[i] = journal[i]
      /\ \A kind : Of(journal, kind) \subseteq Of(journal', kind)
  BY Later
<1>2. ASSUME NEW i \in 1..Len(journal) PROVE FirstOf(journal', i) <=> FirstOf(journal, i)
  <2>1. \A k \in 1..(i - 1) : k \in 1..Len(journal)
    BY <1>1
  <2> QED
    BY <1>1, <2>1 DEF FirstOf
<1>3. ASSUME NEW v, Prefix(v, journal), Len(v) \in Nat PROVE Prefix(v, journal')
  <2>1. Len(v) <= Len(journal') /\ \A i \in 1..Len(v) : i \in 1..Len(journal)
    BY <1>1, <1>3 DEF Prefix
  <2> QED
    BY <1>1, <1>3, <2>1 DEF Prefix
<1>4. \A kind : \A i \in Of(journal, kind) : i \in 1..Len(journal)
  BY DEF Of
<1> QED
  BY <1>1, <1>2, <1>3, <1>4 DEF Claimed, Owned, Settles

\* The attempts that claimed a slot, after a record more.
LEMMA AttemptsGrow ==
    ASSUME NEW j \in Seq(Record), NEW record \in Record, NEW k, k = Append(j, record)
    PROVE  Attempts(k) = Attempts(j) \cup (IF record.kind = "prepared" THEN {record.attempt} ELSE {})
<1>1. /\ \A i \in 1..Len(j) : k[i] = j[i]
      /\ k[Len(j) + 1] = record
      /\ Of(j, "prepared") \subseteq 1..Len(j)
  BY AppendIs DEF Of
<1>2. CASE record.kind = "prepared"
  <2>1. Of(k, "prepared") = Of(j, "prepared") \cup {Len(j) + 1}
    BY <1>2, AppendOf
  <2>2. \A i \in Of(j, "prepared") : k[i].attempt = j[i].attempt
    BY <1>1
  <2> QED
    BY <1>1, <1>2, <2>1, <2>2 DEF Attempts
<1>3. CASE record.kind # "prepared"
  <2>1. Of(k, "prepared") = Of(j, "prepared")
    BY <1>3, AppendOf
  <2>2. \A i \in Of(j, "prepared") : k[i].attempt = j[i].attempt
    BY <1>1
  <2> QED
    BY <1>3, <2>1, <2>2 DEF Attempts
<1> QED
  BY <1>2, <1>3

\* They are no fewer, and one more with each claim.
LEMMA CountGrows ==
    ASSUME SlotInv, NEW p \in Proc, Grows(p)
    PROVE  /\ Cardinality(Attempts(journal')) \in Nat
           /\ Cardinality(Attempts(journal)) <= Cardinality(Attempts(journal'))
           /\ At(p, "prepare") /\ journal' # journal =>
                 Cardinality(Attempts(journal')) = Cardinality(Attempts(journal)) + 1
<1>1. /\ IsFiniteSet(Attempts(journal)) /\ Cardinality(Attempts(journal)) \in Nat
      /\ journal \in Seq(Record)
  BY AttemptsCount DEF SlotInv, Shape, TypeOK
<1>2. CASE journal' = journal
  BY <1>1, <1>2
<1>3. ASSUME NEW record \in Record, Origin(p, record), journal' = Append(journal, record)
      PROVE  /\ Cardinality(Attempts(journal')) \in Nat
             /\ Cardinality(Attempts(journal)) <= Cardinality(Attempts(journal'))
             /\ At(p, "prepare") =>
                  Cardinality(Attempts(journal')) = Cardinality(Attempts(journal)) + 1
  <2>0. At(p, "prepare") => record.kind = "prepared" /\ record.attempt \notin Attempts(journal)
    BY <1>3 DEF Origin, RecordOf, At, SlotInv, KnowsSlots, Before
  <2>1. CASE record.kind = "prepared"
    <3>1. Attempts(journal') = Attempts(journal) \cup {record.attempt}
      BY <1>1, <1>3, <2>1, AttemptsGrow
    <3> DEFINE A == Attempts(journal)
               B == Attempts(journal')
               a == record.attempt
    <3>2. /\ B = A \cup {a} /\ IsFiniteSet(A) /\ Cardinality(A) \in Nat
          /\ At(p, "prepare") => a \notin A
      BY <1>1, <2>0, <3>1
    <3> HIDE DEF A, B, a
    <3>3. Cardinality(A \cup {a}) = IF a \in A THEN Cardinality(A) ELSE Cardinality(A) + 1
      BY <3>2, FS_AddElement
    <3>4. /\ Cardinality(B) \in Nat /\ Cardinality(A) <= Cardinality(B)
          /\ At(p, "prepare") => Cardinality(B) = Cardinality(A) + 1
      BY <3>2, <3>3
    <3> QED
      BY <3>4 DEF A, B
  <2>2. CASE record.kind # "prepared"
    <3>1. Attempts(journal') = Attempts(journal)
      BY <1>1, <1>3, <2>2, AttemptsGrow
    <3> QED
      BY <1>1, <2>0, <2>2, <3>1
  <2> QED
    BY <2>1, <2>2
<1> QED
  BY <1>1, <1>2, <1>3 DEF Grows

---------------------------------------------------------------------------
(* The slots are kept.                                                     *)

\* What the slots of a journal are after a record of a claimed slot, or a new claim.
LEMMA SlotsAppend ==
    ASSUME SlotInv, NEW p \in Proc, Frame(p), NEW record \in Record,
           journal' = Append(journal, record), record.attempt <= calls,
           \/ /\ record.kind # "prepared"
              /\ record.revision \in Revisions(journal, {"prepared"})
              /\ Cardinality(Attempts(journal')) = Cardinality(Attempts(journal))
           \/ /\ record.kind = "prepared"
              /\ record.attempt \notin Attempts(journal)
              /\ record.revision <= Cardinality(Attempts(journal')) 
              /\ Cardinality(Attempts(journal)) <= Cardinality(Attempts(journal')) 
              /\ \A r \in 1..(record.revision - 1) : r \in Revisions(journal, {"prepared"}),
           Cardinality(Attempts(journal')) \in Nat
    PROVE  Slots(journal)'
<1> DEFINE k == journal'
           n == Len(journal) + 1
<1>1. /\ journal \in Seq(Record) /\ Slots(journal)
      /\ calls \in Nat /\ calls' \in Nat /\ calls <= calls'
      /\ Cardinality(Attempts(journal)) \in Nat
  BY AttemptsCount, Constants DEF SlotInv, Shape, TypeOK, Frame
<1>2. /\ \A i \in 1..Len(journal) : k[i] = journal[i] /\ i < n
      /\ k[n] = record /\ Len(k) = n /\ Len(journal) \in Nat
      /\ \A i \in 1..Len(k) : i \in 1..Len(journal) \/ i = n
  BY <1>1, AppendIs
<1>3. /\ Of(k, "prepared") = IF record.kind = "prepared" THEN Of(journal, "prepared") \cup {n}
                                                       ELSE Of(journal, "prepared")
      /\ Revisions(k, {"prepared"}) = IF record.kind = "prepared"
                THEN Revisions(journal, {"prepared"}) \cup {record.revision}
                ELSE Revisions(journal, {"prepared"})
      /\ Of(journal, "prepared") \subseteq 1..Len(journal)
  <2>1. Of(k, "prepared") = IF record.kind = "prepared" THEN Of(journal, "prepared") \cup {n}
                                                      ELSE Of(journal, "prepared")
    BY <1>1, AppendOf
  <2>2. record.kind \in {"prepared"} <=> record.kind = "prepared"
    OBVIOUS
  <2>3. Revisions(k, {"prepared"}) = IF record.kind \in {"prepared"}
                THEN Revisions(journal, {"prepared"}) \cup {record.revision}
                ELSE Revisions(journal, {"prepared"})
    BY <1>1, AppendRevisions
  <2>4. Of(journal, "prepared") \subseteq 1..Len(journal)
    BY DEF Of
  <2> QED
    BY <2>1, <2>2, <2>3, <2>4
<1>4. /\ \A i \in Of(journal, "prepared") : journal[i].attempt \in Attempts(journal)
      /\ \A r \in Revisions(journal, {"prepared"}) :
            \E i \in Of(journal, "prepared") : journal[i].revision = r
      /\ record.revision \in Nat \ {0} /\ record.attempt \in Nat
      /\ \A i \in 1..Len(journal) : journal[i].revision \in Nat /\ journal[i].attempt \in Nat
  <2>1. record.revision \in Revision /\ record.attempt \in 1..MaxCalls
    BY DEF Record
  <2>2. \A i \in 1..Len(journal) : journal[i].revision \in Revision /\ journal[i].attempt \in 1..MaxCalls
    BY <1>1, JournalRange DEF Record
  <2>3. \A i \in Of(journal, "prepared") : journal[i].attempt \in Attempts(journal)
    BY DEF Attempts
  <2>4. \A r \in Revisions(journal, {"prepared"}) :
            \E i \in Of(journal, "prepared") : journal[i].revision = r
    BY DEF Of, Revisions
  <2>5. record.revision \in Nat \ {0} /\ record.attempt \in Nat
    <3>1. record.revision \in Nat \ {0}
      BY <2>1, Constants
    <3>2. record.attempt \in Nat
      BY <2>1, Constants
    <3> QED
      BY <3>1, <3>2
  <2>6. \A i \in 1..Len(journal) : journal[i].revision \in Nat
    BY <2>2, Constants
  <2>7. \A i \in 1..Len(journal) : journal[i].attempt \in Nat
    <3> SUFFICES ASSUME NEW i \in 1..Len(journal) PROVE journal[i].attempt \in Nat
      OBVIOUS
    <3>1. journal[i].attempt \in 1..MaxCalls
      BY <2>2
    <3> QED
      BY <3>1, Constants
  <2> QED
    BY <2>3, <2>4, <2>5, <2>6, <2>7
<1> HIDE DEF k, n
<1>5. ASSUME NEW i \in 1..Len(k)
      PROVE  \E m \in Of(k, "prepared") : m <= i /\ k[m].revision = k[i].revision
  <2>1. CASE i \in 1..Len(journal)
    <3>1. PICK m \in Of(journal, "prepared") : m <= i /\ journal[m].revision = journal[i].revision
      BY <1>1, <2>1 DEF Slots
    <3> QED
      BY <2>1, <3>1, <1>2, <1>3
  <2>2. CASE i = n /\ record.kind = "prepared"
    BY <2>2, <1>2, <1>3
  <2>3. CASE i = n /\ record.kind # "prepared"
    <3>1. PICK m \in Of(journal, "prepared") : journal[m].revision = record.revision
      BY <1>4, <2>3
    <3> QED
      BY <2>3, <3>1, <1>2, <1>3
  <2> QED
    BY <1>2, <2>1, <2>2, <2>3
<1>6. ASSUME NEW i \in Of(k, "prepared"), NEW m \in Of(k, "prepared"), k[i].attempt = k[m].attempt
      PROVE  i = m
  <2>1. CASE i \in Of(journal, "prepared") /\ m \in Of(journal, "prepared")
    BY <1>1, <1>2, <1>3, <1>6, <2>1 DEF Slots
  <2>2. CASE i = n \/ m = n
    BY <1>2, <1>3, <1>4, <1>6, <2>2
  <2> QED
    BY <1>3, <2>1, <2>2
<1>7. ASSUME NEW i \in 1..Len(k) PROVE k[i].attempt <= calls'
  <2>1. CASE i \in 1..Len(journal)
    <3>1. journal[i].attempt <= calls
      BY <1>1, <2>1 DEF Slots
    <3> QED
      BY <1>1, <1>2, <1>4, <2>1, <3>1
  <2>2. CASE i = n
    BY <1>1, <1>2, <1>4, <2>2
  <2> QED
    BY <1>2, <2>1, <2>2
<1>8. ASSUME NEW i \in 1..Len(k), NEW r \in 1..k[i].revision
      PROVE  r \in Revisions(k, {"prepared"})
  <2>1. CASE i \in 1..Len(journal)
    <3>1. r \in Revisions(journal, {"prepared"})
      BY <1>1, <1>2, <2>1 DEF Slots
    <3> QED
      BY <1>3, <3>1
  <2>2. CASE i = n /\ record.kind = "prepared"
    <3>1. r \in 1..(record.revision - 1) \/ r = record.revision
      BY <1>2, <1>4, <2>2
    <3> QED
      BY <1>3, <2>2, <3>1
  <2>3. CASE i = n /\ record.kind # "prepared"
    <3>1. PICK m \in Of(journal, "prepared") : journal[m].revision = record.revision
      BY <1>4, <2>3
    <3>2. r \in 1..journal[m].revision /\ m \in 1..Len(journal)
      BY <1>2, <1>3, <2>3, <3>1
    <3>3. r \in Revisions(journal, {"prepared"})
      BY <1>1, <3>2 DEF Slots
    <3> QED
      BY <1>3, <3>3
  <2> QED
    BY <1>2, <2>1, <2>2, <2>3
<1>9. ASSUME NEW i \in 1..Len(k) PROVE k[i].revision <= Cardinality(Attempts(k))
  <2>1. Cardinality(Attempts(journal)) <= Cardinality(Attempts(k)) /\ Cardinality(Attempts(k)) \in Nat
    BY <1>1 DEF k
  <2>2. ASSUME NEW m \in 1..Len(journal)
        PROVE  journal[m].revision <= Cardinality(Attempts(k))
    <3>1. journal[m].revision <= Cardinality(Attempts(journal))
      BY <1>1 DEF Slots
    <3> QED
      BY <1>1, <1>4, <2>1, <3>1
  <2>3. CASE i \in 1..Len(journal)
    BY <1>2, <2>2, <2>3
  <2>4. CASE i = n /\ record.kind = "prepared"
    BY <1>2, <2>4 DEF k
  <2>5. CASE i = n /\ record.kind # "prepared"
    <3>1. PICK m \in Of(journal, "prepared") : journal[m].revision = record.revision
      BY <1>4, <2>5
    <3> QED
      BY <1>2, <1>3, <2>2, <2>5, <3>1
  <2> QED
    BY <1>2, <2>3, <2>4, <2>5
<1>10. (Slots(journal))' <=>
        /\ \A i \in 1..Len(k) : \E m \in Of(k, "prepared") : m <= i /\ k[m].revision = k[i].revision
        /\ \A i, m \in Of(k, "prepared") : k[i].attempt = k[m].attempt => i = m
        /\ \A i \in 1..Len(k) : k[i].attempt <= calls'
        /\ \A i \in 1..Len(k) : \A r \in 1..k[i].revision : r \in Revisions(k, {"prepared"})
        /\ \A i \in 1..Len(k) : k[i].revision <= Cardinality(Attempts(k))
  BY DEF Slots, k
<1> QED
  BY <1>5, <1>6, <1>7, <1>8, <1>9, <1>10

\* The slots stay in order.
LEMMA SlotsKept ==
    ASSUME SlotInv, NEW p \in Proc, Frame(p), Grows(p) PROVE Slots(journal)'
<1>1. /\ journal \in Seq(Record) /\ Slots(journal) /\ KnowsSlots(st[p], journal)
      /\ calls \in Nat /\ calls' \in Nat /\ calls <= calls' /\ st[p] \in Locals
      /\ Cardinality(Attempts(journal)) \in Nat
  BY AttemptsCount, Constants DEF SlotInv, Shape, TypeOK, Frame
<1>2. CASE journal' = journal
  <2>1. \A i \in 1..Len(journal) : journal[i].attempt <= calls /\ journal[i].attempt \in 1..MaxCalls
    BY <1>1, JournalRange DEF Slots, Record
  <2>2. \A i \in 1..Len(journal) : journal[i].attempt <= calls'
    <3> SUFFICES ASSUME NEW i \in 1..Len(journal) PROVE journal[i].attempt <= calls'
      OBVIOUS
    <3> DEFINE a == journal[i].attempt
    <3>1. a <= calls /\ a \in Nat
      BY <2>1, Constants
    <3> HIDE DEF a
    <3>2. a <= calls'
      BY <1>1, <3>1
    <3> QED
      BY <3>2 DEF a
  <2> QED
    BY <1>1, <1>2, <2>2 DEF Slots
<1>3. ASSUME NEW record \in Record, ~torn, Origin(p, record), journal' = Append(journal, record)
      PROVE  Slots(journal)'
  <2>0. Cardinality(Attempts(journal')) \in Nat
    BY CountGrows
  <2>1. CASE At(p, "prepare") /\ record = RecordOf(st[p], "prepared")
    <3>1. /\ record.kind = "prepared" /\ record.attempt = st[p].attempt
          /\ record.revision = st[p].revision
      BY <2>1 DEF RecordOf
    <3>2. /\ st[p].attempt <= calls /\ st[p].attempt \notin Attempts(journal)
          /\ st[p].revision <= Cardinality(Attempts(journal)) + 1
          /\ \A r \in 1..(st[p].revision - 1) : r \in Revisions(journal, {"prepared"})
      BY <1>1, <2>1 DEF KnowsSlots, At, Before
    <3>3. journal' # journal
      BY <1>1, <1>3, AppendIs
    <3>4. Cardinality(Attempts(journal')) = Cardinality(Attempts(journal)) + 1
      BY <2>1, <3>3, CountGrows
    <3> QED
      BY <1>1, <1>3, <2>0, <3>1, <3>2, <3>4, SlotsAppend
  <2>2. CASE At(p, "commit") /\ record = RecordOf(st[p], "committed")
    <3>1. /\ record.kind = "committed" /\ record.attempt = st[p].attempt
          /\ record.revision = st[p].revision
      BY <2>2 DEF RecordOf
    <3>2. Owned(st[p], journal) /\ st[p].attempt <= calls
      BY <1>1, <2>2 DEF KnowsSlots, At, Owning
    <3>3. record.revision \in Revisions(journal, {"prepared"})
      BY <3>1, <3>2 DEF Owned, RecordOf, Of, Revisions
    <3>4. Attempts(journal') = Attempts(journal)
      BY <1>1, <1>3, <3>1, AttemptsGrow
    <3> QED
      BY <1>3, <2>0, <3>1, <3>2, <3>3, <3>4, SlotsAppend
  <2>3. CASE record.kind = "aborted" /\ \E i \in Of(journal, "prepared") :
            journal[i].revision = record.revision /\ journal[i].attempt = record.attempt
    <3>1. PICK i \in Of(journal, "prepared") :
            journal[i].revision = record.revision /\ journal[i].attempt = record.attempt
      BY <2>3
    <3>2. record.revision \in Revisions(journal, {"prepared"}) /\ record.attempt <= calls
      BY <1>1, <3>1 DEF Of, Revisions, Slots
    <3>3. Attempts(journal') = Attempts(journal)
      BY <1>1, <1>3, <2>3, AttemptsGrow
    <3> QED
      BY <1>3, <2>0, <2>3, <3>2, <3>3, SlotsAppend
  <2> QED
    BY <1>3, <2>1, <2>2, <2>3 DEF Origin
<1> QED
  BY <1>2, <1>3 DEF Grows

\* What another process knows of the slots stays true.
LEMMA OthersKnowSlots ==
    ASSUME SlotInv, NEW p \in Proc, Frame(p), Grows(p), NEW q \in Proc \ {p}
    PROVE  KnowsSlots(st[q], journal)'
<1>1. /\ st[q] \in Locals /\ KnowsSlots(st[q], journal) /\ st'[q] = st[q]
      /\ calls \in Nat /\ calls' \in Nat /\ calls <= calls' /\ (torn => torn')
      /\ journal \in Seq(Record)
      /\ Cardinality(Attempts(journal)) \in Nat
  BY AttemptsCount, Constants DEF SlotInv, Shape, TypeOK, Frame
<1> DEFINE s == st[q]
<1>2. /\ s.attempt \in Nat /\ s.revision \in Nat /\ Len(s.view) \in Nat
  BY <1>1, Constants DEF Locals
<1>3. s.pc \in Before /\ s.attempt # 0 => s.attempt \notin Attempts(journal')
  <2> SUFFICES ASSUME s.pc \in Before, s.attempt # 0 PROVE s.attempt \notin Attempts(journal')
    OBVIOUS
  <2>1. s.attempt \notin Attempts(journal)
    BY <1>1 DEF KnowsSlots
  <2>2. ASSUME NEW record \in Record, Origin(p, record), journal' = Append(journal, record)
        PROVE  s.attempt \notin Attempts(journal')
    <3>1. record.kind = "prepared" => record.attempt = st[p].attempt
      BY <2>2 DEF Origin, RecordOf
    <3>2. st[p].attempt # s.attempt
      BY DEF SlotInv, OwnAttempts
    <3>3. Attempts(journal') =
            Attempts(journal) \cup (IF record.kind = "prepared" THEN {record.attempt} ELSE {})
      BY <1>1, <2>2, AttemptsGrow
    <3> DEFINE a == s.attempt
               A == Attempts(journal)
               B == Attempts(journal')
    <3>4. a \notin A /\ (record.kind = "prepared" => record.attempt # a)
      BY <2>1, <3>1, <3>2
    <3>5. B = A \cup (IF record.kind = "prepared" THEN {record.attempt} ELSE {})
      BY <3>3
    <3> HIDE DEF a, A, B
    <3>6. a \notin B
      BY <3>4, <3>5
    <3> QED
      BY <3>6 DEF a, B
  <2> QED
    BY <2>1, <2>2 DEF Grows
<1>4. /\ Prefix(s.view, journal')
      /\ s.pc = "guard1" => torn' \/ Claimed(s, journal')
      /\ s.pc \in Owning => Owned(s, journal')
  BY <1>1, <1>2, KeptFacts DEF KnowsSlots
<1>5. s.pc = "prepare" =>
        /\ s.revision <= Cardinality(Attempts(journal')) + 1
        /\ \A r \in 1..(s.revision - 1) : r \in Revisions(journal', {"prepared"})
  BY <1>1, <1>2, CountGrows, Later DEF KnowsSlots
<1>6. s.attempt <= calls'
  BY <1>1, <1>2 DEF KnowsSlots
<1>7. /\ s.attempt # 0 => s.content \in Content
      /\ s.pc \in {"idle", "admitted", "inFlight", "sweep"} => s.attempt = 0
      /\ s.attempt = 0 => s.pc \in {"idle", "admitted", "inFlight", "sweep", "recover", "reread"}
      /\ s.pc \in Claiming \cup {"prepare"} => s.revision # 0
      /\ s.pc \in {"recover", "inFlight"} =>
            s.todo # {} /\ s.todo \subseteq Revisions(s.view, {"prepared"})
  BY <1>1 DEF KnowsSlots
<1>8. st'[q] = s
  BY <1>1
<1> HIDE DEF s
<1> QED
  BY <1>3, <1>4, <1>5, <1>6, <1>7, <1>8 DEF KnowsSlots

\* A process that goes on in its place goes on with its record.
LEMMA SameRecord ==
    ASSUME NEW p \in Proc, Keeps(p)
    PROVE  /\ \A kind : RecordOf(st'[p], kind) = RecordOf(st[p], kind)
           /\ \A j : Claimed(st'[p], j) <=> Claimed(st[p], j)
           /\ \A j : Owned(st'[p], j) <=> Owned(st[p], j)
<1>1. ASSUME NEW kind PROVE RecordOf(st'[p], kind) = RecordOf(st[p], kind)
  BY DEF Keeps, Carries, RecordOf
<1> QED
  BY <1>1 DEF Claimed, Owned

\* The guard lets the first claim of a slot pass, and no other.
LEMMA GuardPasses ==
    ASSUME SlotInv, NEW p \in Proc, st[p].pc \in {"guard1", "guard2"}, settleGuard(p) = "none"
    PROVE  ~torn /\ Sound /\ Owned(st[p], journal)
<1>1. /\ Sound /\ ~torn
      /\ st[p].revision \in Revisions(journal, {"prepared"})
      /\ FirstClaim(st[p].revision).attempt = st[p].attempt
  BY DEF settleGuard, Sound
<1>2. journal \in Seq(Record) /\ KnowsSlots(st[p], journal) /\ Slots(journal)
  BY DEF SlotInv, Shape, TypeOK
<1>3. CASE st[p].pc = "guard2"
  BY <1>1, <1>2, <1>3 DEF KnowsSlots, Owning
<1>4. CASE st[p].pc = "guard1"
  <2>1. PICK i \in Of(journal, "prepared") :
            journal[i].attempt = st[p].attempt /\ FirstOf(journal, i)
    BY <1>1, <1>2, FirstClaimIs
  <2>2. PICK k \in Of(journal, "prepared") : journal[k] = RecordOf(st[p], "prepared")
    BY <1>1, <1>2, <1>4 DEF KnowsSlots, Claimed
  <2>3. journal[k].attempt = st[p].attempt
    BY <2>2 DEF RecordOf
  <2>4. i = k
    BY <1>2, <2>1, <2>3 DEF Slots
  <2> QED
    BY <1>1, <2>1, <2>2, <2>4 DEF Owned
<1> QED
  BY <1>3, <1>4

\* What p knows of the slots after its own step.
LEMMA OwnKnowsSlots ==
    ASSUME SlotInv, NEW p \in Proc, Frame(p), Turn(p)
    PROVE  KnowsSlots(st[p], journal)'
<1> DEFINE s == st[p]
           n == st'[p]
<1>0. Grows(p)
  BY TurnGrows
<1>1. /\ s \in Locals /\ n \in Locals /\ KnowsSlots(s, journal)
      /\ calls \in Nat /\ calls' \in Nat /\ calls <= calls'
      /\ journal \in Seq(Record) /\ journal' \in Seq(Record)
      /\ Cardinality(Attempts(journal)) \in Nat
      /\ Attempts(journal) \subseteq 1..calls
  BY <1>0, AttemptsCount, Later, Constants DEF SlotInv, Shape, TypeOK, Frame
<1>2. /\ s.attempt \in Nat /\ Len(s.view) \in Nat /\ n.revision \in Nat /\ n.attempt \in Nat
      /\ s.attempt <= calls
      /\ s.attempt <= calls'
  <2>1. /\ s.attempt \in 0..MaxCalls /\ s.view \in Seq(Record)
        /\ n.revision \in 0..MaxCalls /\ n.attempt \in 0..MaxCalls
    BY <1>1 DEF Locals
  <2>2. s.attempt <= calls
    BY <1>1 DEF KnowsSlots
  <2> HIDE DEF s, n
  <2> QED
    BY <1>1, <2>1, <2>2, Constants
<1>3. /\ Prefix(<<>>, journal')
      /\ Prefix(s.view, journal')
      /\ journal' = journal => Prefix(journal, journal')
  <2>1. Len(journal') \in Nat
    BY <1>1
  <2>2. Prefix(<<>>, journal')
    BY <2>1 DEF Prefix
  <2>3. Prefix(s.view, journal')
    BY <1>0, <1>1, <1>2, KeptFacts DEF KnowsSlots
  <2> QED
    BY <1>1, <2>2, <2>3 DEF Prefix
<1>4. (KnowsSlots(st[p], journal))' <=>
        /\ n.attempt <= calls'
        /\ n.attempt # 0 => n.content \in Content
        /\ n.pc \in {"idle", "admitted", "inFlight", "sweep"} => n.attempt = 0
        /\ n.attempt = 0 => n.pc \in {"idle", "admitted", "inFlight", "sweep", "recover", "reread"}
        /\ Prefix(n.view, journal')
        /\ n.pc \in Before /\ n.attempt # 0 => n.attempt \notin Attempts(journal')
        /\ n.pc = "prepare" =>
            /\ n.revision <= Cardinality(Attempts(journal')) + 1
            /\ \A r \in 1..(n.revision - 1) : r \in Revisions(journal', {"prepared"})
        /\ n.pc \in Claiming \cup {"prepare"} => n.revision # 0
        /\ n.pc = "guard1" => torn' \/ Claimed(n, journal')
        /\ n.pc \in Owning => Owned(n, journal')
        /\ n.pc \in {"recover", "inFlight"} =>
            n.todo # {} /\ n.todo \subseteq Revisions(n.view, {"prepared"})
  BY DEF KnowsSlots
<1>5. /\ s.attempt # 0 => s.content \in Content
      /\ s.pc \in {"idle", "admitted", "inFlight", "sweep"} => s.attempt = 0
      /\ s.attempt = 0 => s.pc \in {"idle", "admitted", "inFlight", "sweep", "recover", "reread"}
      /\ s.pc \in Before /\ s.attempt # 0 => s.attempt \notin Attempts(journal)
      /\ s.pc \in Claiming \cup {"prepare"} => s.revision # 0
      /\ s.pc \in Owning => Owned(s, journal)
      /\ s.pc \in {"recover", "inFlight"} =>
          s.todo # {} /\ s.todo \subseteq Revisions(s.view, {"prepared"})
  BY <1>1 DEF KnowsSlots
<1>6. CASE Begins(p)
  <2>1. n.attempt = calls' /\ n.attempt # 0 /\ n.attempt \notin Attempts(journal')
    BY <1>1, <1>6 DEF Begins, Stays
  <2> QED
    BY <1>1, <1>3, <1>4, <1>6, <2>1 DEF Begins, Claiming, Owning
<1>7. CASE Walks(p)
  <2>1. s.pc \in Before /\ n.pc \in Before \ {"prepare", "recover", "reread"}
    BY <1>7 DEF Walks, Walking, Before
  <2>2. n.pc \notin Claiming \cup {"prepare", "recover", "inFlight", "idle", "admitted", "sweep"}
    BY <1>7 DEF Walks, Walking, Claiming, Owning
  <2>3. s.attempt # 0
    BY <1>5, <1>7 DEF Walks, Walking
  <2> QED
    BY <1>2, <1>3, <1>4, <1>5, <1>7, <2>1, <2>2, <2>3 DEF Walks, Keeps, Carries, Stays, Claiming, Owning
<1>8. CASE Quits(p)
  <2>1. n.pc \in {"idle", "admitted", "unlock"}
    BY <1>8 DEF Quits
  <2>2. n.pc \notin Before \cup Claiming \cup {"recover", "inFlight", "guard1", "prepare"}
    BY <2>1 DEF Before, Claiming, Owning
  <2> QED
    BY <1>1, <1>2, <1>3, <1>4, <1>5, <1>8, <2>1, <2>2 DEF Quits, Carries, Claiming
<1>9. CASE Looks(p)
  <2>1. n.pc \in {"inFlight", "sweep", "recover", "judge"} /\ n.view = journal /\ journal' = journal
    BY <1>9 DEF Looks, Stays
  <2>2. n.pc \notin Claiming \cup {"guard1", "prepare"}
    BY <2>1 DEF Claiming, Owning
  <2>3. n.todo \subseteq Revisions(n.view, {"prepared"})
    BY <1>9, <2>1 DEF Looks, danglingPreparedRevisions
  <2>4. CASE At(p, "idle")
    BY <1>1, <1>2, <1>3, <1>4, <1>9, <2>1, <2>2, <2>3, <2>4 DEF Looks, Claiming, At
  <2>5. CASE At(p, "read")
    <3>1. s.attempt # 0 /\ s.attempt \notin Attempts(journal)
      BY <1>5, <2>5 DEF At, Before
    <3> QED
      BY <1>1, <1>2, <1>3, <1>4, <1>5, <1>9, <2>1, <2>2, <2>3, <2>5, <3>1
         DEF Looks, Claiming, At, Carries
  <2> QED
    BY <1>9, <2>4, <2>5 DEF Looks
<1>10. CASE Aborts(p)
  <2>1. /\ s.pc = "recover" /\ n.pc \in {"recover", "reread"} /\ n.view = s.view /\ Carries(p)
        /\ n.pc = "recover" => n.todo # {} /\ n.todo \subseteq s.todo
    BY <1>10 DEF Aborts, At
  <2>2. n.pc \notin Claiming \cup {"guard1", "prepare"}
    BY <2>1 DEF Claiming, Owning
  <2>3. Attempts(journal') = Attempts(journal)
    <3>1. CASE journal' = journal
      BY <3>1
    <3>2. ASSUME NEW record \in Record, record.kind = "aborted", journal' = Append(journal, record)
          PROVE  Attempts(journal') = Attempts(journal)
      BY <1>1, <3>2, AttemptsGrow
    <3> QED
      BY <1>10, <3>1, <3>2 DEF Aborts
  <2>4. s.attempt # 0 => s.attempt \notin Attempts(journal')
    BY <1>5, <2>1, <2>3 DEF Before
  <2> QED
    BY <1>2, <1>3, <1>4, <1>5, <2>1, <2>2, <2>4 DEF Carries, Claiming
<1>11. CASE Rereads(p)
  <2>1. /\ s.pc = "reread" /\ n.pc = (IF s.attempt = 0 THEN "sweep" ELSE "judge")
        /\ n.view = journal /\ journal' = journal /\ Carries(p)
    BY <1>11 DEF Rereads, At, Stays
  <2>2. n.pc \notin Claiming \cup {"guard1", "prepare"}
    BY <2>1 DEF Claiming, Owning
  <2>3. s.attempt # 0 => s.attempt \notin Attempts(journal')
    BY <1>5, <2>1 DEF Before
  <2> QED
    BY <1>2, <1>3, <1>4, <1>5, <2>1, <2>2, <2>3 DEF Carries, Claiming
<1>12. CASE Waits(p)
  <2>1. /\ s.pc = "inFlight" /\ n.pc \in {"sweep", "recover"} /\ journal' = journal /\ Keeps(p)
    BY <1>12 DEF Waits, At, Stays
  <2>2. n.pc \notin Claiming \cup {"guard1", "prepare"}
    BY <2>1 DEF Claiming, Owning
  <2> QED
    BY <1>2, <1>3, <1>4, <1>5, <2>1, <2>2 DEF Keeps, Carries, Claiming
<1>13. CASE Judges(p)
  <2>1. /\ s.pc = "judge" /\ n.view = <<>> /\ journal' = journal /\ Carries(p)
        /\ n.pc \in {"prepare", "unlock"}
        /\ n.pc = "prepare" => n.revision = highestClaimedRevision(s.view) + 1
    BY <1>13 DEF Judges, At, Stays
  <2>2. n.pc \notin Claiming \cup {"guard1"}
    BY <2>1 DEF Claiming, Owning
  <2>3. s.attempt # 0 /\ s.attempt \notin Attempts(journal')
    BY <1>5, <2>1 DEF Before
  <2>4. n.pc = "prepare" =>
            /\ n.revision <= Cardinality(Attempts(journal')) + 1
            /\ \A r \in 1..(n.revision - 1) : r \in Revisions(journal', {"prepared"})
            /\ n.revision # 0
    BY <2>1, NextSlot, Constants DEF At
  <2> QED
    BY <1>2, <1>3, <1>4, <1>5, <2>1, <2>2, <2>3, <2>4 DEF Carries, Claiming
<1>14. CASE Claims(p)
  <2>1. s.pc = "prepare" /\ n.pc = "guard1" /\ Keeps(p) /\ torn' = torn
    BY <1>14 DEF Claims, Records, At
  <2>2. s.attempt # 0 /\ s.revision # 0
    BY <1>5, <2>1
  <2>3. torn' \/ Claimed(n, journal')
    <3>1. CASE ~torn /\ journal' = Append(journal, RecordOf(s, "prepared"))
      <4>1. RecordOf(s, "prepared") \in Record /\ RecordOf(s, "prepared").kind = "prepared"
        BY <2>2, RecordType DEF RecordOf
      <4> DEFINE record == RecordOf(s, "prepared")
      <4>2. journal' = Append(journal, record) /\ record \in Record /\ record.kind = "prepared"
        BY <3>1, <4>1
      <4> HIDE DEF record
      <4>3. Len(journal) + 1 \in Of(journal', "prepared") /\ journal'[Len(journal) + 1] = record
        BY <1>1, <4>2, AppendIs, AppendOf
      <4>4. Claimed(s, journal')
        BY <4>3 DEF Claimed, record
      <4> QED
        BY <2>1, <4>4, SameRecord
    <3> QED
      BY <1>14, <2>1, <3>1 DEF Claims, Records
  <2> QED
    BY <1>2, <1>3, <1>4, <1>5, <2>1, <2>2, <2>3 DEF Keeps, Carries, Claiming, Owning, Before
<1>15. CASE Passes(p)
  <2>1. /\ s.pc \in {"guard1", "guard2"} /\ n.pc \in {"writeBody", "commit"}
        /\ Keeps(p) /\ journal' = journal
    BY <1>15 DEF Passes, Stays, At
  <2>2. Owned(n, journal')
    BY <1>15, <2>1, GuardPasses, SameRecord DEF Passes
  <2>3. s.attempt # 0 /\ s.revision # 0
    BY <1>5, <2>1 DEF Claiming, Owning
  <2> QED
    BY <1>2, <1>3, <1>4, <1>5, <2>1, <2>2, <2>3 DEF Keeps, Carries, Before
<1>16. CASE Fills(p)
  <2>1. /\ s.pc \in {"writeBody", "writeEnvelope"} /\ n.pc \in {"writeEnvelope", "guard2"}
        /\ Keeps(p) /\ journal' = journal
    BY <1>16 DEF Fills, At
  <2>2. Owned(n, journal')
    BY <1>5, <2>1, SameRecord DEF Owning
  <2>3. s.attempt # 0 /\ s.revision # 0
    BY <1>5, <2>1 DEF Claiming, Owning
  <2> QED
    BY <1>2, <1>3, <1>4, <1>5, <2>1, <2>2, <2>3 DEF Keeps, Carries, Before
<1>17. CASE Settlement(p)
  <2>1. s.pc = "commit" /\ n.pc = "receipt" /\ Keeps(p)
    BY <1>17 DEF Settlement, Records, At
  <2>2. s.attempt # 0
    BY <1>5, <2>1
  <2> QED
    BY <1>2, <1>3, <1>4, <1>5, <2>1, <2>2 DEF Keeps, Carries, Before, Claiming, Owning
<1>18. CASE Receives(p)
  <2>1. s.pc = "receipt" /\ n.pc = "unlock" /\ Carries(p) /\ n.view = s.view
    BY <1>18 DEF Receives, At
  <2>2. s.attempt # 0
    BY <1>5, <2>1
  <2> QED
    BY <1>2, <1>3, <1>4, <1>5, <2>1, <2>2 DEF Carries, Before, Claiming, Owning
<1>19. CASE Returns(p)
  <2>1. n.pc \in {"idle", "admitted"} /\ n.attempt = 0 /\ n.view = <<>>
    BY <1>19 DEF Returns
  <2> QED
    BY <1>1, <1>3, <1>4, <2>1 DEF Before, Claiming, Owning
<1> QED
  BY <1>6, <1>7, <1>8, <1>9, <1>10, <1>11, <1>12, <1>13, <1>14, <1>15, <1>16, <1>17, <1>18, <1>19
     DEF Turn

\* No two processes make one attempt.
LEMMA OwnAttemptsKept ==
    ASSUME SlotInv, NEW p \in Proc, Frame(p), Turn(p)
    PROVE  OwnAttempts'
<1>1. /\ \A q \in Proc : st[q].attempt <= calls /\ st[q].attempt \in Nat
      /\ calls \in Nat
      /\ \A q \in Proc \ {p} : st'[q] = st[q]
  BY Constants DEF SlotInv, Shape, KnowsSlots, Locals, Frame
<1>2. st'[p].attempt \in {0, st[p].attempt, calls + 1}
  BY DEF Turn, Begins, Walks, Quits, Looks, Aborts, Rereads, Waits, Judges, Claims, Passes,
         Fills, Settlement, Receives, Returns, Keeps, Carries, Records
<1>3. ASSUME NEW q \in Proc \ {p}, st[q].attempt # 0 PROVE st'[p].attempt # st[q].attempt
  <2>1. st[q].attempt # st[p].attempt
    BY <1>3 DEF SlotInv, OwnAttempts
  <2> QED
    BY <1>1, <1>2, <1>3, <2>1
<1>4. ASSUME NEW q \in Proc, NEW o \in Proc,
             st'[q].attempt = st'[o].attempt, st'[q].attempt # 0
      PROVE  q = o
  <2>1. CASE q # p /\ o # p
    BY <1>1, <1>4, <2>1 DEF SlotInv, OwnAttempts
  <2>2. CASE q = p /\ o # p
    BY <1>1, <1>3, <1>4, <2>2
  <2>3. CASE q # p /\ o = p
    BY <1>1, <1>3, <1>4, <2>3
  <2> QED
    BY <2>1, <2>2, <2>3
<1> QED
  BY <1>4 DEF OwnAttempts

---------------------------------------------------------------------------
(* The types are kept.                                                     *)

\* The pairs keep their types.
LEMMA FilesKept ==
    ASSUME SlotInv, NEW p \in Proc, Frame(p), Turn(p)
    PROVE  files' \in [Revision -> [body : Body \cup {None}, envelope : Content \cup {None}]]
<1> DEFINE Pair == [body : Body \cup {None}, envelope : Content \cup {None}]
<1>1. files \in [Revision -> Pair]
  BY DEF SlotInv, Shape, TypeOK
<1>2. CASE Fills(p)
  <2>1. st[p].content \in Content /\ st[p].content.body \in Body
    BY <1>2 DEF Fills, At, SlotInv, KnowsSlots, Content
  <2>2. \A f \in Pair : /\ [f EXCEPT !.body = st[p].content.body] \in Pair
                        /\ [f EXCEPT !.envelope = st[p].content] \in Pair
    BY <2>1
  <2>3. files' \in [Revision -> Pair]
    <3> HIDE DEF Pair
    <3> QED
      BY <1>1, <1>2, <2>2 DEF Fills
  <2> QED
    BY <2>3
<1>3. CASE ~Fills(p)
  <2>1. files' = files
    BY <1>3 DEF Turn, Begins, Walks, Quits, Looks, Aborts, Rereads, Waits, Judges, Claims, Passes,
                Settlement, Receives, Returns, Records, Stays
  <2> QED
    BY <1>1, <2>1
<1> QED
  BY <1>2, <1>3

\* And so do the receipts.
LEMMA AckedKept ==
    ASSUME SlotInv, CommitInv, NEW p \in Proc, Frame(p), Turn(p)
    PROVE  acked' \subseteq [revision : Revision, content : Content]
<1>1. acked \subseteq [revision : Revision, content : Content] /\ journal \in Seq(Record)
  BY DEF SlotInv, Shape, TypeOK
<1>2. CASE Returns(p) /\ st[p].result = "ok"
  <2>1. Settles(journal, st[p].revision, st[p].content)
    BY <1>2 DEF CommitInv, KnowsCommits, Returns, At
  <2>2. st[p].revision \in Revision /\ st[p].content \in Content
    BY <1>1, <2>1, JournalRange DEF Settles, Of, Record
  <2> QED
    BY <1>1, <1>2, <2>2 DEF Returns
<1>3. CASE ~(Returns(p) /\ st[p].result = "ok")
  <2>1. acked' = acked
    BY <1>3 DEF Turn, Begins, Walks, Quits, Looks, Aborts, Rereads, Waits, Judges, Claims, Passes,
                Fills, Settlement, Receives, Returns, Records, Stays
  <2> QED
    BY <1>1, <2>1
<1> QED
  BY <1>2, <1>3

\* The first layer of the invariant is kept.
LEMMA SlotStep ==
    ASSUME SlotInv, CommitInv, [Next]_vars PROVE SlotInv'
<1>1. CASE Rests
  <2>1. /\ Shape /\ Slots(journal) /\ OwnAttempts
        /\ \A p \in Proc : KnowsSlots(st[p], journal)
    BY DEF SlotInv
  <2>2. Shape'
    BY <1>1, <2>1 DEF Rests, Shape, TypeOK, historyVars
  <2>3. Slots(journal)' /\ OwnAttempts'
    BY <1>1, <2>1 DEF Rests, Slots, OwnAttempts
  <2>4. ASSUME NEW p \in Proc PROVE KnowsSlots(st[p], journal)'
    BY <1>1, <2>1 DEF Rests, KnowsSlots
  <2> QED
    BY <2>2, <2>3, <2>4 DEF SlotInv
<1>2. ASSUME NEW p \in Proc, Frame(p), Turn(p) PROVE SlotInv'
  <2>1. Grows(p)
    BY <1>2, TurnGrows
  <2>2. Slots(journal)' /\ OwnAttempts'
    BY <1>2, <2>1, SlotsKept, OwnAttemptsKept
  <2>3. ASSUME NEW q \in Proc PROVE KnowsSlots(st[q], journal)'
    BY <1>2, <2>1, OthersKnowSlots, OwnKnowsSlots
  <2>4. TypeOK'
    <3>1. journal' \in Seq(Record)
      BY <2>1, Later
    <3>2. active \in BOOLEAN
      BY DEF SlotInv, Shape, TypeOK
    <3> QED
      BY <1>2, <3>1, <3>2, FilesKept, AckedKept DEF Frame, TypeOK
  <2>5. Shape'
    <3>1. instance \in Instances
      BY DEF SlotInv, Shape
    <3> QED
      BY <1>2, <2>4, <3>1 DEF Frame, Shape
  <2> QED
    BY <2>2, <2>3, <2>5 DEF SlotInv
<1> QED
  BY <1>1, <1>2, NextForm

---------------------------------------------------------------------------
(* What is committed stays so.                                             *)

\* A slot has one first claim.
LEMMA FirstIsOne ==
    ASSUME NEW j \in Seq(Record), NEW i \in Of(j, "prepared"), NEW k \in Of(j, "prepared"),
           FirstOf(j, i), FirstOf(j, k), j[i].revision = j[k].revision
    PROVE  i = k
<1>1. i \in 1..Len(j) /\ k \in 1..Len(j) /\ j[i].kind = "prepared" /\ j[k].kind = "prepared"
  BY DEF Of
<1>2. ~(i < k) /\ ~(k < i)
  BY <1>1 DEF FirstOf
<1> QED
  BY <1>1, <1>2

\* The slot of an attempt inside is not another's, and nothing is committed there.
LEMMA OwnersDiffer ==
    ASSUME SlotInv, CommitInv, NEW p \in Proc, st[p].pc \in Owning
    PROVE  /\ \A q \in Proc \ {p} : st[q].pc \in Owning => st[q].revision # st[p].revision
           /\ \A k \in Of(journal, "committed") : journal[k].revision # st[p].revision
           /\ st[p].revision \in Revision /\ st[p].attempt # 0 /\ st[p].content \in Content
<1>1. /\ journal \in Seq(Record) /\ st \in [Proc -> Locals]
      /\ \A q \in Proc : KnowsSlots(st[q], journal) /\ KnowsCommits(st[q], journal)
      /\ Slots(journal) /\ Commits(journal)
  BY DEF SlotInv, Shape, TypeOK, CommitInv
<1>2. st[p].attempt # 0 /\ st[p].revision # 0 /\ st[p].content \in Content
  BY <1>1 DEF KnowsSlots, Claiming, Owning
<1>3. PICK i \in Of(journal, "prepared") :
        journal[i] = RecordOf(st[p], "prepared") /\ FirstOf(journal, i)
  BY <1>1 DEF KnowsSlots, Owned
<1>4. journal[i].revision = st[p].revision /\ journal[i].attempt = st[p].attempt
  BY <1>3 DEF RecordOf
<1>5. ASSUME NEW q \in Proc \ {p}, st[q].pc \in Owning, st[q].revision = st[p].revision
      PROVE  FALSE
  <2>1. PICK k \in Of(journal, "prepared") :
            journal[k] = RecordOf(st[q], "prepared") /\ FirstOf(journal, k)
    BY <1>1, <1>5 DEF KnowsSlots, Owned
  <2>2. journal[k].revision = st[q].revision /\ journal[k].attempt = st[q].attempt
    BY <2>1 DEF RecordOf
  <2>3. i = k
    BY <1>1, <1>3, <1>4, <1>5, <2>1, <2>2, FirstIsOne
  <2> QED
    BY <1>2, <1>4, <2>2, <2>3 DEF SlotInv, OwnAttempts
<1>6. ASSUME NEW k \in Of(journal, "committed"), journal[k].revision = st[p].revision
      PROVE  FALSE
  <2>1. PICK m \in Of(journal, "prepared") :
            FirstOf(journal, m) /\ journal[m] = [journal[k] EXCEPT !.kind = "prepared"]
    BY <1>1 DEF Commits
  <2>2. journal[k] \in Record
    BY <1>1 DEF Of
  <2>3. journal[m].revision = journal[k].revision /\ journal[m].attempt = journal[k].attempt
    BY <2>1, <2>2 DEF Record
  <2>4. i = m
    BY <1>1, <1>3, <1>4, <1>6, <2>1, <2>3, FirstIsOne
  <2>5. journal[k].attempt # st[p].attempt
    BY <1>1 DEF KnowsCommits, Claiming
  <2> QED
    BY <1>4, <2>3, <2>4, <2>5
<1>7. st[p].revision \in Revision
  <2>1. st[p] \in Locals
    BY <1>1
  <2> QED
    BY <1>2, <2>1, Constants DEF Locals, Revision
<1> QED
  BY <1>2, <1>5, <1>6, <1>7

\* The committed records after a step.
LEMMA CommittedAfter ==
    ASSUME SlotInv, NEW p \in Proc, Grows(p)
    PROVE  \/ /\ Of(journal', "committed") = Of(journal, "committed")
              /\ ~At(p, "commit") \/ journal' = journal
           \/ /\ At(p, "commit") /\ ~torn
              /\ RecordOf(st[p], "committed") \in Record
              /\ journal' = Append(journal, RecordOf(st[p], "committed"))
              /\ Of(journal', "committed") = Of(journal, "committed") \cup {Len(journal) + 1}
              /\ journal'[Len(journal) + 1] = RecordOf(st[p], "committed")
<1>1. journal \in Seq(Record)
  BY DEF SlotInv, Shape, TypeOK
<1>2. CASE journal' = journal
  BY <1>2
<1>3. ASSUME NEW record \in Record, ~torn, Origin(p, record), journal' = Append(journal, record),
             record.kind # "committed"
      PROVE  Of(journal', "committed") = Of(journal, "committed") /\ ~At(p, "commit")
  <2>1. Of(journal', "committed") = Of(journal, "committed")
    BY <1>1, <1>3, AppendOf
  <2>2. ~At(p, "commit")
    BY <1>3 DEF Origin, At, RecordOf
  <2> QED
    BY <2>1, <2>2
<1>4. ASSUME NEW record \in Record, ~torn, Origin(p, record), journal' = Append(journal, record),
             record.kind = "committed"
      PROVE  /\ At(p, "commit") /\ record = RecordOf(st[p], "committed")
             /\ Of(journal', "committed") = Of(journal, "committed") \cup {Len(journal) + 1}
             /\ journal'[Len(journal) + 1] = record
  <2>1. At(p, "commit") /\ record = RecordOf(st[p], "committed")
    BY <1>4 DEF Origin, RecordOf
  <2>2. Of(journal', "committed") = Of(journal, "committed") \cup {Len(journal) + 1}
    BY <1>1, <1>4, AppendOf
  <2>3. journal'[Len(journal) + 1] = record
    BY <1>1, <1>4, AppendIs
  <2> QED
    BY <2>1, <2>2, <2>3
<1> QED
  BY <1>2, <1>3, <1>4 DEF Grows

\* A commit stays its attempt's only one, in the slot it was first to claim.
LEMMA CommitsKept ==
    ASSUME SlotInv, CommitInv, NEW p \in Proc, Grows(p)
    PROVE  Commits(journal)'
<1>1. /\ journal \in Seq(Record) /\ Len(journal) \in Nat /\ Commits(journal)
      /\ KnowsSlots(st[p], journal) /\ KnowsCommits(st[p], journal)
  BY DEF SlotInv, Shape, TypeOK, CommitInv
<1>2. /\ \A i \in 1..Len(journal) : journal'[i] = journal[i]
      /\ Of(journal, "prepared") \subseteq Of(journal', "prepared")
      /\ \A i \in 1..Len(journal) : FirstOf(journal, i) => FirstOf(journal', i)
  BY Later, KeptFacts
<1>3. \A kind : Of(journal, kind) \subseteq 1..Len(journal)
  BY DEF Of
<1>4. ASSUME NEW k \in Of(journal, "committed")
      PROVE  \E i \in Of(journal', "prepared") :
                /\ i < k
                /\ FirstOf(journal', i)
                /\ journal'[i] = [journal'[k] EXCEPT !.kind = "prepared"]
  <2>1. PICK i \in Of(journal, "prepared") :
            /\ i < k
            /\ FirstOf(journal, i)
            /\ journal[i] = [journal[k] EXCEPT !.kind = "prepared"]
    BY <1>1 DEF Commits
  <2>2. journal'[i] = journal[i] /\ journal'[k] = journal[k] /\ FirstOf(journal', i)
    BY <1>2, <1>3, <2>1
  <2> QED
    BY <1>2, <2>1, <2>2
<1>5. ASSUME NEW i \in Of(journal, "committed"), NEW k \in Of(journal, "committed"),
             journal'[i].attempt = journal'[k].attempt
      PROVE  i = k
  BY <1>1, <1>2, <1>3, <1>5 DEF Commits
<1>6. CASE Of(journal', "committed") = Of(journal, "committed")
  BY <1>4, <1>5, <1>6 DEF Commits
<1> DEFINE record == RecordOf(st[p], "committed")
           n == Len(journal) + 1
<1>7. CASE /\ At(p, "commit") /\ record \in Record
           /\ Of(journal', "committed") = Of(journal, "committed") \cup {n}
           /\ journal'[n] = record
  <2>1. PICK i \in Of(journal, "prepared") :
            journal[i] = RecordOf(st[p], "prepared") /\ FirstOf(journal, i)
    BY <1>1, <1>7 DEF KnowsSlots, Owned, At, Owning
  <2>2. i \in 1..Len(journal) /\ journal[i] \in Record
    BY <1>1, <1>3
  <2>3. RecordOf(st[p], "prepared") = [record EXCEPT !.kind = "prepared"]
    <3>1. RecordOf(st[p], "prepared") \in Record /\ record \in Record
      BY <1>7, <2>1, <2>2
    <3>2. /\ RecordOf(st[p], "prepared").kind = "prepared"
          /\ RecordOf(st[p], "prepared").revision = record.revision
          /\ RecordOf(st[p], "prepared").head = record.head
          /\ RecordOf(st[p], "prepared").content = record.content
          /\ RecordOf(st[p], "prepared").key = record.key
          /\ RecordOf(st[p], "prepared").attempt = record.attempt
      BY DEF RecordOf
    <3> DEFINE a == RecordOf(st[p], "prepared")
    <3> HIDE DEF a, record
    <3> QED
      BY <3>1, <3>2 DEF Record, a
  <2>4. /\ i < n /\ FirstOf(journal', i) /\ i \in Of(journal', "prepared")
        /\ journal'[i] = [journal'[n] EXCEPT !.kind = "prepared"]
    BY <1>1, <1>2, <1>7, <2>1, <2>2, <2>3
  <2>5. \A k \in Of(journal, "committed") : journal[k].attempt # st[p].attempt
    BY <1>1, <1>7 DEF KnowsCommits, At, Claiming, Owning
  <2>6. journal'[n].attempt = st[p].attempt
    BY <1>7 DEF RecordOf
  <2>7. \A k \in Of(journal, "committed") : journal'[k].attempt # journal'[n].attempt
    BY <1>2, <1>3, <2>5, <2>6
  <2>8. \A k \in Of(journal', "committed") : k \in Of(journal, "committed") \/ k = n
    BY <1>7
  <2> HIDE DEF record, n
  <2>9. \A i1, k \in Of(journal', "committed") : journal'[i1].attempt = journal'[k].attempt => i1 = k
    BY <1>5, <2>7, <2>8
  <2>10. \A k \in Of(journal', "committed") : \E i1 \in Of(journal', "prepared") :
                /\ i1 < k
                /\ FirstOf(journal', i1)
                /\ journal'[i1] = [journal'[k] EXCEPT !.kind = "prepared"]
    BY <1>4, <2>4, <2>8
  <2> QED
    BY <2>9, <2>10 DEF Commits
<1> QED
  BY <1>6, <1>7, CommittedAfter

\* A committed revision keeps its pair, and is committed with it.
LEMMA SweptKept ==
    ASSUME SlotInv, CommitInv, NEW p \in Proc, Frame(p), Turn(p), Grows(p)
    PROVE  Swept(journal)'
<1>1. /\ journal \in Seq(Record) /\ Swept(journal)
      /\ files \in [Revision -> [body : Body \cup {None}, envelope : Content \cup {None}]]
      /\ KnowsSlots(st[p], journal) /\ KnowsCommits(st[p], journal)
  BY DEF SlotInv, Shape, TypeOK, CommitInv, AckedIsBound
<1>2. /\ \A i \in 1..Len(journal) : journal'[i] = journal[i]
      /\ Of(journal, "committed") \subseteq 1..Len(journal)
  BY Later DEF Of
<1>3. ASSUME NEW k \in Of(journal, "committed")
      PROVE  files'[journal'[k].revision] =
                [body |-> journal'[k].content.body, envelope |-> journal'[k].content]
  <2>1. journal'[k] = journal[k]
    BY <1>2
  <2>2. files[journal[k].revision] =
                [body |-> journal[k].content.body, envelope |-> journal[k].content]
    BY <1>1 DEF Swept, Holds
  <2>3. files'[journal[k].revision] = files[journal[k].revision]
    <3>1. CASE Fills(p)
      <4>1. st[p].pc \in Owning
        BY <3>1 DEF Fills, At, Owning
      <4>2. journal[k].revision # st[p].revision /\ journal[k].revision \in Revision
        BY <1>1, <1>2, <4>1, OwnersDiffer, JournalRange
      <4> QED
        BY <1>1, <3>1, <4>2 DEF Fills
    <3>2. CASE ~Fills(p)
      BY <3>2 DEF Turn, Begins, Walks, Quits, Looks, Aborts, Rereads, Waits, Judges, Claims, Passes,
                  Settlement, Receives, Returns, Records, Stays
    <3> QED
      BY <3>1, <3>2
  <2> QED
    BY <2>1, <2>2, <2>3
<1>4. CASE Of(journal', "committed") = Of(journal, "committed")
  BY <1>3, <1>4 DEF Swept, Holds
<1>5. CASE /\ At(p, "commit")
           /\ Of(journal', "committed") = Of(journal, "committed") \cup {Len(journal) + 1}
           /\ journal'[Len(journal) + 1] = RecordOf(st[p], "committed")
  <2> DEFINE n == Len(journal) + 1
             c == st[p].content
             r == st[p].revision
  <2>1. journal'[n].revision = r /\ journal'[n].content = c
    BY <1>5 DEF RecordOf
  <2>2. r \in Revision
    BY <1>5, OwnersDiffer DEF At, Owning
  <2>3. files[r].body = c.body /\ files[r].envelope = c
    BY <1>1, <1>5 DEF KnowsCommits, At
  <2>4. files[r] \in [body : Body \cup {None}, envelope : Content \cup {None}]
    BY <1>1, <2>2
  <2>5. files[r] = [body |-> c.body, envelope |-> c]
    <3> HIDE DEF c, r
    <3> QED
      BY <2>3, <2>4
  <2>6. files' = files
    BY <1>5 DEF At, Turn, Begins, Walks, Quits, Looks, Aborts, Rereads, Waits, Judges, Claims, Passes,
                Fills, Settlement, Receives, Returns, Records, Stays
  <2>7. files'[journal'[n].revision] =
                [body |-> journal'[n].content.body, envelope |-> journal'[n].content]
    BY <2>1, <2>5, <2>6
  <2> HIDE DEF n
  <2> QED
    BY <1>3, <1>5, <2>7 DEF Swept, Holds, n
<1> QED
  BY <1>4, <1>5, CommittedAfter

\* What the others know of their slots stays true.
LEMMA OthersKnowCommits ==
    ASSUME SlotInv, CommitInv, NEW p \in Proc, Frame(p), Turn(p), Grows(p), NEW q \in Proc \ {p}
    PROVE  KnowsCommits(st[q], journal)'
<1> DEFINE s == st[q]
<1>1. /\ s \in Locals /\ KnowsCommits(s, journal) /\ KnowsSlots(s, journal) /\ st'[q] = s
      /\ (torn => torn') /\ journal \in Seq(Record)
      /\ files \in [Revision -> [body : Body \cup {None}, envelope : Content \cup {None}]]
  BY DEF SlotInv, Shape, TypeOK, CommitInv, Frame
<1>2. /\ \A i \in 1..Len(journal) : journal'[i] = journal[i]
      /\ Of(journal, "committed") \subseteq 1..Len(journal)
      /\ \A kinds : Revisions(journal, kinds) \subseteq Revisions(journal', kinds)
  BY Later DEF Of
<1>3. s.pc \in Claiming => \A k \in Of(journal', "committed") : journal'[k].attempt # s.attempt
  <2> SUFFICES ASSUME s.pc \in Claiming, NEW k \in Of(journal', "committed")
               PROVE  journal'[k].attempt # s.attempt
    OBVIOUS
  <2>1. s.attempt # 0
    BY <1>1 DEF KnowsSlots, Claiming, Owning
  <2>2. CASE k \in Of(journal, "committed")
    BY <1>1, <1>2, <2>2 DEF KnowsCommits
  <2>3. CASE k = Len(journal) + 1 /\ journal'[Len(journal) + 1] = RecordOf(st[p], "committed")
    <3>1. journal'[k].attempt = st[p].attempt
      BY <2>3 DEF RecordOf
    <3> QED
      BY <2>1, <3>1 DEF SlotInv, OwnAttempts
  <2> QED
    BY <2>2, <2>3, CommittedAfter
<1>4. s.pc \in Owning => files'[s.revision] = files[s.revision]
  <2> SUFFICES ASSUME s.pc \in Owning PROVE files'[s.revision] = files[s.revision]
    OBVIOUS
  <2>1. CASE Fills(p)
    <3>1. st[p].pc \in Owning
      BY <2>1 DEF Fills, At, Owning
    <3>2. s.revision # st[p].revision /\ s.revision \in Revision
      BY <3>1, OwnersDiffer
    <3> QED
      BY <1>1, <2>1, <3>2 DEF Fills
  <2>2. CASE ~Fills(p)
    BY <2>2 DEF Turn, Begins, Walks, Quits, Looks, Aborts, Rereads, Waits, Judges, Claims, Passes,
                Settlement, Receives, Returns, Records, Stays
  <2> QED
    BY <2>1, <2>2
<1>5. /\ s.pc \in {"writeEnvelope", "guard2", "commit"} => files'[s.revision].body = s.content.body
      /\ s.pc \in {"guard2", "commit"} => files'[s.revision].envelope = s.content
  BY <1>1, <1>4 DEF KnowsCommits, Owning
<1>6. /\ s.pc = "receipt" => torn' \/ Settles(journal', s.revision, s.content)
      /\ s.pc = "unlock" /\ s.result = "ok" => Settles(journal', s.revision, s.content)
  BY <1>1, <1>2, KeptFacts DEF KnowsCommits
<1>7. st'[q] = s
  BY <1>1
<1> HIDE DEF s
<1> QED
  BY <1>3, <1>5, <1>6, <1>7 DEF KnowsCommits

\* What an admission that finds its own work done is told.
LEMMA DuplicateIsSettled ==
    ASSUME SlotInv, CommitInv, NEW p \in Proc, At(p, "judge"), Verdict(p) = "duplicate"
    PROVE  LET keyed == Keyed(st[p].view, st[p].key)
               same == Same(st[p].view, st[p].content)
           IN  Settles(journal, MaxOf(IF keyed # {} THEN keyed ELSE same), st[p].content)
<1> DEFINE v == st[p].view
           keyed == Keyed(v, st[p].key)
           same == Same(v, st[p].content)
           S == IF keyed # {} THEN keyed ELSE same
           prior == IF keyed # {} THEN Max(keyed)
                    ELSE IF same # {} THEN Max(same) ELSE committedHead(v)
<1>1. /\ st[p] \in Locals /\ v \in Seq(Record) /\ Prefix(v, journal) /\ journal \in Seq(Record)
  BY DEF SlotInv, Shape, TypeOK, KnowsSlots, Locals
<1>2. /\ keyed \cup same # {} /\ Holds(Settled(v, prior)) /\ files[prior].envelope = st[p].content
  BY DEF Verdict
<1>3. S # {} /\ MaxOf(S) = prior
  BY <1>2 DEF MaxOf
<1>4. /\ keyed \subseteq Revisions(v, {"committed"}) /\ same \subseteq Revisions(v, {"committed"})
  BY DEF Keyed, Same, Of, Revisions
<1>5. S \subseteq Revisions(v, {"committed"}) /\ S \subseteq 0..MaxCalls
  <2>1. S \subseteq Revisions(v, {"committed"})
    BY <1>4
  <2>2. Revisions(v, {"committed"}) \subseteq 0..MaxCalls
    BY <1>1, JournalRange, Constants DEF Revision
  <2> QED
    BY <2>1, <2>2
<1>6. prior \in Revisions(v, {"committed"})
  <2>1. MaxOf(S) \in S
    <3> HIDE DEF S
    <3> QED
      BY <1>3, <1>5, MaxOfIs, Constants
  <2> QED
    BY <1>3, <1>5, <2>1
<1> HIDE DEF prior, S, keyed, same
<1>7. PICK i \in Of(v, "committed") : v[i].revision = prior
  BY <1>6 DEF Revisions, Of
<1> DEFINE k == CHOOSE i1 \in Of(v, "committed") : v[i1].revision = prior
<1>8. k \in Of(v, "committed") /\ v[k].revision = prior
  BY <1>7
<1> HIDE DEF k
<1>9. Settled(v, prior) = v[k]
  BY DEF Settled, k
<1>10. v[k].content = st[p].content
  BY <1>2, <1>8, <1>9 DEF Holds
<1>11. k \in Of(journal, "committed") /\ journal[k] = v[k]
  BY <1>1, <1>8 DEF Of, Prefix
<1>12. Settles(journal, prior, st[p].content)
  BY <1>8, <1>10, <1>11 DEF Settles
<1> QED
  BY <1>3, <1>12 DEF S, keyed, same

\* What p knows of its slot after its own step.
LEMMA OwnKnowsCommits ==
    ASSUME SlotInv, CommitInv, NEW p \in Proc, Frame(p), Turn(p), Grows(p)
    PROVE  KnowsCommits(st[p], journal)'
<1> DEFINE s == st[p]
           n == st'[p]
<1>1. /\ s \in Locals /\ KnowsCommits(s, journal) /\ KnowsSlots(s, journal)
      /\ (torn => torn') /\ journal \in Seq(Record) /\ Commits(journal)
      /\ files \in [Revision -> [body : Body \cup {None}, envelope : Content \cup {None}]]
  BY DEF SlotInv, Shape, TypeOK, CommitInv, Frame
<1>2. (KnowsCommits(st[p], journal))' <=>
        /\ n.pc \in Claiming => \A k \in Of(journal', "committed") : journal'[k].attempt # n.attempt
        /\ n.pc \in {"writeEnvelope", "guard2", "commit"} => files'[n.revision].body = n.content.body
        /\ n.pc \in {"guard2", "commit"} => files'[n.revision].envelope = n.content
        /\ n.pc = "receipt" => torn' \/ Settles(journal', n.revision, n.content)
        /\ n.pc = "unlock" /\ n.result = "ok" => Settles(journal', n.revision, n.content)
  BY DEF KnowsCommits
<1>3. CASE Begins(p) \/ Walks(p) \/ Looks(p) \/ Aborts(p) \/ Rereads(p) \/ Waits(p)
  <2>1. n.pc \in {"verify", "reserve", "consumable", "open", "stat", "rmStale", "reverify", "read",
                  "inFlight", "sweep", "recover", "judge", "reread", "elsewhere"}
    BY <1>3 DEF Begins, Walks, Looks, Aborts, Rereads, Waits, Walking
  <2> QED
    BY <1>2, <2>1 DEF Claiming, Owning
<1>4. CASE Quits(p)
  <2>1. n.pc \in {"idle", "admitted", "unlock"} /\ (n.pc = "unlock" => n.result # "ok")
    BY <1>4 DEF Quits
  <2> QED
    BY <1>2, <2>1 DEF Claiming, Owning
<1>5. CASE Judges(p)
  <2>1. /\ n.pc \in {"prepare", "unlock"} /\ journal' = journal /\ n.content = s.content
        /\ n.pc = "unlock" /\ n.result = "ok" =>
            /\ Verdict(p) = "duplicate"
            /\ n.revision = LET keyed == Keyed(s.view, s.key) IN
                MaxOf(IF keyed # {} THEN keyed ELSE Same(s.view, s.content))
    BY <1>5, VerdictIs DEF Judges, Stays, Carries
  <2>2. n.pc = "unlock" /\ n.result = "ok" => Settles(journal', n.revision, n.content)
    BY <1>5, <2>1, DuplicateIsSettled DEF Judges
  <2> QED
    BY <1>2, <2>1, <2>2 DEF Claiming, Owning
<1>6. CASE Claims(p)
  <2>1. s.pc = "prepare" /\ n.pc = "guard1" /\ n.attempt = s.attempt
    BY <1>6 DEF Claims, Records, Keeps, Carries, At
  <2>2. s.attempt \notin Attempts(journal)
    BY <1>1, <2>1 DEF KnowsSlots, Before
  <2>3. ASSUME NEW k \in Of(journal', "committed") PROVE journal'[k].attempt # s.attempt
    <3>1. k \in Of(journal, "committed")
      BY <2>1, CommittedAfter DEF At
    <3>2. journal'[k] = journal[k] /\ journal[k] \in Record
      BY <1>1, <3>1, Later DEF Of
    <3>3. PICK i \in Of(journal, "prepared") : journal[i] = [journal[k] EXCEPT !.kind = "prepared"]
      BY <1>1, <3>1 DEF Commits
    <3>4. journal[i].attempt = journal[k].attempt
      BY <3>2, <3>3 DEF Record
    <3> QED
      BY <2>2, <3>2, <3>4 DEF Attempts
  <2> QED
    BY <1>2, <2>1, <2>3
<1>7. CASE Passes(p)
  <2>1. /\ s.pc \in {"guard1", "guard2"} /\ n.pc \in {"writeBody", "commit"} /\ Keeps(p)
        /\ n.pc = "commit" => s.pc = "guard2"
        /\ journal' = journal /\ files' = files
    BY <1>7 DEF Passes, Stays, At
  <2>2. \A k \in Of(journal, "committed") : journal[k].attempt # s.attempt
    BY <1>1, <2>1 DEF KnowsCommits, Claiming, Owning
  <2>3. s.pc = "guard2" => files[s.revision].body = s.content.body /\ files[s.revision].envelope = s.content
    BY <1>1 DEF KnowsCommits
  <2> QED
    BY <1>2, <2>1, <2>2, <2>3 DEF Keeps, Carries
<1>8. CASE Fills(p)
  <2>1. /\ s.pc \in {"writeBody", "writeEnvelope"} /\ Keeps(p) /\ journal' = journal
        /\ s.pc = "writeBody" => n.pc = "writeEnvelope"
        /\ s.pc = "writeEnvelope" => n.pc = "guard2"
    BY <1>8 DEF Fills, At
  <2>2. \A k \in Of(journal, "committed") : journal[k].attempt # s.attempt
    BY <1>1, <2>1 DEF KnowsCommits, Claiming, Owning
  <2>3. s.revision \in Revision
    BY <2>1, OwnersDiffer DEF Owning
  <2> DEFINE c == s.content
             r == s.revision
             f == files[r]
  <2>4. f \in [body : Body \cup {None}, envelope : Content \cup {None}]
    BY <1>1, <2>3
  <2>5. CASE s.pc = "writeBody"
    <3>1. files'[r] = [f EXCEPT !.body = c.body]
      BY <1>1, <1>8, <2>3, <2>5 DEF Fills, At
    <3>2. files'[r].body = c.body
      <4> HIDE DEF f, c, r
      <4> QED
        BY <2>4, <3>1
    <3> QED
      BY <1>2, <2>1, <2>2, <2>5, <3>2 DEF Keeps, Carries
  <2>6. CASE s.pc = "writeEnvelope"
    <3>1. files'[r] = [f EXCEPT !.envelope = c]
      BY <1>1, <1>8, <2>3, <2>6 DEF Fills, At
    <3>2. f.body = c.body
      BY <1>1, <2>6 DEF KnowsCommits
    <3>3. files'[r].body = c.body /\ files'[r].envelope = c
      <4> HIDE DEF f, c, r
      <4> QED
        BY <2>4, <3>1, <3>2
    <3> QED
      BY <1>2, <2>1, <2>2, <2>6, <3>3 DEF Keeps, Carries
  <2> QED
    BY <2>1, <2>5, <2>6
<1>9. CASE Settlement(p)
  <2>1. s.pc = "commit" /\ n.pc = "receipt" /\ Keeps(p)
    BY <1>9 DEF Settlement, Records, At
  <2>2. ~torn => Settles(journal', n.revision, n.content)
    <3> SUFFICES ASSUME ~torn PROVE Settles(journal', n.revision, n.content)
      OBVIOUS
    <3>1. journal' = Append(journal, RecordOf(s, "committed"))
      BY <1>9 DEF Settlement, Records
    <3>2. s.attempt # 0 /\ s.revision # 0
      BY <1>1, <2>1 DEF KnowsSlots, Claiming, Owning
    <3>3. RecordOf(s, "committed") \in Record
      BY <3>2, RecordType
    <3>4. journal' # journal
      BY <1>1, <3>1, <3>3, AppendIs
    <3>5. /\ Len(journal) + 1 \in Of(journal', "committed")
          /\ journal'[Len(journal) + 1] = RecordOf(s, "committed")
      BY <2>1, <3>4, CommittedAfter DEF At
    <3>6. RecordOf(s, "committed").revision = n.revision /\ RecordOf(s, "committed").content = n.content
      BY <2>1 DEF RecordOf, Keeps, Carries
    <3> QED
      BY <3>5, <3>6 DEF Settles
  <2> QED
    BY <1>1, <1>2, <2>1, <2>2 DEF Claiming, Owning
<1>10. CASE Receives(p)
  <2>1. /\ s.pc = "receipt" /\ n.pc = "unlock" /\ ~torn /\ journal' = journal
        /\ n.revision = s.revision /\ n.content = s.content
    BY <1>10 DEF Receives, At, Stays, Carries
  <2>2. Settles(journal', n.revision, n.content)
    BY <1>1, <2>1 DEF KnowsCommits
  <2> QED
    BY <1>2, <2>1, <2>2 DEF Claiming, Owning
<1>11. CASE Returns(p)
  <2>1. n.pc \in {"idle", "admitted"}
    BY <1>11 DEF Returns
  <2> QED
    BY <1>2, <2>1 DEF Claiming, Owning
<1> QED
  BY <1>3, <1>4, <1>5, <1>6, <1>7, <1>8, <1>9, <1>10, <1>11 DEF Turn

\* The second layer of the invariant is kept.
LEMMA CommitStep ==
    ASSUME SlotInv, CommitInv, [Next]_vars PROVE CommitInv'
<1>1. CASE Rests
  BY <1>1 DEF Rests, CommitInv, Commits, KnowsCommits, AckedIsBound, Swept, Holds, historyVars
<1>2. ASSUME NEW p \in Proc, Frame(p), Turn(p) PROVE CommitInv'
  <2>1. Grows(p)
    BY <1>2, TurnGrows
  <2>2. \A receipt \in acked : Settles(journal, receipt.revision, receipt.content)
    BY DEF CommitInv, AckedIsBound, Settles
  <2>3. ASSUME NEW receipt \in acked'
        PROVE  Settles(journal', receipt.revision, receipt.content)
    <3>1. CASE receipt \in acked
      BY <2>1, <2>2, <3>1, KeptFacts
    <3>2. CASE receipt \notin acked
      <4>1. /\ Returns(p) /\ st[p].result = "ok"
            /\ receipt = [revision |-> st[p].revision, content |-> st[p].content]
        BY <1>2, <2>3, <3>2 DEF Turn, Begins, Walks, Quits, Looks, Aborts, Rereads, Waits, Judges,
                Claims, Passes, Fills, Settlement, Receives, Returns, Records, Stays
      <4>2. Settles(journal, st[p].revision, st[p].content)
        BY <4>1 DEF CommitInv, KnowsCommits, Returns, At
      <4> QED
        BY <2>1, <4>1, <4>2, KeptFacts
    <3> QED
      BY <3>1, <3>2
  <2>4. AckedIsBound'
    BY <1>2, <2>1, <2>3, SweptKept DEF AckedIsBound, Settles
  <2>5. Commits(journal)'
    BY <2>1, CommitsKept
  <2>6. ASSUME NEW q \in Proc PROVE KnowsCommits(st[q], journal)'
    BY <1>2, <2>1, OthersKnowCommits, OwnKnowsCommits
  <2> QED
    BY <2>4, <2>5, <2>6 DEF CommitInv
<1> QED
  BY <1>1, <1>2, NextForm

---------------------------------------------------------------------------
(* The chain is kept.                                                      *)

\* A head of a journal's first records stays one, and what was earned stays earned.
LEMMA EarnedKept ==
    ASSUME SlotInv, NEW p \in Proc, Grows(p), NEW record, Earned(record, journal)
    PROVE  Earned(record, journal')
<1>1. /\ Len(journal) \in Nat /\ Len(journal') \in Nat /\ Len(journal) <= Len(journal')
      /\ \A i \in 1..Len(journal) : journal'[i] = journal[i]
  BY Later
<1>2. PICK n \in 0..Len(journal) :
        /\ IsHead(journal, n, record.head)
        /\ record.key # None =>
            \A i \in 1..n : journal[i].kind = "committed" => journal[i].key # record.key
  BY DEF Earned
<1>3. n \in 0..Len(journal') /\ \A i \in 1..n : journal'[i] = journal[i]
  BY <1>1
<1>4. IsHead(journal', n, record.head)
  BY <1>2, <1>3 DEF IsHead
<1>5. record.key # None =>
        \A i \in 1..n : journal'[i].kind = "committed" => journal'[i].key # record.key
  BY <1>2, <1>3
<1> QED
  BY <1>3, <1>4, <1>5 DEF Earned

\* A verdict that lets p in is earned.
LEMMA VerdictEarns ==
    ASSUME SlotInv, NEW p \in Proc, Frame(p), Judges(p), st'[p].pc = "prepare"
    PROVE  Earned(RecordOf(st'[p], "committed"), journal)
<1> DEFINE v == st[p].view
           h == committedHead(v)
           record == RecordOf(st'[p], "committed")
<1>1. /\ st[p] \in Locals /\ v \in Seq(Record) /\ Prefix(v, journal) /\ journal \in Seq(Record)
      /\ Len(v) \in Nat /\ At(p, "judge")
  BY DEF SlotInv, Shape, TypeOK, KnowsSlots, Locals, Judges
<1>2. /\ Verdict(p) = "new" /\ st'[p].head = h /\ st'[p].content = st[p].content
      /\ st'[p].key = st[p].key /\ st'[p].revision = highestClaimedRevision(v) + 1
  BY DEF Judges, Carries
<1>3. st[p].content.expected = h /\ Keyed(v, st[p].key) = {}
  BY <1>2 DEF Verdict
<1>4. h < highestClaimedRevision(v) + 1
  BY <1>1, NextSlot
<1>5. IsHead(v, Len(v), h)
  BY <1>1, HeadIs
<1>6. Len(v) \in 0..Len(journal) /\ \A i \in 1..Len(v) : v[i] = journal[i]
  BY <1>1 DEF Prefix
<1>7. IsHead(journal, Len(v), h)
  BY <1>5, <1>6 DEF IsHead
<1>8. st[p].key # None =>
        \A i \in 1..Len(v) : journal[i].kind = "committed" => journal[i].key # st[p].key
  BY <1>3, <1>6 DEF Keyed, Of
<1>9. /\ record.head = h /\ record.content = st[p].content /\ record.key = st[p].key
      /\ record.revision = highestClaimedRevision(v) + 1
  BY <1>2 DEF RecordOf
<1> HIDE DEF h, record, v
<1> QED
  BY <1>3, <1>4, <1>6, <1>7, <1>8, <1>9 DEF Earned, record

\* The third layer of the invariant is kept.
LEMMA ChainStep ==
    ASSUME SlotInv, CommitInv, ChainInv, [Next]_vars PROVE ChainInv'
<1>1. CASE Rests
  BY <1>1 DEF Rests, ChainInv
<1>2. ASSUME NEW p \in Proc, Frame(p), Turn(p) PROVE ChainInv'
  <2>1. Grows(p)
    BY <1>2, TurnGrows
  <2>2. ASSUME NEW k \in Of(journal', "committed") PROVE Earned(journal'[k], journal')
    <3>1. CASE k \in Of(journal, "committed")
      <4>1. Earned(journal[k], journal) /\ journal'[k] = journal[k]
        BY <2>1, <3>1, Later DEF ChainInv, Of
      <4> QED
        BY <2>1, <4>1, EarnedKept
    <3>2. CASE At(p, "commit") /\ journal'[k] = RecordOf(st[p], "committed")
      <4>1. Earned(RecordOf(st[p], "committed"), journal)
        BY <3>2 DEF ChainInv, At, Claiming, Owning
      <4> QED
        BY <2>1, <3>2, <4>1, EarnedKept
    <3> QED
      BY <2>1, <3>1, <3>2, CommittedAfter
  <2>3. ASSUME NEW q \in Proc, st'[q].pc \in Claiming \cup {"prepare"}
        PROVE  Earned(RecordOf(st'[q], "committed"), journal')
    <3>1. CASE q # p
      <4>1. st'[q] = st[q]
        BY <1>2, <3>1 DEF Frame
      <4> QED
        BY <2>1, <2>3, <4>1, EarnedKept DEF ChainInv
    <3>2. CASE q = p
      <4>1. CASE Judges(p)
        BY <1>2, <2>1, <2>3, <3>2, <4>1, VerdictEarns, EarnedKept DEF Judges, Claiming, Owning
      <4>2. CASE Claims(p) \/ Passes(p) \/ Fills(p)
        <5>1. Keeps(p) /\ st[p].pc \in Claiming \cup {"prepare"}
          BY <4>2 DEF Claims, Passes, Fills, Records, At, Claiming, Owning
        <5>2. Earned(RecordOf(st[p], "committed"), journal)
          BY <5>1 DEF ChainInv
        <5>3. RecordOf(st'[p], "committed") = RecordOf(st[p], "committed")
          BY <5>1, SameRecord
        <5> QED
          BY <2>1, <3>2, <5>2, <5>3, EarnedKept
      <4>3. CASE ~Judges(p) /\ ~Claims(p) /\ ~Passes(p) /\ ~Fills(p)
        <5>1. st'[p].pc \notin Claiming \cup {"prepare"}
          BY <1>2, <4>3 DEF Turn, Begins, Walks, Walking, Quits, Looks, Aborts, Rereads, Waits,
                Settlement, Receives, Returns, Claiming, Owning
        <5> QED
          BY <2>3, <3>2, <5>1
      <4> QED
        BY <4>1, <4>2, <4>3
    <3> QED
      BY <3>1, <3>2
  <2> QED
    BY <2>2, <2>3 DEF ChainInv
<1> QED
  BY <1>1, <1>2, NextForm

\* In a journal that a reader accepts, each commit was made against the head before it.
LEMMA ChainIsSerial ==
    ASSUME SlotInv, ChainInv PROVE ValidIsSerial
<1> SUFFICES ASSUME Sound, NEW i \in Of(journal, "committed"), NEW k \in Of(journal, "committed"),
                    i < k
             PROVE  /\ journal[i].revision <= journal[k].content.expected
                    /\ journal[k].content.expected < journal[k].revision
                    /\ journal[k].key # None => journal[k].key # journal[i].key
  BY DEF ValidIsSerial
<1>1. /\ journal \in Seq(Record) /\ Len(journal) \in Nat
      /\ \A m \in Of(journal, "committed") : Earned(journal[m], journal)
      /\ \A m \in 1..Len(journal) : journal[m].revision \in Nat \ {0} /\ journal[m].head \in Nat
  <2>1. \A m \in 1..Len(journal) : journal[m] \in Record /\ journal[m].revision \in Revision
    BY JournalRange DEF SlotInv, Shape, TypeOK
  <2>2. \A m \in 1..Len(journal) : journal[m].revision \in Nat \ {0}
    BY <2>1, Constants
  <2>3. \A m \in 1..Len(journal) : journal[m].head \in 0..MaxCalls
    BY <2>1 DEF Record
  <2> QED
    BY <2>2, <2>3, Constants DEF SlotInv, Shape, TypeOK, ChainInv
<1>2. ASSUME NEW m \in Of(journal, "committed"), NEW o \in Of(journal, "committed"), o < m
      PROVE  /\ journal[o].revision <= journal[m].head
             /\ journal[m].content.expected = journal[m].head
             /\ journal[m].head < journal[m].revision
  <2> DEFINE part == SubSeq(journal, 1, m - 1)
  <2>1. m \in 1..Len(journal) /\ o \in 1..(m - 1) /\ journal[o].kind = "committed"
    BY <1>1, <1>2 DEF Of
  <2>2. /\ part \in Seq(Record) /\ Len(part) = m - 1
        /\ \A x \in 1..(m - 1) : part[x] = journal[x]
    BY <1>1, <2>1
  <2>3. journal[m].head = committedHead(part)
    BY DEF Sound, validateSettlement
  <2> HIDE DEF part
  <2>4. IsHead(part, Len(part), committedHead(part))
    BY <2>2, HeadIs
  <2>5. journal[o].revision <= journal[m].head
    BY <2>1, <2>2, <2>3, <2>4 DEF IsHead
  <2> QED
    BY <1>1, <2>5 DEF Earned
<1>3. ASSUME journal[k].key # None, journal[k].key = journal[i].key PROVE FALSE
  <2>1. PICK n \in 0..Len(journal) :
            /\ IsHead(journal, n, journal[k].head)
            /\ \A x \in 1..n : journal[x].kind = "committed" => journal[x].key # journal[k].key
    BY <1>1, <1>3 DEF Earned
  <2>2. i \in 1..Len(journal) /\ k \in 1..Len(journal) /\ journal[i].kind = "committed"
    BY DEF Of
  <2>3. i > n
    BY <1>3, <2>1, <2>2
  <2>4. journal[i].revision <= journal[k].head
    BY <1>2
  <2>5. journal[k].head # 0
    BY <1>1, <2>2, <2>4
  <2>6. PICK m \in 1..n : journal[m].kind = "committed" /\ journal[m].revision = journal[k].head
    BY <2>1, <2>5 DEF IsHead
  <2>7. m \in Of(journal, "committed") /\ m < i
    BY <1>1, <2>2, <2>3, <2>6 DEF Of
  <2>8. journal[m].revision <= journal[i].head /\ journal[i].head < journal[i].revision
    BY <1>2, <2>7
  <2>9. /\ journal[m].revision \in Nat /\ journal[i].head \in Nat /\ journal[i].revision \in Nat
        /\ journal[k].head \in Nat
    BY <1>1, <2>2, <2>6
  <2> QED
    BY <2>4, <2>6, <2>8, <2>9
<1> QED
  BY <1>2, <1>3

---------------------------------------------------------------------------
(* While undisturbed, no admission is in the way of another.               *)

\* A journal of commits made each against the head before it is accepted.
LEMMA LoneIsSound ==
    ASSUME SlotInv, CommitInv,
           \A k \in Of(journal, "committed") : IsHead(journal, k - 1, journal[k].head)
    PROVE  validateSettlement(journal)
<1>1. /\ journal \in Seq(Record) /\ Len(journal) \in Nat /\ Slots(journal) /\ Commits(journal)
      /\ \A i \in 1..Len(journal) : journal[i] \in Record
  BY DEF SlotInv, Shape, TypeOK, CommitInv
<1>2. ASSUME NEW i \in Of(journal, "committed")
      PROVE  /\ \E k \in 1..i : /\ journal[k].kind = "prepared"
                                /\ journal[k].revision = journal[i].revision
                                /\ journal[k].content = journal[i].content
             /\ \A k \in Of(journal, "committed") : journal[k].revision = journal[i].revision => k = i
             /\ journal[i].head = committedHead(SubSeq(journal, 1, i - 1))
  <2>1. ASSUME NEW k \in Of(journal, "committed")
        PROVE  \E c \in Of(journal, "prepared") :
                    /\ c < k /\ FirstOf(journal, c)
                    /\ journal[c].revision = journal[k].revision
                    /\ journal[c].content = journal[k].content
                    /\ journal[c].attempt = journal[k].attempt
    <3>1. PICK c \in Of(journal, "prepared") :
            c < k /\ FirstOf(journal, c) /\ journal[c] = [journal[k] EXCEPT !.kind = "prepared"]
      BY <1>1 DEF Commits
    <3>2. journal[k] \in Record
      BY <1>1 DEF Of
    <3> QED
      BY <3>1, <3>2 DEF Record
  <2>2. PICK c \in Of(journal, "prepared") :
            /\ c < i /\ FirstOf(journal, c)
            /\ journal[c].revision = journal[i].revision
            /\ journal[c].content = journal[i].content
            /\ journal[c].attempt = journal[i].attempt
    BY <2>1
  <2>3. i \in 1..Len(journal) /\ c \in 1..Len(journal) /\ journal[c].kind = "prepared"
    BY DEF Of
  <2>4. c \in 1..i
    BY <1>1, <2>2, <2>3
  <2>5. ASSUME NEW k \in Of(journal, "committed"), journal[k].revision = journal[i].revision
        PROVE  k = i
    <3>1. PICK d \in Of(journal, "prepared") :
            /\ FirstOf(journal, d)
            /\ journal[d].revision = journal[k].revision
            /\ journal[d].attempt = journal[k].attempt
      BY <2>1
    <3>2. c = d
      BY <1>1, <2>2, <2>5, <3>1, FirstIsOne
    <3> QED
      BY <1>1, <2>2, <3>1, <3>2 DEF Commits
  <2>6. journal[i].head \in Nat
    BY <1>1, <2>3, Constants DEF Record
  <2>7. i - 1 \in 0..Len(journal)
    BY <1>1, <2>3
  <2>8. committedHead(SubSeq(journal, 1, i - 1)) = journal[i].head
    BY <1>1, <2>6, <2>7, HeadOfPart
  <2> QED
    BY <2>2, <2>3, <2>4, <2>5, <2>8
<1>3. 1..highestClaimedRevision(journal) \subseteq {journal[i].revision : i \in 1..Len(journal)}
  <2> DEFINE S == Revisions(journal, {"prepared", "committed", "aborted"})
             h == MaxOf(S)
  <2>1. S \subseteq 0..MaxCalls
    BY <1>1, JournalRange, Constants DEF Revision
  <2>2. h \in 0..MaxCalls /\ (h = 0 \/ h \in S)
    <3> HIDE DEF S
    <3> QED
      BY <2>1, MaxOfIs, Constants
  <2>3. \A r \in S : \E i \in 1..Len(journal) : journal[i].revision = r
    BY DEF Revisions
  <2>4. ASSUME NEW r \in 1..h PROVE r \in {journal[i].revision : i \in 1..Len(journal)}
    <3>1. h # 0
      BY <2>2, <2>4, Constants
    <3> HIDE DEF h, S
    <3>2. PICK i \in 1..Len(journal) : journal[i].revision = h
      BY <2>2, <2>3, <3>1
    <3>3. r \in Revisions(journal, {"prepared"})
      BY <1>1, <2>4, <3>2 DEF Slots
    <3> QED
      BY <3>3 DEF Revisions
  <2> QED
    BY <2>4 DEF highestClaimedRevision
<1> QED
  BY <1>2, <1>3 DEF validateSettlement

\* The pair of a revision committed in what p replayed is there.
LEMMA SettledHolds ==
    ASSUME SlotInv, CommitInv, NEW v \in Seq(Record), Prefix(v, journal),
           NEW i \in Of(v, "committed")
    PROVE  /\ Holds(v[i])
           /\ files[v[i].revision].body # None /\ files[v[i].revision].envelope # None
<1>1. journal \in Seq(Record) /\ Swept(journal) /\ Len(journal) \in Nat /\ Len(v) \in Nat
  BY DEF SlotInv, Shape, TypeOK, CommitInv, AckedIsBound
<1>2. i \in Of(journal, "committed") /\ journal[i] = v[i]
  BY <1>1 DEF Prefix, Of
<1>3. Holds(v[i])
  BY <1>1, <1>2 DEF Swept
<1>4. v[i].content \in Content
  <2>1. v[i] \in Record
    BY DEF Of
  <2> QED
    BY <2>1 DEF Record
<1>5. v[i].content.body \in Body
  BY <1>4 DEF Content
<1> QED
  BY <1>3, <1>4, <1>5, Constants DEF Holds

\* So no admission finds the store corrupt.
LEMMA VerdictIsSound ==
    ASSUME SlotInv, CommitInv, NEW p \in Proc, At(p, "judge")
    PROVE  Verdict(p) \in {"keyConflict", "duplicate", "stale", "new"}
<1> DEFINE v == st[p].view
           keyed == Keyed(v, st[p].key)
           same == Same(v, st[p].content)
           head == committedHead(v)
           prior == IF keyed # {} THEN Max(keyed) ELSE IF same # {} THEN Max(same) ELSE head
           committed == Revisions(v, {"committed"})
<1>1. v \in Seq(Record) /\ Prefix(v, journal) /\ Len(v) \in Nat
  BY DEF SlotInv, Shape, TypeOK, KnowsSlots, Locals
<1>2. Paired(v)
  BY <1>1, SettledHolds DEF Paired
<1>3. ASSUME NEW r \in committed PROVE Holds(Settled(v, r))
  <2>1. \E i \in Of(v, "committed") : v[i].revision = r
    BY <1>3 DEF Revisions, Of
  <2>2. (CHOOSE i \in Of(v, "committed") : v[i].revision = r) \in Of(v, "committed")
    BY <2>1
  <2> QED
    BY <1>1, <2>2, SettledHolds DEF Settled
<1>4. committed \subseteq 0..MaxCalls
  BY <1>1, JournalRange, Constants DEF Revision
<1>5. keyed \subseteq committed /\ same \subseteq committed
  BY DEF Keyed, Same, Revisions, Of
<1>6. keyed \cup same # {} => prior \in committed
  <2>1. \A S : S \subseteq committed /\ S # {} => Max(S) \in committed
    <3> HIDE DEF committed
    <3> QED
      BY <1>4, HasGreatest, Constants
  <2> HIDE DEF keyed, same, committed
  <2> QED
    BY <1>5, <2>1
<1>7. head > 0 => head \in committed
  <2>1. MaxOf(committed) = 0 \/ MaxOf(committed) \in committed
    <3> HIDE DEF committed
    <3> QED
      BY <1>4, MaxOfIs, Constants
  <2> QED
    BY <2>1 DEF committedHead
<1> HIDE DEF prior, committed
<1>8. Verdict(p) # "corrupt"
  BY <1>2, <1>3, <1>6, <1>7 DEF Verdict, prior
<1> QED
  BY <1>8, VerdictIs

\* The guard lets an attempt pass whose slot and head are as it left them.
LEMMA GuardOpens ==
    ASSUME SlotInv, NEW p \in Proc, Sound, Owned(st[p], journal),
           IsHead(journal, Len(journal), st[p].head)
    PROVE  settleGuard(p) = "none"
<1>1. journal \in Seq(Record) /\ Len(journal) \in Nat /\ st[p] \in Locals
  BY DEF SlotInv, Shape, TypeOK
<1>2. PICK i \in Of(journal, "prepared") :
        journal[i] = RecordOf(st[p], "prepared") /\ FirstOf(journal, i)
  BY DEF Owned
<1>3. journal[i].revision = st[p].revision /\ journal[i].attempt = st[p].attempt
  BY <1>2 DEF RecordOf
<1>4. st[p].revision \in Revisions(journal, {"prepared"})
  BY <1>3 DEF Revisions, Of
<1>5. PICK k \in Of(journal, "prepared") :
        /\ FirstClaim(st[p].revision) = journal[k]
        /\ journal[k].revision = st[p].revision
        /\ FirstOf(journal, k)
  BY <1>1, <1>4, FirstClaimIs
<1>6. k = i
  BY <1>1, <1>2, <1>3, <1>5, FirstIsOne
<1>7. committedHead(journal) = st[p].head
  <2>1. committedHead(journal) \in Nat /\ st[p].head \in Nat /\ Len(journal) \in 0..Len(journal)
    <3>1. committedHead(journal) \in 0..MaxCalls /\ st[p].head \in 0..MaxCalls
      BY <1>1, HeadIs DEF Locals
    <3> QED
      BY <1>1, <3>1, Constants
  <2>2. IsHead(journal, Len(journal), committedHead(journal))
    BY <1>1, HeadIs
  <2> QED
    BY <1>1, <2>1, <2>2, HeadIsOne
<1> QED
  BY <1>3, <1>4, <1>5, <1>6, <1>7 DEF settleGuard

\* A head stays one when what follows is not committed.
LEMMA HeadKept ==
    ASSUME NEW j \in Seq(Record), NEW record \in Record, record.kind # "committed",
           NEW k, k = Append(j, record), NEW h, IsHead(j, Len(j), h)
    PROVE  IsHead(k, Len(k), h)
<1>1. /\ Len(k) = Len(j) + 1 /\ Len(j) \in Nat
      /\ \A i \in 1..Len(j) : k[i] = j[i]
      /\ k[Len(k)] = record
      /\ 1..Len(k) = 1..Len(j) \cup {Len(k)}
  BY AppendIs
<1> QED
  BY <1>1 DEF IsHead

\* What is appended beside an admission inside only settles what crashed ones left.
LEMMA OthersKnowTurn ==
    ASSUME SlotInv, NEW p \in Proc, Frame(p), Grows(p), NEW q \in Proc \ {p},
           Holding(q) => ~Holding(p), KnowsTurn(st[q], journal)
    PROVE  KnowsTurn(st[q], journal)'
<1> DEFINE s == st[q]
<1>1. /\ st'[q] = s /\ journal \in Seq(Record) /\ Len(journal) \in Nat
      /\ KnowsSlots(s, journal) /\ KnowsSlots(st[p], journal) /\ s \in Locals
  BY DEF SlotInv, Shape, TypeOK, Frame
<1>2. Len(s.view) \in Nat
  BY <1>1 DEF Locals
<1>3. CASE journal' = journal
  BY <1>1, <1>3 DEF KnowsTurn
<1>4. CASE s.pc \notin {"judge", "prepare"} \cup Claiming
  BY <1>1, <1>4 DEF KnowsTurn, Claiming
<1>5. CASE journal' # journal /\ s.pc \in {"judge", "prepare"} \cup Claiming
  <2>1. s.attempt # 0
    BY <1>1, <1>5 DEF KnowsSlots, Claiming, Owning
  <2>2. Holding(q)
    BY <1>5, <2>1 DEF Holding, Reading, Claiming, Owning
  <2>3. ~At(p, "prepare") /\ ~At(p, "commit")
    BY <1>1, <2>2 DEF Holding, Reading, At, KnowsSlots
  <2>4. PICK record \in Record :
            /\ record.kind = "aborted" /\ journal' = Append(journal, record)
            /\ \E i \in Of(journal, "prepared") : journal[i].revision = record.revision
    BY <1>5, <2>3 DEF Grows, Origin
  <2>5. /\ Len(journal') = Len(journal) + 1
        /\ \A i \in 1..Len(journal) : journal'[i] = journal[i]
        /\ journal'[Len(journal')] = record
        /\ 1..Len(journal') = 1..Len(journal) \cup {Len(journal')}
    BY <1>1, <2>4, AppendIs
  <2>6. PICK i \in 1..Len(journal) : journal[i].revision = record.revision
    BY <2>4 DEF Of
  <2>7. s.pc = "judge" => \A k \in (Len(s.view) + 1)..Len(journal') : journal'[k].kind = "aborted"
    <3>1. \A k \in (Len(s.view) + 1)..Len(journal') :
                k \in (Len(s.view) + 1)..Len(journal) \/ k = Len(journal')
      BY <1>1, <1>2, <2>5
    <3>2. \A k \in (Len(s.view) + 1)..Len(journal) : k \in 1..Len(journal)
      BY <1>1, <1>2
    <3> QED
      BY <2>4, <2>5, <3>1, <3>2 DEF KnowsTurn
  <2>8. s.pc = "prepare" => \A k \in 1..Len(journal') : journal'[k].revision < s.revision
    BY <2>5, <2>6 DEF KnowsTurn
  <2>9. s.pc \in Claiming \cup {"prepare"} => IsHead(journal', Len(journal'), s.head)
    <3>1. record.kind # "committed"
      BY <2>4
    <3> QED
      BY <1>1, <2>4, <3>1, HeadKept DEF KnowsTurn
  <2>10. s.pc = "guard1" => Owned(s, journal')
    BY KeptFacts DEF KnowsTurn
  <2> HIDE DEF s
  <2>11. KnowsTurn(s, journal')
    BY <2>7, <2>8, <2>9, <2>10 DEF KnowsTurn
  <2> QED
    BY <1>1, <2>11 DEF KnowsTurn
<1> QED
  BY <1>3, <1>4, <1>5

\* A judged admission's slot is above all claimed ones, and its head is the journal's.
LEMMA JudgedKnowsTurn ==
    ASSUME SlotInv, NEW p \in Proc, At(p, "judge"), KnowsTurn(st[p], journal)
    PROVE  LET v == st[p].view IN
           /\ \A i \in 1..Len(journal) : journal[i].revision < highestClaimedRevision(v) + 1
           /\ IsHead(journal, Len(journal), committedHead(v))
<1> DEFINE v == st[p].view
           next == highestClaimedRevision(v) + 1
           h == committedHead(v)
<1>1. /\ st[p] \in Locals /\ v \in Seq(Record) /\ Len(v) \in Nat
      /\ journal \in Seq(Record) /\ Len(journal) \in Nat
      /\ Slots(journal) /\ Prefix(v, journal)
  BY DEF SlotInv, Shape, TypeOK, KnowsSlots, Locals
<1>2. /\ Len(v) <= Len(journal) /\ \A i \in 1..Len(v) : v[i] = journal[i]
  BY <1>1 DEF Prefix
<1>3. \A i \in 1..Len(journal) : i \in 1..Len(v) \/ journal[i].kind = "aborted"
  <2>1. \A i \in (Len(v) + 1)..Len(journal) : journal[i].kind = "aborted"
    BY DEF KnowsTurn, At
  <2>2. \A i \in 1..Len(journal) : i \in 1..Len(v) \/ i \in (Len(v) + 1)..Len(journal)
    BY <1>1, <1>2
  <2> QED
    BY <2>1, <2>2
<1>4. \A i \in 1..Len(v) : v[i].revision < next
  BY NextSlot
<1>5. IsHead(v, Len(v), h)
  BY <1>1, HeadIs
<1> HIDE DEF v, next, h
<1>6. ASSUME NEW i \in 1..Len(journal) PROVE journal[i].revision < next
  <2>1. PICK k \in Of(journal, "prepared") : journal[k].revision = journal[i].revision
    BY <1>1 DEF Slots
  <2>2. k \in 1..Len(journal) /\ journal[k].kind = "prepared"
    BY DEF Of
  <2>3. k \in 1..Len(v)
    BY <1>3, <2>2
  <2>4. v[k].revision < next /\ v[k] = journal[k]
    BY <1>2, <1>4, <2>3
  <2> QED
    BY <2>1, <2>4
<1>7. IsHead(journal, Len(journal), h)
  <2>1. \A i \in 1..Len(v) : i \in 1..Len(journal)
    BY <1>1, <1>2
  <2> QED
    BY <1>2, <1>3, <1>5, <2>1 DEF IsHead
<1> QED
  BY <1>6, <1>7 DEF v, next, h

\* What p knows of its turn after its own step.
LEMMA OwnKnowsTurn ==
    ASSUME SlotInv, CommitInv, NEW p \in Proc, Frame(p), Turn(p), Grows(p), ~torn,
           KnowsTurn(st[p], journal)
    PROVE  KnowsTurn(st[p], journal)'
<1> DEFINE s == st[p]
           n == st'[p]
<1>1. /\ s \in Locals /\ journal \in Seq(Record) /\ Len(journal) \in Nat
      /\ journal' \in Seq(Record) /\ KnowsSlots(s, journal)
  BY Later DEF SlotInv, Shape, TypeOK
<1>2. SUFFICES
        /\ n.pc = "judge" => \A i \in (Len(n.view) + 1)..Len(journal') : journal'[i].kind = "aborted"
        /\ n.pc = "prepare" => \A i \in 1..Len(journal') : journal'[i].revision < n.revision
        /\ n.pc \in Claiming \cup {"prepare"} => IsHead(journal', Len(journal'), n.head)
        /\ n.pc = "guard1" => Owned(n, journal')
  BY DEF KnowsTurn
<1>3. CASE Looks(p) \/ Rereads(p)
  <2>1. n.view = journal /\ journal' = journal
    BY <1>3 DEF Looks, Rereads, Stays
  <2>2. n.pc \notin Claiming \cup {"prepare"}
    BY <1>3 DEF Looks, Rereads, Claiming, Owning
  <2>3. \A i \in (Len(journal) + 1)..Len(journal) : FALSE
    BY <1>1
  <2> QED
    BY <2>1, <2>2, <2>3 DEF Claiming
<1>4. CASE Judges(p)
  <2>1. journal' = journal /\ At(p, "judge")
    BY <1>4 DEF Judges, Stays
  <2>2. n.pc \in {"prepare", "unlock"}
    BY <1>4 DEF Judges
  <2>3. n.pc = "prepare" => /\ n.head = committedHead(s.view)
                            /\ n.revision = highestClaimedRevision(s.view) + 1
    BY <1>4 DEF Judges
  <2> HIDE DEF n
  <2> QED
    BY <2>1, <2>2, <2>3, JudgedKnowsTurn DEF Claiming, Owning
<1>5. CASE Claims(p)
  <2> DEFINE record == RecordOf(s, "prepared")
  <2>1. /\ journal' = Append(journal, record) /\ n.pc = "guard1" /\ s.pc = "prepare"
        /\ Keeps(p) /\ n.head = s.head
    BY <1>5 DEF Claims, Records, At, Keeps
  <2>2. record \in Record /\ record.kind = "prepared" /\ record.revision = s.revision
    <3>1. s.attempt # 0 /\ s.revision # 0
      BY <1>1, <2>1 DEF KnowsSlots
    <3> QED
      BY <3>1, RecordType DEF RecordOf
  <2>3. /\ Len(journal') = Len(journal) + 1
        /\ \A i \in 1..Len(journal) : journal'[i] = journal[i]
        /\ journal'[Len(journal')] = record
        /\ 1..Len(journal') = 1..Len(journal) \cup {Len(journal')}
    BY <1>1, <2>1, <2>2, AppendIs
  <2>4. IsHead(journal', Len(journal'), n.head)
    <3>1. IsHead(journal, Len(journal), s.head) /\ record.kind # "committed"
      BY <2>1, <2>2 DEF KnowsTurn
    <3> HIDE DEF record
    <3> QED
      BY <1>1, <2>1, <2>2, <3>1, HeadKept
  <2>5. FirstOf(journal', Len(journal'))
    <3>1. ASSUME NEW k \in 1..(Len(journal') - 1) PROVE journal'[k].revision # record.revision
      <4>1. k \in 1..Len(journal)
        BY <1>1, <2>3
      <4>2. journal[k].revision < s.revision /\ journal[k].revision \in Nat \ {0}
        BY <1>1, <2>1, <4>1, JournalRange, Constants DEF KnowsTurn
      <4> QED
        BY <1>1, <2>2, <2>3, <4>1, <4>2
    <3> QED
      BY <2>3, <3>1 DEF FirstOf
  <2>6. Len(journal') \in Of(journal', "prepared")
    BY <2>2, <2>3 DEF Of
  <2>7. record = RecordOf(n, "prepared")
    BY <2>1, SameRecord
  <2>8. Owned(n, journal')
    BY <2>3, <2>5, <2>6, <2>7 DEF Owned
  <2> QED
    BY <2>1, <2>4, <2>8
<1>6. CASE Passes(p) \/ Fills(p)
  <2>1. journal' = journal /\ Keeps(p) /\ n.head = s.head /\ s.pc \in Claiming
    BY <1>6 DEF Passes, Fills, Stays, Keeps, At, Claiming, Owning
  <2>2. n.pc \in Owning
    BY <1>6 DEF Passes, Fills, Owning
  <2>3. IsHead(journal', Len(journal'), n.head)
    BY <2>1 DEF KnowsTurn
  <2> QED
    BY <2>2, <2>3 DEF Owning
<1>7. CASE ~Looks(p) /\ ~Rereads(p) /\ ~Judges(p) /\ ~Claims(p) /\ ~Passes(p) /\ ~Fills(p)
  <2>1. n.pc \notin Claiming \cup {"prepare", "judge"}
    BY <1>7 DEF Turn, Begins, Walks, Walking, Quits, Aborts, Waits, Settlement, Receives, Returns,
                Claiming, Owning
  <2> QED
    BY <2>1 DEF Claiming
<1> QED
  BY <1>3, <1>4, <1>5, <1>6, <1>7

\* An admission inside was so before, or comes in where no other is.
LEMMA ComesIn ==
    ASSUME SlotInv, NEW p \in Proc, Frame(p), Turn(p), Holding(p)'
    PROVE  Holding(p) \/ overlap' \/ \A q \in Proc \ {p} : ~Holding(q)
<1> DEFINE s == st[p]
           n == st'[p]
<1>1. n.attempt # 0 /\ n.pc \in
        {"reverify", "read", "recover", "reread", "judge", "prepare", "guard1", "writeBody",
         "writeEnvelope", "guard2", "commit", "receipt", "unlock"}
  BY DEF Holding, Reading
<1>2. /\ KnowsSlots(s, journal)
  BY DEF SlotInv
<1>3. CASE Walks(p)
  <2>1. Walking = {"reserve", "consumable", "verify", "open", "stat", "rmStale", "reverify"}
    BY DEF Walking
  <2>2. n.pc = "reverify" \/ n.pc = "read"
    BY <1>1, <1>3, <2>1 DEF Walks
  <2>3. n.pc = "read" => Holding(p)
    BY <1>1, <1>3 DEF Walks, Keeps, Carries, Holding, Reading, At
  <2> QED
    BY <1>3, <2>2, <2>3 DEF Walks
<1>4. CASE Begins(p) \/ Waits(p) \/ Returns(p)
  BY <1>1, <1>2, <1>4 DEF Begins, Waits, Keeps, Carries, KnowsSlots, At, Returns
<1>5. CASE Quits(p)
  BY <1>1, <1>5 DEF Quits
<1>6. CASE Looks(p) \/ Aborts(p) \/ Rereads(p) \/ Judges(p) \/ Claims(p) \/ Passes(p) \/ Fills(p)
            \/ Settlement(p) \/ Receives(p)
  <2>1. n.attempt = s.attempt
    BY <1>1, <1>6 DEF Looks, Aborts, Rereads, Judges, Claims, Passes, Fills, Settlement, Receives,
                      Records, Keeps, Carries
  <2>2. s.pc \in {"reverify", "read", "recover", "reread", "judge", "prepare", "guard1", "writeBody",
                  "writeEnvelope", "guard2", "commit", "receipt", "unlock"}
    BY <1>1, <1>6 DEF Looks, Aborts, Rereads, Judges, Claims, Passes, Fills, Settlement, Receives, At
  <2> QED
    BY <1>1, <2>1, <2>2 DEF Holding, Reading
<1> QED
  BY <1>3, <1>4, <1>5, <1>6 DEF Turn

\* No step answers that the store is corrupt or the slot lost.
LEMMA AnswersWell ==
    ASSUME SlotInv, CommitInv, TurnInv, NEW p \in Proc, Frame(p), Turn(p), Undisturbed, Undisturbed'
    PROVE  st'[p].result \notin {"lost", "corrupt"}
<1>1. /\ \A k \in Of(journal, "committed") : IsHead(journal, k - 1, journal[k].head)
      /\ KnowsTurn(st[p], journal)
      /\ st[p].result \notin {"lost", "corrupt"}
  BY DEF TurnInv
<1>2. Sound /\ ~torn'
  BY <1>1, LoneIsSound DEF Sound, Undisturbed
<1>3. KnowsSlots(st[p], journal) /\ st[p] \in Locals /\ Swept(journal)
  BY DEF SlotInv, Shape, CommitInv, AckedIsBound
<1>4. CASE Quits(p)
  <2>1. st[p].pc \in {"guard1", "guard2"} => settleGuard(p) = "none"
    <3> SUFFICES ASSUME st[p].pc \in {"guard1", "guard2"} PROVE settleGuard(p) = "none"
      OBVIOUS
    <3>1. Owned(st[p], journal)
      BY <1>1, <1>3 DEF KnowsTurn, KnowsSlots, Owning
    <3>2. IsHead(journal, Len(journal), st[p].head)
      BY <1>1 DEF KnowsTurn, Claiming, Owning
    <3> QED
      BY <1>2, <3>1, <3>2, GuardOpens
  <2>2. Swept(st[p].view)
    <3>1. st[p].view \in Seq(Record) /\ Prefix(st[p].view, journal)
      BY <1>3 DEF Locals, KnowsSlots
    <3> QED
      BY <3>1, SettledHolds DEF Swept
  <2>3. Excused(p) => st'[p].result = st[p].result
    BY <1>2, <2>1, <2>2 DEF Excused
  <2> QED
    BY <1>1, <1>4, <2>3 DEF Quits
<1>5. CASE Judges(p)
  <2>1. At(p, "judge")
    BY <1>5 DEF Judges
  <2>2. Verdict(p) \in {"keyConflict", "duplicate", "stale", "new"}
    BY <2>1, VerdictIsSound
  <2> QED
    BY <1>5, <2>2 DEF Judges
<1>6. CASE ~Quits(p) /\ ~Judges(p)
  <2>1. st'[p].result \in {st[p].result, "none", "ok"}
    BY <1>6 DEF Turn, Begins, Walks, Looks, Aborts, Rereads, Waits, Claims, Passes, Fills,
                Settlement, Receives, Returns, Records, Keeps
  <2> QED
    BY <1>1, <2>1
<1> QED
  BY <1>4, <1>5, <1>6

\* Every commit is made against the head before it.
LEMMA HeadsFollow ==
    ASSUME SlotInv, TurnInv, NEW p \in Proc, Frame(p), Grows(p), Undisturbed
    PROVE  \A k \in Of(journal', "committed") : IsHead(journal', k - 1, journal'[k].head)
<1>1. /\ \A k \in Of(journal, "committed") : IsHead(journal, k - 1, journal[k].head)
      /\ KnowsTurn(st[p], journal)
  BY DEF TurnInv
<1>2. /\ Len(journal) \in Nat /\ Len(journal') \in Nat /\ Len(journal) <= Len(journal')
      /\ \A i \in 1..Len(journal) : i \in 1..Len(journal') /\ journal'[i] = journal[i]
      /\ Of(journal, "committed") \subseteq 1..Len(journal)
  BY Later DEF Of
<1>3. ASSUME NEW n \in 0..Len(journal), NEW h, IsHead(journal, n, h) PROVE IsHead(journal', n, h)
  <2>1. \A i \in 1..n : journal'[i] = journal[i]
    BY <1>2
  <2> QED
    BY <1>3, <2>1 DEF IsHead
<1>4. ASSUME NEW k \in Of(journal, "committed") PROVE IsHead(journal', k - 1, journal'[k].head)
  <2>1. k - 1 \in 0..Len(journal) /\ journal'[k] = journal[k]
    BY <1>2
  <2> QED
    BY <1>1, <1>3, <2>1
<1>5. CASE /\ At(p, "commit")
           /\ Of(journal', "committed") = Of(journal, "committed") \cup {Len(journal) + 1}
           /\ journal'[Len(journal) + 1] = RecordOf(st[p], "committed")
  <2>1. IsHead(journal, Len(journal), st[p].head)
    BY <1>1, <1>5 DEF KnowsTurn, At, Claiming, Owning
  <2>2. IsHead(journal', Len(journal), st[p].head) /\ (Len(journal) + 1) - 1 = Len(journal)
    BY <1>2, <1>3, <2>1
  <2>3. journal'[Len(journal) + 1].head = st[p].head
    BY <1>5 DEF RecordOf
  <2> QED
    BY <1>4, <1>5, <2>2, <2>3
<1> QED
  BY <1>4, <1>5, CommittedAfter

\* The fourth layer of the invariant is kept.
LEMMA TurnStep ==
    ASSUME SlotInv, CommitInv, TurnInv, [Next]_vars PROVE TurnInv'
<1>1. CASE Rests
  BY <1>1 DEF Rests, TurnInv, Undisturbed, KnowsTurn, Holding, Reading, historyVars
<1>2. ASSUME NEW p \in Proc, Frame(p), Turn(p), Undisturbed'
      PROVE  /\ \A k \in Of(journal', "committed") : IsHead(journal', k - 1, journal'[k].head)
             /\ \A q, r \in Proc : Holding(q)' /\ Holding(r)' => q = r
             /\ \A q \in Proc : KnowsTurn(st[q], journal)'
             /\ \A q \in Proc : st'[q].result \notin {"lost", "corrupt"}
  <2>1. Grows(p)
    BY <1>2, TurnGrows
  <2>2. Undisturbed
    BY <1>2 DEF Undisturbed, Frame, SlotInv, Shape, TypeOK
  <2>3. /\ \A q, r \in Proc : Holding(q) /\ Holding(r) => q = r
        /\ \A q \in Proc : KnowsTurn(st[q], journal)
        /\ \A q \in Proc : st[q].result \notin {"lost", "corrupt"}
    BY <2>2 DEF TurnInv
  <2>4. \A q \in Proc \ {p} : Holding(q)' <=> Holding(q)
    BY <1>2 DEF Frame, Holding, Reading
  <2>5. Holding(p)' => \A q \in Proc \ {p} : ~Holding(q)
    BY <1>2, <2>3, ComesIn DEF Undisturbed
  <2>6. \A q, r \in Proc : Holding(q)' /\ Holding(r)' => q = r
    BY <2>3, <2>4, <2>5
  <2>7. ASSUME NEW q \in Proc PROVE KnowsTurn(st[q], journal)'
    <3>1. CASE q = p
      BY <1>2, <2>1, <2>2, <2>3, <3>1, OwnKnowsTurn DEF Undisturbed
    <3>2. CASE q # p
      <4>1. Holding(q) => ~Holding(p)
        BY <2>3, <3>2
      <4>2. q \in Proc \ {p} /\ KnowsTurn(st[q], journal)
        BY <2>3, <3>2
      <4> QED
        BY <1>2, <2>1, <4>1, <4>2, OthersKnowTurn
    <3> QED
      BY <3>1, <3>2
  <2>8. ASSUME NEW q \in Proc PROVE st'[q].result \notin {"lost", "corrupt"}
    <3>1. q # p => st'[q] = st[q]
      BY <1>2 DEF Frame
    <3> QED
      BY <1>2, <2>2, <2>3, <3>1, AnswersWell
  <2> QED
    BY <1>2, <2>1, <2>2, <2>6, <2>7, <2>8, HeadsFollow
<1>3. ASSUME NEW p \in Proc, Frame(p), Turn(p) PROVE TurnInv'
  BY <1>2, <1>3 DEF TurnInv
<1> QED
  BY <1>1, <1>3, NextForm

---------------------------------------------------------------------------
(* The approvals are accounted for.                                        *)

\* An admission keeps the approval it was made under.
LEMMA StepVia ==
    ASSUME SlotInv, NEW p \in Proc, Step(p)
    PROVE  st'[p].via = st[p].via /\ st[p].pc \notin {"idle", "reserve", "consumable", "elsewhere", "admitted"}
<1>1. st \in [Proc -> Locals] /\ st[p] \in Locals
  BY DEF SlotInv, Shape
<1>2. ASSUME NEW x, Goto(p, x) PROVE st'[p].via = st[p].via
  <2>1. st' = [st EXCEPT ![p] = [st[p] EXCEPT !.pc = x]]
    BY <1>2 DEF Goto
  <2> QED
    BY <1>1, <2>1 DEF Locals
<1>3. ASSUME NEW r, Finish(p, r) PROVE st'[p].via = st[p].via
  <2>1. st' = [st EXCEPT ![p] = [[st[p] EXCEPT !.pc = "unlock"] EXCEPT !.result = r]]
    BY <1>3 DEF Finish
  <2> QED
    BY <1>1, <2>1 DEF Locals
<1>4. ASSUME NEW r, Leave(p, r) PROVE st'[p].via = st[p].via
  BY <1>1, <1>4 DEF Leave, Idle
<1>5. ASSUME NEW x, See(p, x) PROVE st'[p].via = st[p].via
  BY <1>1, <1>5 DEF See, Locals
<1>6. CASE Verify(p) \/ Open(p) \/ Stat(p) \/ RmStale(p) \/ Reverify(p) \/ Read(p)
  <2>1. st[p].pc \notin {"idle", "reserve", "consumable", "elsewhere", "admitted"}
    BY <1>6 DEF Verify, Open, Stat, RmStale, Reverify, Read, At
  <2>2. CASE Verify(p) \/ Open(p) \/ RmStale(p)
    BY <1>2, <1>4, <2>1, <2>2 DEF Verify, Open, RmStale
  <2>3. CASE Stat(p)
    <3>1. (\E x : Goto(p, x)) \/ (\E r : Leave(p, r)) \/ lock \notin {"none", "old", "fresh"}
      BY <2>3 DEF Stat
    <3>2. lock \in {"none", "old", "fresh"}
      BY DEF SlotInv, Shape, TypeOK
    <3> QED
      BY <1>2, <1>4, <2>1, <3>1, <3>2
  <2>4. CASE Reverify(p) \/ Read(p)
    BY <1>2, <1>3, <1>5, <2>1, <2>4 DEF Reverify, Read
  <2> QED
    BY <1>6, <2>1, <2>2, <2>3, <2>4
<1>7. CASE Recover(p)
  <2>1. CASE st' = [st EXCEPT ![p].todo = @ \ {Min(st[p].todo)},
                              ![p].pc = IF st[p].todo = {Min(st[p].todo)} THEN "reread" ELSE @]
    BY <1>1, <1>7, <2>1 DEF Recover, At, Locals
  <2>2. CASE Fail(p, "io")
    BY <1>3, <1>4, <1>7, <2>2 DEF Recover, At, Fail
  <2> QED
    BY <1>7, <2>1, <2>2 DEF Recover
<1>8. CASE Reread(p)
  BY <1>1, <1>3, <1>4, <1>8 DEF Reread, At, Fail, Locals
<1>9. CASE Judge(p)
  <2>1. st[p].pc = "judge"
    BY <1>9 DEF Judge, At
  <2>2. \E pc, result, head, revision :
            st' = [st EXCEPT ![p].pc = pc, ![p].result = result, ![p].head = head,
                             ![p].revision = revision, ![p].view = <<>>]
    BY <1>9 DEF Judge
  <2> QED
    BY <1>1, <2>1, <2>2 DEF Locals
<1>10. CASE Prepare(p) \/ Guard1(p) \/ Guard2(p) \/ Commit(p) \/ Receipt(p)
  BY <1>2, <1>3, <1>10 DEF Prepare, Guard1, Guard2, Commit, Receipt, Write, Guard, At
<1>11. CASE WriteBody(p) \/ WriteEnvelope(p)
  BY <1>2, <1>3, <1>11 DEF WriteBody, WriteEnvelope, WriteHalf, At
<1>12. CASE Unlock(p) \/ InFlight(p) \/ Sweep(p)
  BY <1>2, <1>4, <1>12 DEF Unlock, InFlight, Sweep, At
<1> QED
  BY <1>6, <1>7, <1>8, <1>9, <1>10, <1>11, <1>12 DEF Step

\* A Decision that is committed stays so.
LEMMA BackedKept ==
    ASSUME SlotInv, NEW p \in Proc, Grows(p), NEW event, Backed(event),
           event.identity # Here => others'[event.identity] = others[event.identity]
    PROVE  Backed(event)'
<1>1. CASE event.identity = Here
  <2>1. Settles(journal, event.revision, [body |-> event.body, expected |-> 0])
    BY <1>1 DEF Backed, Settles
  <2>2. Settles(journal', event.revision, [body |-> event.body, expected |-> 0])
    BY <2>1, KeptFacts
  <2> QED
    BY <1>1, <2>2 DEF Backed, Settles
<1>2. CASE event.identity # Here
  BY <1>2 DEF Backed
<1> QED
  BY <1>1, <1>2

\* An approval of which nothing is recorded or settled stays accounted for.
LEMMA AccountKept ==
    ASSUME NEW a \in Approval, Accounted(a),
           settled'[a] = settled[a], consumed'[a] = consumed[a],
           consumed[a] # <<>> /\ "revoked" \in approvals'[a] => "revoked" \in approvals[a],
           \A n \in 1..Len(consumed[a]) : Backed(consumed[a][n]) => Backed(consumed[a][n])',
           faults \in Nat, faults' \in Nat, faults <= faults',
           Pending(a) => Pending(a)' \/ faults < faults'
    PROVE  Accounted(a)'
<1>1. Orphans(a)' = Orphans(a)
  BY DEF Orphans, Cited
<1>2. Cardinality(Orphans(a)) \in Nat
  <2>1. IsFiniteSet(Orphans(a))
    BY FS_Subset DEF Accounted, Orphans
  <2> QED
    BY <2>1, FS_CardinalityType
<1>3. Cardinality(Orphans(a))' <= faults' + (IF Pending(a)' THEN 1 ELSE 0)
  <2>1. Cardinality(Orphans(a)) <= faults + (IF Pending(a) THEN 1 ELSE 0)
    BY DEF Accounted
  <2> HIDE DEF Orphans, Pending
  <2> QED
    BY <1>1, <1>2, <2>1
<1>4. \A n \in 1..Len(consumed'[a]) : Backed(consumed[a][n])'
  BY DEF Accounted
<1> QED
  BY <1>3, <1>4 DEF Accounted

\* A writer that another process's step leaves alone is still about to cite, unless a
\* line was cut.
LEMMA StillPending ==
    ASSUME NEW p \in Proc, Frame(p), NEW a \in Approval, Pending(a),
           writer' = writer, writer # p, writer \in Proc \cup {None},
           decision'[writer] = decision[writer], settled[a] \subseteq settled'[a]
    PROVE  Pending(a)' \/ faults < faults'
<1>1. writer \in Proc \ {p} /\ st'[writer] = st[writer] /\ (torn' = torn \/ faults < faults')
  BY DEF Pending, Frame
<1> QED
  BY <1>1 DEF Pending, Citing, DecisionOf

\* What a step of p needs to show; the others keep what they know.
LEMMA CallAccounts ==
    ASSUME SlotInv, ApprovalInv, NEW p \in Proc, Frame(p), Turn(p),
           ApprovalsTypeOK',
           Inside(p)' <=> writer' = p,
           \A q \in Proc \ {p} : (writer' = q <=> writer = q),
           KnowsApproval(p)',
           \A q \in Proc \ {p} : decision'[q] = decision[q],
           \A q \in Proc \ {p} : Inside(q) => /\ approvals'[st[q].via] = approvals[st[q].via]
                                              /\ consumed'[st[q].via] = consumed[st[q].via],
           \A i \in Elsewhere : others[i] # None => others'[i] = others[i],
           \A a \in Approval : Accounted(a)'
    PROVE  ApprovalInv'
<1>1. /\ \A q \in Proc : Inside(q) <=> writer = q
      /\ \A q \in Proc : KnowsApproval(q)
      /\ \A q \in Proc \ {p} : st'[q] = st[q]
      /\ Grows(p)
  BY TurnGrows DEF ApprovalInv, Frame
<1>2. ASSUME NEW q \in Proc PROVE Inside(q)' <=> writer' = q
  BY <1>1 DEF Inside
<1>3. ASSUME NEW q \in Proc \ {p} PROVE KnowsApproval(q)'
  <2>1. st'[q] = st[q] /\ decision'[q] = decision[q] /\ KnowsApproval(q)
    BY <1>1
  <2>2. At(q, "admitted") /\ st[q].result = "ok" => Backed(EventOf(q))'
    <3> SUFFICES ASSUME At(q, "admitted"), st[q].result = "ok" PROVE Backed(EventOf(q))'
      OBVIOUS
    <3>1. Backed(EventOf(q)) /\ decision[q] \in Named
      BY <2>1 DEF KnowsApproval, At
    <3>2. EventOf(q)' = EventOf(q)
      BY <2>1 DEF EventOf
    <3> DEFINE event == EventOf(q)
    <3>3. event.identity # Here => others'[event.identity] = others[event.identity]
      <4>1. event.identity \in Identity /\ event.body \in Body
        BY <3>1 DEF EventOf, Named
      <4>2. event.identity # Here => event.identity \in Elsewhere /\ others[event.identity] # None
        BY <3>1, <4>1, Constants DEF Backed, Identity
      <4> QED
        BY <4>2
    <3> HIDE DEF event
    <3>4. Backed(event)'
      BY <1>1, <3>1, <3>2, <3>3, BackedKept DEF event
    <3> QED
      BY <3>4 DEF event
  <2>3. Inside(q) => /\ approvals'[st[q].via] = approvals[st[q].via]
                     /\ consumed'[st[q].via] = consumed[st[q].via]
    OBVIOUS
  <2> QED
    BY <2>1, <2>2, <2>3 DEF KnowsApproval, Consumable, Inside, At
<1>4. \A q \in Proc : KnowsApproval(q)'
  BY <1>3
<1> QED
  BY <1>2, <1>4 DEF ApprovalInv

\* What the consumptions of an approval are.
LEMMA EventIs ==
    ASSUME ApprovalsTypeOK, NEW a \in Approval, NEW n \in 1..Len(consumed[a]),
           Backed(consumed[a][n])
    PROVE  LET identity == consumed[a][n].identity IN
           identity # Here => identity \in Elsewhere /\ others[identity] # None
<1>1. consumed[a] \in Seq(Event)
  BY DEF ApprovalsTypeOK, Event
<1>2. consumed[a][n] \in Event
  BY <1>1
<1> QED
  BY <1>2, Constants DEF Event, Identity, Backed

\* The approvals that a step records and settles nothing of.
LEMMA CallKeepsAccount ==
    ASSUME SlotInv, ApprovalInv, NEW p \in Proc, Frame(p), Turn(p), NEW a \in Approval,
           settled'[a] = settled[a], consumed'[a] = consumed[a], approvals'[a] = approvals[a],
           \A i \in Elsewhere : others[i] # None => others'[i] = others[i],
           Pending(a) => Pending(a)' \/ faults < faults'
    PROVE  Accounted(a)'
<1>1. Accounted(a) /\ ApprovalsTypeOK /\ Grows(p)
  BY TurnGrows DEF ApprovalInv
<1>2. ASSUME NEW n \in 1..Len(consumed[a]), Backed(consumed[a][n])
      PROVE  Backed(consumed[a][n])'
  <2> DEFINE event == consumed[a][n]
  <2>1. event.identity # Here => others'[event.identity] = others[event.identity]
    BY <1>1, <1>2, EventIs
  <2>2. event' = event
    BY DEF event
  <2>3. Backed(event)
    BY <1>2
  <2> HIDE DEF event
  <2>4. Backed(event)'
    BY <1>1, <2>1, <2>2, <2>3, BackedKept
  <2> QED
    BY <2>4 DEF event
<1>3. faults \in Nat /\ faults' \in Nat /\ faults <= faults'
  BY DEF SlotInv, Shape, Frame
<1> QED
  BY <1>1, <1>2, <1>3, AccountKept

\* What is known of a process without an approval.
LEMMA NoApproval ==
    ASSUME NEW q \in Proc, st'[q].via = None,
           st'[q].pc \notin {"reserve", "consumable", "elsewhere", "admitted"}
    PROVE  KnowsApproval(q)' /\ ~Inside(q)'
BY DEF KnowsApproval, Inside, At

\* What an admission knows of its approval after its own step.
LEMMA OwnStepKnows ==
    ASSUME SlotInv, CommitInv, NEW p \in Proc, Step(p), Frame(p), Turn(p), Grows(p),
           KnowsApproval(p), UNCHANGED <<approvals, consumed, decision>>
    PROVE  KnowsApproval(p)'
<1> DEFINE s == st[p]
           n == st'[p]
<1>1. s \in Locals /\ n \in Locals /\ KnowsSlots(s, journal)
  BY DEF SlotInv, Shape, Frame
<1>2. n.via = s.via /\ s.pc \notin {"idle", "reserve", "consumable", "elsewhere", "admitted"}
  BY StepVia
<1>3. ~Begins(p) /\ ~At(p, "idle") /\ ~At(p, "elsewhere")
  BY <1>2 DEF Begins, At
<1>4. /\ n.pc = "idle" => n.via = None
      /\ n.pc \in {"reserve", "consumable", "elsewhere", "admitted"} => n.via # None
      /\ n.pc # "elsewhere"
  <2>1. CASE Quits(p)
    BY <1>2, <1>3, <2>1 DEF Quits
  <2>2. CASE Returns(p)
    BY <2>2 DEF Returns
  <2>3. CASE Walks(p)
    <3>1. n.pc \in (Walking \ {"reserve", "consumable"}) \cup {"read"}
      BY <1>2, <2>3 DEF Walks, At
    <3> QED
      BY <3>1 DEF Walking
  <2>4. CASE ~Quits(p) /\ ~Returns(p) /\ ~Walks(p)
    BY <1>3, <2>4 DEF Turn, Looks, Aborts, Rereads, Waits, Judges, Claims, Passes, Fills,
                Settlement, Receives
  <2> QED
    BY <2>1, <2>2, <2>3, <2>4
<1>5. n.attempt # 0 => n.content = s.content /\ n.attempt = s.attempt
  BY <1>3 DEF Turn, Walks, Quits, Looks, Aborts, Rereads, Waits, Judges, Claims, Passes, Fills,
              Settlement, Receives, Returns, Records, Keeps, Carries
<1>6. n.pc = "admitted" /\ n.result = "ok" => Backed(EventOf(p))'
  <2> SUFFICES ASSUME n.pc = "admitted", n.result = "ok" PROVE Backed(EventOf(p))'
    OBVIOUS
  <2>1. Returns(p)
    BY <1>3 DEF Turn, Walks, Walking, Quits, Looks, Aborts, Rereads, Waits, Judges, Claims, Passes,
                Fills, Settlement, Receives
  <2>2. /\ s.pc = "unlock" /\ s.result = "ok" /\ n.revision = s.revision /\ journal' = journal
        /\ s.via # None
    BY <2>1 DEF Returns, At
  <2>3. Settles(journal, s.revision, s.content)
    BY <2>2 DEF CommitInv, KnowsCommits
  <2>4. s.attempt # 0
    BY <1>1, <2>2 DEF KnowsSlots
  <2>5. s.content = [body |-> decision[p].body, expected |-> 0] /\ decision[p].identity = Here
    BY <2>2, <2>4 DEF KnowsApproval
  <2>6. Settles(journal', n.revision, [body |-> decision'[p].body, expected |-> 0])
    BY <2>2, <2>3, <2>5
  <2>7. /\ EventOf(p)'.identity = Here /\ EventOf(p)'.revision = n.revision
        /\ EventOf(p)'.body = decision'[p].body
    BY <2>5 DEF EventOf
  <2> HIDE DEF s, n
  <2> QED
    BY <2>6, <2>7 DEF Backed, Settles
<1> QED
  BY <1>2, <1>4, <1>5, <1>6 DEF KnowsApproval, Consumable, At

\* A Decision more is one orphan more at most.
LEMMA OrphanAdded ==
    ASSUME NEW S, IsFiniteSet(S), NEW C, NEW d
    PROVE  /\ IsFiniteSet(S \cup {d})
           /\ Cardinality(S \ C) \in Nat /\ Cardinality((S \cup {d}) \ C) \in Nat
           /\ Cardinality((S \cup {d}) \ C) <= Cardinality(S \ C) + 1
<1>1. IsFiniteSet(S \ C) /\ Cardinality(S \ C) \in Nat
  BY FS_Subset, FS_CardinalityType
<1>2. /\ IsFiniteSet((S \ C) \cup {d})
      /\ Cardinality((S \ C) \cup {d}) \in Nat
      /\ Cardinality((S \ C) \cup {d}) <= Cardinality(S \ C) + 1
  <2> DEFINE T == S \ C
  <2>1. IsFiniteSet(T) /\ Cardinality(T) \in Nat
    BY <1>1
  <2> HIDE DEF T
  <2>2. /\ IsFiniteSet(T \cup {d})
        /\ Cardinality(T \cup {d}) = IF d \in T THEN Cardinality(T) ELSE Cardinality(T) + 1
    BY <2>1, FS_AddElement
  <2>3. /\ Cardinality(T \cup {d}) \in Nat /\ Cardinality(T \cup {d}) <= Cardinality(T) + 1
    BY <2>1, <2>2
  <2> QED
    BY <2>2, <2>3 DEF T
<1>3. (S \cup {d}) \ C \in SUBSET ((S \ C) \cup {d})
  OBVIOUS
<1>4. /\ IsFiniteSet((S \cup {d}) \ C) /\ Cardinality((S \cup {d}) \ C) \in Nat
      /\ Cardinality((S \cup {d}) \ C) <= Cardinality((S \ C) \cup {d})
  BY <1>2, <1>3, FS_Subset, FS_CardinalityType
<1>5. IsFiniteSet(S \cup {d})
  BY FS_AddElement
<1> QED
  BY <1>1, <1>2, <1>4, <1>5

\* A Decision settled by the writer, which is about to cite it.
LEMMA SettledAccounts ==
    ASSUME SlotInv, ApprovalInv, NEW p \in Proc, Frame(p), Turn(p), NEW a \in Approval,
           \E d : settled'[a] = settled[a] \cup {d}, consumed' = consumed, approvals' = approvals,
           \A i \in Elsewhere : others[i] # None => others'[i] = others[i],
           ~Pending(a), Pending(a)'
    PROVE  Accounted(a)'
<1>1. Accounted(a) /\ ApprovalsTypeOK /\ Grows(p)
  BY TurnGrows DEF ApprovalInv
<1>2. ASSUME NEW n \in 1..Len(consumed[a]) PROVE Backed(consumed[a][n])'
  <2> DEFINE event == consumed[a][n]
  <2>1. Backed(event)
    BY <1>1, <1>2 DEF Accounted
  <2>2. event.identity # Here => others'[event.identity] = others[event.identity]
    BY <1>1, <1>2, <2>1, EventIs
  <2>3. event' = event
    BY DEF event
  <2> HIDE DEF event
  <2>4. Backed(event)'
    BY <1>1, <2>1, <2>2, <2>3, BackedKept
  <2> QED
    BY <2>4 DEF event
<1>3. faults \in Nat /\ faults' \in Nat /\ faults <= faults'
  BY DEF SlotInv, Shape, Frame
<1>4. Cited(a)' = Cited(a)
  BY DEF Cited
<1>5. /\ IsFiniteSet(settled'[a])
      /\ Cardinality(Orphans(a)) \in Nat /\ Cardinality(Orphans(a)') \in Nat
      /\ Cardinality(Orphans(a)') <= Cardinality(Orphans(a)) + 1
  <2>1. PICK d : settled'[a] = settled[a] \cup {d}
    OBVIOUS
  <2>2. IsFiniteSet(settled[a])
    BY <1>1 DEF Accounted
  <2>3. /\ Orphans(a)' = (settled[a] \cup {d}) \ Cited(a)
        /\ Orphans(a) = settled[a] \ Cited(a)
    BY <1>4, <2>1 DEF Orphans
  <2> DEFINE S == settled[a]
             C == Cited(a)
  <2>4. /\ IsFiniteSet(S \cup {d})
        /\ Cardinality(S \ C) \in Nat /\ Cardinality((S \cup {d}) \ C) \in Nat
        /\ Cardinality((S \cup {d}) \ C) <= Cardinality(S \ C) + 1
    <3>1. IsFiniteSet(S)
      BY <2>2
    <3> HIDE DEF S, C
    <3> QED
      BY <3>1, OrphanAdded
  <2> QED
    BY <2>1, <2>3, <2>4
<1>6. Cardinality(Orphans(a)) <= faults
  BY <1>1, <1>3 DEF Accounted
<1>7. Cardinality(Orphans(a)') <= faults' + 1
  BY <1>3, <1>5, <1>6
<1> QED
  BY <1>1, <1>2, <1>5, <1>7 DEF Accounted

\* An admission leaves the approvals accounted for.
LEMMA AdmissionAccounts ==
    ASSUME SlotInv, CommitInv, ApprovalInv, NEW p \in Proc, AdmissionStep(p) PROVE ApprovalInv'
<1> DEFINE b == st[p].via
           d == DecisionOf(p, st[p].revision)
<1>1. Step(p) /\ UNCHANGED <<approvals, consumed, writer, decision, others>>
  BY DEF AdmissionStep
<1>2. Frame(p) /\ Turn(p)
  BY <1>1, StepTurn
<1>3. Grows(p)
  BY <1>2, TurnGrows
<1>4. /\ \A q \in Proc : Inside(q) <=> writer = q
      /\ \A q \in Proc : KnowsApproval(q)
      /\ \A a \in Approval : Accounted(a)
      /\ ApprovalsTypeOK
  BY DEF ApprovalInv
<1>5. /\ st[p] \in Locals /\ b \in Approval \cup {None} /\ writer \in Proc \cup {None}
      /\ settled \in [Approval -> SUBSET Decision]
      /\ st \in [Proc -> Locals] /\ st[p].revision \in 0..MaxCalls
      /\ KnowsSlots(st[p], journal)
  BY <1>4 DEF SlotInv, Shape, ApprovalsTypeOK, Locals
<1>6. /\ st'[p].via = b /\ \A q \in Proc \ {p} : st'[q] = st[q]
      /\ st[p].pc \notin {"idle", "reserve", "consumable", "elsewhere", "admitted"}
  BY <1>1, <1>2, StepVia DEF Frame
<1>7. KnowsApproval(p)'
  BY <1>1, <1>2, <1>3, <1>4, OwnStepKnows
<1>8. st'[p].via # None => st'[p].pc # "reserve"
  <2>1. ~Begins(p)
    BY <1>6 DEF Begins, At
  <2> QED
    BY <1>2, <2>1 DEF Turn, Walks, Walking, Quits, Looks, Aborts, Rereads, Waits, Judges, Claims,
            Passes, Fills, Settlement, Receives, Returns
<1>9. Inside(p)' <=> writer' = p
  BY <1>1, <1>4, <1>6, <1>8 DEF Inside
<1>10. \/ settled' = settled
       \/ /\ At(p, "commit") /\ b # None /\ journal' # journal
          /\ settled' = [settled EXCEPT ![b] = @ \cup {d}]
  BY DEF AdmissionStep
<1>11. b # None => writer = p
  BY <1>4, <1>6 DEF Inside
<1>12. CASE settled' = settled
  <2>1. ApprovalsTypeOK'
    BY <1>1, <1>4, <1>12 DEF ApprovalsTypeOK
  <2>2. ASSUME NEW a \in Approval, Pending(a) PROVE Pending(a)' \/ faults < faults'
    <3>1. CASE writer # p
      BY <1>1, <1>2, <1>5, <1>12, <2>2, <3>1, StillPending
    <3>2. CASE writer = p
      <4>1. /\ st[p].via = a /\ Citing(st[p]) /\ d \in settled[a]
        BY <2>2, <3>2 DEF Pending
      <4>2. st'[p].pc \in {"unlock", "admitted"} /\ st'[p].result = "ok"
                /\ st'[p].revision = st[p].revision
        <5>1. CASE st[p].pc = "receipt" /\ ~torn
          <6>1. Receipt(p)
            BY <1>1, <5>1 DEF Step, Verify, Open, Stat, RmStale, Reverify, Read, Recover, Reread,
                  Judge, Prepare, Guard1, WriteBody, WriteEnvelope, Guard2, Commit, Unlock,
                  InFlight, Sweep, At
          <6>2. Finish(p, "ok") /\ "ok" \in Results
            BY <5>1, <6>1 DEF Receipt, Results
          <6> QED
            BY <1>5, <6>2, FinishIs
        <5>2. CASE st[p].pc = "unlock" /\ st[p].result = "ok"
          <6>1. Unlock(p)
            BY <1>1, <5>2 DEF Step, Verify, Open, Stat, RmStale, Reverify, Read, Recover, Reread,
                  Judge, Prepare, Guard1, WriteBody, WriteEnvelope, Guard2, Commit, Receipt,
                  InFlight, Sweep, At
          <6>2. Leave(p, "ok") /\ "ok" \in Results
            BY <5>2, <6>1 DEF Unlock, Results
          <6>3. b # None
            BY <4>1, Constants
          <6> QED
            BY <1>5, <6>2, <6>3, LeaveIs
        <5> QED
          BY <1>6, <4>1, <5>1, <5>2 DEF Citing
      <4>3. writer' = p /\ p # None /\ st'[p].via = a /\ settled'[a] = settled[a]
        BY <1>1, <1>6, <1>12, <3>2, <4>1, Constants
      <4> QED
        BY <1>1, <4>1, <4>2, <4>3 DEF Pending, Citing, DecisionOf
    <3> QED
      BY <3>1, <3>2
  <2>3. ASSUME NEW a \in Approval PROVE Accounted(a)'
    BY <1>1, <1>2, <1>12, <2>2, CallKeepsAccount
  <2> QED
    BY <1>1, <1>2, <1>7, <1>9, <2>1, <2>3, CallAccounts
<1>13. CASE /\ At(p, "commit") /\ b # None /\ journal' # journal
            /\ settled' = [settled EXCEPT ![b] = @ \cup {d}]
  <2>1. b \in Approval /\ writer = p /\ decision[p] \in Named
    BY <1>4, <1>5, <1>11, <1>13 DEF KnowsApproval
  <2>2. d \in Decision
    <3>1. st[p].revision # 0
      BY <1>5, <1>13 DEF KnowsSlots, At, Claiming, Owning
    <3>2. st[p].revision \in Revision
      BY <1>5, <3>1, Constants DEF Revision
    <3> QED
      BY <2>1, <3>2 DEF DecisionOf, Decision, Named
  <2>3. ApprovalsTypeOK'
    BY <1>1, <1>4, <1>5, <1>13, <2>1, <2>2 DEF ApprovalsTypeOK
  <2>4. \A a \in Approval : ~Pending(a)
    BY <1>13, <2>1 DEF Pending, Citing, At
  <2>5. ASSUME NEW a \in Approval, a = b PROVE Pending(a)'
    <3>1. Settlement(p)
      BY <1>2, <1>13 DEF Turn, Begins, Walks, Walking, Quits, Looks, Aborts, Rereads, Waits, Judges,
            Claims, Passes, Fills, Settlement, Receives, Returns, Stays, At
    <3>2. st'[p].pc = "receipt" /\ st'[p].revision = st[p].revision /\ ~torn'
      <4>1. torn \in BOOLEAN
        BY DEF SlotInv, Shape, TypeOK
      <4> QED
        BY <1>13, <3>1, <4>1 DEF Settlement, Records, Keeps
    <3>3. settled'[a] = settled[a] \cup {d} /\ writer' = p /\ p # None /\ st'[p].via = a
      BY <1>1, <1>5, <1>6, <1>13, <2>1, <2>5, Constants
    <3> QED
      BY <1>1, <3>2, <3>3 DEF Pending, Citing, DecisionOf
  <2>6. ASSUME NEW a \in Approval PROVE Accounted(a)'
    <3>1. CASE a = b
      <4>1. \E e : settled'[a] = settled[a] \cup {e}
        BY <1>5, <1>13, <3>1
      <4>2. ~Pending(a) /\ Pending(a)'
        BY <2>4, <2>5, <3>1
      <4> QED
        BY <1>1, <1>2, <4>1, <4>2, SettledAccounts
    <3>2. CASE a # b
      <4>1. settled'[a] = settled[a]
        BY <1>5, <1>13, <3>2
      <4> QED
        BY <1>1, <1>2, <2>4, <4>1, CallKeepsAccount
    <3> QED
      BY <3>1, <3>2
  <2> QED
    BY <1>1, <1>2, <1>7, <1>9, <2>3, <2>6, CallAccounts
<1> QED
  BY <1>10, <1>12, <1>13

\* A call that begins, or a reader's.
LEMMA BeginsAccount ==
    ASSUME SlotInv, ApprovalInv, NEW p \in Proc, Admit(p) \/ Show(p), UNCHANGED approvalVars
    PROVE  ApprovalInv'
<1>1. Frame(p) /\ Turn(p) /\ At(p, "idle")
  BY AdmitTurn, ShowTurn DEF Admit, Show
<1>2. /\ \A q \in Proc : Inside(q) <=> writer = q
      /\ KnowsApproval(p) /\ ApprovalsTypeOK
      /\ UNCHANGED <<approvals, consumed, writer, decision, others, settled>>
      /\ writer \in Proc \cup {None}
  BY DEF ApprovalInv, ApprovalsTypeOK, approvalVars, decisionVars
<1>3. st[p].via = None /\ writer # p
  BY <1>1, <1>2 DEF KnowsApproval, At, Inside
<1>4. st'[p].via = None /\ st'[p].pc \notin {"reserve", "consumable", "elsewhere", "admitted"}
  <2>1. CASE Admit(p)
    <3>1. PICK key, content : st' = [st EXCEPT ![p] = [Idle EXCEPT !.pc = "verify", !.key = key,
                                        !.attempt = calls + 1, !.content = content]]
      BY <2>1 DEF Admit
    <3> QED
      BY <3>1 DEF SlotInv, Shape, Idle
  <2>2. CASE Show(p)
    <3>1. \/ st' = [st EXCEPT ![p] = [Idle EXCEPT !.result = "corrupt"]]
          \/ \E todo, pc : /\ pc \in {"inFlight", "sweep"}
                           /\ st' = [st EXCEPT ![p] = [Idle EXCEPT !.view = journal, !.todo = todo,
                                                                   !.pc = pc]]
      BY <2>2 DEF Show
    <3> QED
      BY <3>1 DEF SlotInv, Shape, Idle
  <2> QED
    BY <2>1, <2>2
<1>5. KnowsApproval(p)' /\ ~Inside(p)'
  BY <1>4, NoApproval
<1>6. ASSUME NEW a \in Approval PROVE Accounted(a)'
  BY <1>1, <1>2, <1>3, StillPending, CallKeepsAccount
<1>7. ApprovalsTypeOK'
  BY <1>2 DEF ApprovalsTypeOK
<1> QED
  BY <1>1, <1>2, <1>3, <1>5, <1>6, <1>7, CallAccounts

\* A crash is counted.
LEMMA CrashAccounts ==
    ASSUME SlotInv, ApprovalInv, NEW p \in Proc, CrashWriter(p) PROVE ApprovalInv'
<1>1. Frame(p) /\ Turn(p) /\ faults' = faults + 1 /\ faults \in Nat
  BY CrashTurn DEF CrashWriter, Crash, SlotInv, Shape
<1>2. /\ ApprovalsTypeOK
      /\ UNCHANGED <<approvals, consumed, others, settled>>
      /\ writer' = IF writer = p THEN None ELSE writer
      /\ writer \in Proc \cup {None}
      /\ decision' = [decision EXCEPT ![p] = None]
      /\ decision \in [Proc -> Named \cup {None}]
  BY DEF ApprovalInv, ApprovalsTypeOK, CrashWriter, decisionVars
<1>3. st'[p].via = None /\ st'[p].pc = "idle"
  BY DEF CrashWriter, Crash, Idle, SlotInv, Shape
<1>4. KnowsApproval(p)' /\ ~Inside(p)'
  BY <1>3, NoApproval
<1>5. ASSUME NEW a \in Approval PROVE Accounted(a)'
  BY <1>1, <1>2, CallKeepsAccount
<1>6. writer' # p /\ \A q \in Proc \ {p} : (writer' = q <=> writer = q)
  BY <1>2, Constants
<1>7. ApprovalsTypeOK' /\ \A q \in Proc \ {p} : decision'[q] = decision[q]
  BY <1>2 DEF ApprovalsTypeOK
<1> QED
  BY <1>1, <1>2, <1>4, <1>5, <1>6, <1>7, CallAccounts

\* A consumption begins outside the governed append.
LEMMA ConsumeAccounts ==
    ASSUME SlotInv, ApprovalInv, NEW p \in Proc, Consume(p) PROVE ApprovalInv'
<1>1. Frame(p) /\ Turn(p) /\ At(p, "idle")
  BY ConsumeTurn DEF Consume
<1>2. /\ \A q \in Proc : Inside(q) <=> writer = q
      /\ KnowsApproval(p) /\ ApprovalsTypeOK
      /\ UNCHANGED <<approvals, consumed, writer, others, settled>>
      /\ decision \in [Proc -> Named \cup {None}] /\ writer \in Proc \cup {None}
      /\ st \in [Proc -> Locals]
  BY DEF ApprovalInv, ApprovalsTypeOK, Consume, decisionVars, SlotInv, Shape
<1>3. st[p].via = None /\ writer # p
  BY <1>1, <1>2 DEF KnowsApproval, At, Inside
<1>4. PICK a \in Approval, named \in Named :
        /\ st' = [st EXCEPT ![p] = [Idle EXCEPT !.pc = "reserve", !.via = a,
                                        !.content = [body |-> named.body, expected |-> 0],
                                        !.attempt = calls + 1]]
        /\ decision' = [decision EXCEPT ![p] = named]
  BY DEF Consume
<1>5. /\ st'[p].via = a /\ st'[p].pc = "reserve" /\ a # None
      /\ st'[p].content = [body |-> named.body, expected |-> 0]
  BY <1>2, <1>4, Constants DEF Idle
<1>6. decision'[p] = named /\ \A q \in Proc \ {p} : decision'[q] = decision[q]
  BY <1>2, <1>4
<1>7. KnowsApproval(p)' /\ ~Inside(p)'
  BY <1>5, <1>6 DEF KnowsApproval, Inside, At
<1>8. ASSUME NEW c \in Approval PROVE Accounted(c)'
  <2>1. Pending(c) => decision'[writer] = decision[writer]
    BY <1>2, <1>3, <1>6 DEF Pending
  <2> QED
    BY <1>1, <1>2, <1>3, <2>1, StillPending, CallKeepsAccount
<1>9. ApprovalsTypeOK'
  BY <1>2, <1>4 DEF ApprovalsTypeOK
<1> QED
  BY <1>1, <1>2, <1>3, <1>6, <1>7, <1>8, <1>9, CallAccounts

\* The governed append is entered.
LEMMA ReserveAccounts ==
    ASSUME SlotInv, ApprovalInv, NEW p \in Proc, Reserve(p) PROVE ApprovalInv'
<1>1. /\ Frame(p) /\ Turn(p) /\ st[p].pc = "reserve" /\ writer = None /\ writer' = p
      /\ UNCHANGED <<approvals, consumed, decision, others, settled>>
  BY ReserveTurn DEF Reserve, decisionVars, At
<1>2. KnowsApproval(p) /\ ApprovalsTypeOK /\ st \in [Proc -> Locals]
  BY DEF ApprovalInv, SlotInv, Shape
<1>3. st'[p].pc = "consumable" /\ st'[p].via = st[p].via /\ st'[p].attempt = st[p].attempt
      /\ st'[p].content = st[p].content
  <2>1. "consumable" \in Steps
    BY DEF Steps, Before
  <2> QED
    BY <1>2, <2>1, GotoIs DEF Reserve, Keeps, Carries
<1>4. st[p].via # None
  BY <1>1, <1>2 DEF KnowsApproval
<1>5. KnowsApproval(p)' /\ Inside(p)'
  BY <1>1, <1>2, <1>3, <1>4 DEF KnowsApproval, Inside, At
<1>6. ASSUME NEW a \in Approval PROVE Accounted(a)'
  BY <1>1, CallKeepsAccount DEF Pending
<1>7. ApprovalsTypeOK' /\ \A q \in Proc \ {p} : (writer' = q <=> writer = q)
  BY <1>1, <1>2, Constants DEF ApprovalsTypeOK
<1> QED
  BY <1>1, <1>5, <1>6, <1>7, CallAccounts

\* The verdict under the lock lets only a consumable approval in.
LEMMA JudgedAccounts ==
    ASSUME SlotInv, ApprovalInv, NEW p \in Proc, Judged(p) PROVE ApprovalInv'
<1>1. /\ Frame(p) /\ Turn(p) /\ st[p].pc = "consumable"
      /\ UNCHANGED <<approvals, consumed, others, settled>>
  BY JudgedTurn DEF Judged, decisionVars, At
<1>2. /\ \A q \in Proc : Inside(q) <=> writer = q
      /\ KnowsApproval(p) /\ ApprovalsTypeOK /\ st \in [Proc -> Locals]
      /\ decision \in [Proc -> Named \cup {None}]
  BY DEF ApprovalInv, ApprovalsTypeOK, SlotInv, Shape
<1>3. st[p].via # None /\ writer = p
  BY <1>1, <1>2 DEF KnowsApproval, Inside
<1>4. \A a \in Approval : ~Pending(a)
  BY <1>1, <1>3 DEF Pending, Citing
<1>5. \A a \in Approval : Accounted(a)'
  BY <1>1, <1>4, CallKeepsAccount
<1>6. CASE /\ StillConsumable(p) /\ UNCHANGED <<writer, decision>>
           /\ Goto(p, IF decision[p].identity = Here THEN "verify" ELSE "elsewhere")
  <2> DEFINE x == IF decision[p].identity = Here THEN "verify" ELSE "elsewhere"
  <2>1. x \in Steps
    BY DEF Steps, Before
  <2>2. /\ st'[p].pc = x /\ st'[p].via = st[p].via /\ st'[p].attempt = st[p].attempt
        /\ st'[p].content = st[p].content
    <3> HIDE DEF x
    <3>1. Goto(p, x)
      BY <1>6 DEF x
    <3> QED
      BY <1>2, <2>1, <3>1, GotoIs DEF Keeps, Carries
  <2>3. Consumable(st[p].via)
    BY <1>6 DEF StillConsumable
  <2>4. KnowsApproval(p)' /\ Inside(p)'
    BY <1>1, <1>2, <1>3, <1>6, <2>2, <2>3 DEF KnowsApproval, Consumable, Inside, At
  <2>5. ApprovalsTypeOK'
    BY <1>1, <1>2, <1>6 DEF ApprovalsTypeOK
  <2> QED
    BY <1>1, <1>3, <1>5, <1>6, <2>4, <2>5, CallAccounts
<1>7. CASE Ends(p, "spent")
  <2>1. st'[p].via = None /\ st'[p].pc = "idle"
    BY <1>2, <1>7 DEF Ends, Idle
  <2>2. KnowsApproval(p)' /\ ~Inside(p)'
    BY <2>1, NoApproval
  <2>3. /\ writer' = None /\ decision' = [decision EXCEPT ![p] = None]
        /\ writer' # p /\ \A q \in Proc \ {p} : (writer' = q <=> writer = q)
    BY <1>3, <1>7, Constants DEF Ends
  <2>4. ApprovalsTypeOK' /\ \A q \in Proc \ {p} : decision'[q] = decision[q]
    BY <1>1, <1>2, <2>3 DEF ApprovalsTypeOK
  <2> QED
    BY <1>1, <1>5, <2>2, <2>3, <2>4, CallAccounts
<1> QED
  BY <1>6, <1>7 DEF Judged

\* The admission in another home settles one Decision, finds it settled, or refuses.
LEMMA ElsewhereAccounts ==
    ASSUME SlotInv, ApprovalInv, NEW p \in Proc, AdmitElsewhere(p) PROVE ApprovalInv'
<1> DEFINE identity == decision[p].identity
           body == decision[p].body
           b == st[p].via
           d == DecisionOf(p, 1)
<1>1. /\ Frame(p) /\ Turn(p) /\ st[p].pc = "elsewhere"
      /\ UNCHANGED <<approvals, consumed, writer, decision>>
  BY AdmitElsewhereTurn DEF AdmitElsewhere, At
<1>2. /\ \A q \in Proc : Inside(q) <=> writer = q
      /\ KnowsApproval(p) /\ ApprovalsTypeOK /\ st \in [Proc -> Locals]
      /\ settled \in [Approval -> SUBSET Decision]
      /\ others \in [Elsewhere -> Body \cup {None}]
      /\ KnowsSlots(st[p], journal) /\ calls \in 0..MaxCalls
  BY DEF ApprovalInv, ApprovalsTypeOK, SlotInv, Shape
<1>3. /\ b \in Approval /\ b # None /\ decision[p] \in Named /\ Consumable(b)
      /\ identity # Here /\ identity \in Elsewhere /\ body \in Body
  <2>1. b # None /\ decision[p] \in Named /\ Consumable(b) /\ identity # Here
    BY <1>1, <1>2 DEF KnowsApproval, At
  <2>2. identity \in Identity /\ body \in Body
    BY <2>1 DEF Named
  <2>3. b \in Approval
    BY <1>2, <2>1 DEF Locals
  <2> QED
    BY <2>1, <2>2, <2>3 DEF Identity
<1>4. writer = p
  BY <1>1, <1>2, <1>3 DEF Inside
<1>5. /\ st'[p].pc = "admitted" /\ st'[p].via = b /\ st'[p].attempt = 0 /\ st'[p].revision = 1
  BY AnswerIs
<1>6. Inside(p)' <=> writer' = p
  BY <1>1, <1>3, <1>4, <1>5 DEF Inside
<1>7. \A a \in Approval : ~Pending(a)
  BY <1>1, <1>4 DEF Pending, Citing
<1>8. CASE /\ others[identity] = None /\ others' = [others EXCEPT ![identity] = body]
           /\ settled' = [settled EXCEPT ![b] = @ \cup {d}]
           /\ st' = [st EXCEPT ![p] = [Idle EXCEPT !.pc = "admitted", !.via = b,
                                                   !.revision = 1, !.result = "ok"]]
  <2>1. others'[identity] = body /\ \A i \in Elsewhere : others[i] # None => others'[i] = others[i]
    BY <1>2, <1>3, <1>8
  <2>2. Backed(EventOf(p))'
    BY <1>1, <1>3, <1>5, <2>1 DEF Backed, EventOf
  <2>3. KnowsApproval(p)'
    BY <1>1, <1>3, <1>5, <2>2 DEF KnowsApproval, Consumable, At
  <2>4. st'[p].result = "ok"
    BY <1>2, <1>8 DEF Idle
  <2>5. ApprovalsTypeOK'
    <3>1. 1 \in Revision
      <4>1. st[p].attempt # 0 /\ st[p].attempt <= calls /\ st[p].attempt \in 0..MaxCalls
        BY <1>1, <1>2 DEF KnowsSlots, Locals
      <4> QED
        BY <1>2, <4>1, Constants DEF Revision
    <3>2. d \in Decision
      BY <1>3, <3>1 DEF DecisionOf, Decision, Named
    <3>3. settled' \in [Approval -> SUBSET Decision]
      BY <1>2, <1>3, <1>8, <3>2
    <3>4. others' \in [Elsewhere -> Body \cup {None}]
      BY <1>2, <1>3, <1>8
    <3> QED
      BY <1>1, <1>2, <3>3, <3>4 DEF ApprovalsTypeOK
  <2>6. ASSUME NEW a \in Approval PROVE Accounted(a)'
    <3>1. CASE a = b
      <4>1. settled'[a] = settled[a] \cup {d}
        BY <1>2, <1>3, <1>8, <3>1
      <4>2. Pending(a)'
        <5>1. writer' = p /\ p # None /\ st'[p].via = a /\ d \in settled'[a]
          BY <1>1, <1>4, <1>5, <3>1, <4>1, Constants
        <5> QED
          BY <1>1, <1>5, <2>4, <5>1 DEF Pending, Citing, DecisionOf
      <4>3. \E e : settled'[a] = settled[a] \cup {e}
        BY <4>1
      <4> QED
        BY <1>1, <1>7, <2>1, <4>2, <4>3, SettledAccounts
    <3>2. CASE a # b
      <4>1. settled'[a] = settled[a]
        BY <1>2, <1>8, <3>2
      <4> QED
        BY <1>1, <1>7, <2>1, <4>1, CallKeepsAccount
    <3> QED
      BY <3>1, <3>2
  <2> QED
    BY <1>1, <1>4, <1>6, <2>1, <2>3, <2>5, <2>6, CallAccounts
<1>9. CASE /\ UNCHANGED decisionVars
           /\ others[identity] = body \/ st'[p].result # "ok"
  <2>1. others' = others /\ settled' = settled
    BY <1>9 DEF decisionVars
  <2>2. st'[p].result = "ok" => Backed(EventOf(p))'
    BY <1>1, <1>3, <1>5, <1>9, <2>1 DEF Backed, EventOf
  <2>3. KnowsApproval(p)'
    BY <1>1, <1>3, <1>5, <2>2 DEF KnowsApproval, Consumable, At
  <2>4. ApprovalsTypeOK'
    BY <1>1, <1>2, <2>1 DEF ApprovalsTypeOK
  <2>5. \A a \in Approval : Accounted(a)'
    BY <1>1, <1>7, <2>1, CallKeepsAccount
  <2> QED
    BY <1>1, <1>4, <1>6, <2>1, <2>3, <2>4, <2>5, CallAccounts
<1>10. ASSUME NEW r, st' = [st EXCEPT ![p] = [Idle EXCEPT !.pc = "admitted", !.via = b,
                                                  !.revision = 1, !.result = r]]
       PROVE  st'[p].result = r
  BY <1>2, <1>10 DEF Idle
<1>11. CASE /\ others[identity] # None /\ UNCHANGED decisionVars
            /\ st' = [st EXCEPT ![p] = [Idle EXCEPT !.pc = "admitted", !.via = b, !.revision = 1,
                        !.result = IF others[identity] = body THEN "ok" ELSE "stale"]]
  <2>1. st'[p].result = IF others[identity] = body THEN "ok" ELSE "stale"
    BY <1>2, <1>11 DEF Idle
  <2> QED
    BY <1>9, <1>11, <2>1
<1>12. CASE /\ UNCHANGED decisionVars
            /\ \E r \in {"denied", "inFlight"} :
                st' = [st EXCEPT ![p] = [Idle EXCEPT !.pc = "admitted", !.via = b,
                                                     !.revision = 1, !.result = r]]
  BY <1>9, <1>10, <1>12
<1> QED
  BY <1>8, <1>11, <1>12 DEF AdmitElsewhere

\* The consumption is recorded, or was refused, or its append failed.
LEMMA AdmittedAccounts ==
    ASSUME SlotInv, ApprovalInv, NEW p \in Proc, Admitted(p) PROVE ApprovalInv'
<1> DEFINE b == st[p].via
           event == EventOf(p)
<1>1. /\ Frame(p) /\ Turn(p) /\ st[p].pc = "admitted" /\ Ends(p, st[p].result)
      /\ UNCHANGED <<approvals, others, settled, journal>>
  BY AdmittedTurn DEF Admitted, decisionVars, storeVars, At
<1>2. /\ \A q \in Proc : Inside(q) <=> writer = q
      /\ KnowsApproval(p) /\ ApprovalsTypeOK /\ \A a \in Approval : Accounted(a)
      /\ faults \in Nat /\ st[p] \in Locals /\ st \in [Proc -> Locals]
      /\ consumed \in [Approval -> Seq(Event)] /\ decision \in [Proc -> Named \cup {None}]
  BY DEF ApprovalInv, ApprovalsTypeOK, SlotInv, Shape, Event
<1>3. b \in Approval /\ b # None /\ decision[p] \in Named /\ Consumable(b)
  BY <1>1, <1>2 DEF KnowsApproval, Locals, At
<1>4. writer = p /\ \A q \in Proc \ {p} : ~Inside(q)
  BY <1>1, <1>2, <1>3 DEF Inside
<1>5. /\ writer' = None /\ decision' = [decision EXCEPT ![p] = None]
      /\ writer' # p /\ \A q \in Proc \ {p} : (writer' = q <=> writer = q)
      /\ \A q \in Proc \ {p} : decision'[q] = decision[q]
  BY <1>1, <1>2, <1>4, Constants DEF Ends
<1>6. KnowsApproval(p)' /\ ~Inside(p)'
  <2>1. st'[p].via = None /\ st'[p].pc = "idle"
    BY <1>1, <1>2 DEF Ends, Idle
  <2> QED
    BY <2>1, NoApproval
<1>7. CASE consumed' = consumed /\ (faults < faults' \/ st[p].result # "ok")
  <2>1. \A a \in Approval : Pending(a) => faults < faults'
    BY <1>1, <1>4, <1>7 DEF Pending, Citing
  <2>2. \A a \in Approval : Accounted(a)'
    BY <1>1, <1>7, <2>1, CallKeepsAccount
  <2>3. ApprovalsTypeOK'
    BY <1>1, <1>2, <1>5, <1>7 DEF ApprovalsTypeOK
  <2> QED
    BY <1>1, <1>4, <1>5, <1>6, <2>2, <2>3, CallAccounts
<1>8. CASE /\ st[p].result = "ok" /\ faults' = faults
           /\ consumed' = [consumed EXCEPT ![b] = Append(@, event)]
  <2>1. event \in Event /\ Backed(event)
    <3>1. Backed(event)
      BY <1>1, <1>2, <1>8 DEF KnowsApproval, At
    <3>2. st[p].revision \in 0..MaxCalls
      BY <1>2 DEF Locals
    <3> QED
      BY <1>3, <3>1, <3>2 DEF EventOf, Event, Named
  <2>2. consumed[b] = <<>> /\ approvals[b] = {"granted"}
    BY <1>3 DEF Consumable
  <2>3. /\ Len(consumed'[b]) = 1 /\ consumed'[b][1] = event
        /\ \A a \in Approval : a # b => consumed'[a] = consumed[a]
        /\ consumed' \in [Approval -> Seq(Event)]
    <3> HIDE DEF event
    <3> QED
      BY <1>2, <1>3, <1>8, <2>1, <2>2
  <2>4. ASSUME NEW a \in Approval PROVE Accounted(a)'
    <3>1. CASE a = b
      <4> DEFINE d == DecisionOf(p, st[p].revision)
      <4>1. IsFiniteSet(settled[a]) /\ Cardinality(settled[a]) \in Nat
        BY <1>2, FS_CardinalityType DEF Accounted
      <4>2. Orphans(a) = settled[a]
        BY <2>2, <3>1 DEF Orphans, Cited
      <4>3. Cited(a)' = {d}
        <5>1. event.identity = d.identity /\ event.revision = d.revision
          BY DEF EventOf, DecisionOf
        <5>2. Cited(a)' = {[identity |-> event.identity, revision |-> event.revision]}
          BY <2>3, <3>1 DEF Cited
        <5> QED
          BY <5>2 DEF EventOf, DecisionOf
      <4>4. Orphans(a)' = settled[a] \ {d}
        BY <1>1, <4>3 DEF Orphans
      <4>5. Cardinality(settled[a] \ {d}) =
                IF d \in settled[a] THEN Cardinality(settled[a]) - 1 ELSE Cardinality(settled[a])
        BY <4>1, FS_RemoveElement
      <4>6. Pending(a) => d \in settled[a]
        BY <1>4 DEF Pending
      <4>7. Cardinality(settled[a]) <= faults + (IF Pending(a) THEN 1 ELSE 0)
        BY <1>2, <4>2 DEF Accounted
      <4>8. Cardinality(Orphans(a)') <= faults'
        <5> HIDE DEF d
        <5> QED
          BY <1>2, <1>8, <4>1, <4>4, <4>5, <4>6, <4>7
      <4>9. ~Pending(a)'
        BY <1>5 DEF Pending
      <4>10. ASSUME NEW n \in 1..Len(consumed'[a]) PROVE Backed(consumed[a][n])'
        <5>1. consumed'[a][n] = event
          BY <2>3, <3>1, <4>10
        <5> HIDE DEF event
        <5> QED
          BY <1>1, <2>1, <5>1 DEF Backed
      <4>11. "revoked" \notin approvals'[a]
        BY <1>1, <2>2, <3>1
      <4>12. IsFiniteSet(settled'[a])
        BY <1>1, <4>1
      <4> QED
        BY <1>2, <1>8, <2>3, <3>1, <4>8, <4>9, <4>10, <4>11, <4>12 DEF Accounted
    <3>2. CASE a # b
      <4>1. ~Pending(a)
        BY <1>4, <3>2 DEF Pending
      <4> QED
        BY <1>1, <2>3, <3>2, <4>1, CallKeepsAccount
    <3> QED
      BY <3>1, <3>2
  <2>5. ApprovalsTypeOK'
    BY <1>1, <1>2, <1>5, <2>3 DEF ApprovalsTypeOK, Event
  <2> QED
    BY <1>1, <1>4, <1>5, <1>6, <2>4, <2>5, CallAccounts
<1>9. \/ consumed' = consumed /\ (faults' = faults + 1 \/ st[p].result # "ok")
      \/ /\ st[p].result = "ok" /\ faults' = faults
         /\ consumed' = [consumed EXCEPT ![b] = Append(@, event)]
  BY DEF Admitted, EventOf
<1> QED
  BY <1>2, <1>7, <1>8, <1>9

\* A decision about an approval waits for the writer.
LEMMA DecisionAccounts ==
    ASSUME SlotInv, ApprovalInv, NEW b \in Approval, Grant(b) \/ Revoke(b) PROVE ApprovalInv'
<1>1. /\ writer = None
      /\ UNCHANGED <<st, journal, faults, torn, consumed, writer, decision, others, settled>>
      /\ \E e \in {"granted", "revoked"} : approvals' = [approvals EXCEPT ![b] = @ \cup {e}]
      /\ consumed[b] = <<>> \/ "revoked" \notin approvals'[b]
  <2>1. approvals \in [Approval -> SUBSET {"granted", "revoked"}]
    BY DEF ApprovalInv, ApprovalsTypeOK
  <2>2. CASE Grant(b)
    BY <2>1, <2>2 DEF Grant, admissionVars, storeVars, counters, decisionVars
  <2>3. CASE Revoke(b)
    BY <2>1, <2>3 DEF Revoke, Consumable, admissionVars, storeVars, counters, decisionVars
  <2> QED
    BY <2>2, <2>3
<1>2. /\ \A q \in Proc : Inside(q) <=> writer = q
      /\ \A q \in Proc : KnowsApproval(q)
      /\ \A a \in Approval : Accounted(a)
      /\ ApprovalsTypeOK /\ faults \in Nat
  BY DEF ApprovalInv, SlotInv, Shape
<1>3. ASSUME NEW q \in Proc PROVE KnowsApproval(q)' /\ (Inside(q)' <=> writer' = q)
  <2>1. ~Inside(q) /\ KnowsApproval(q)
    BY <1>1, <1>2, Constants
  <2>2. At(q, "admitted") /\ st[q].result = "ok" => Backed(EventOf(q))'
    BY <1>1, <2>1 DEF KnowsApproval, Backed, EventOf
  <2> QED
    BY <1>1, <1>2, <2>1, <2>2 DEF KnowsApproval, Inside, At
<1>4. ASSUME NEW a \in Approval PROVE Accounted(a)'
  <2>1. consumed[a] # <<>> /\ "revoked" \in approvals'[a] => "revoked" \in approvals[a]
    <3>1. approvals \in [Approval -> SUBSET {"granted", "revoked"}]
      BY <1>2 DEF ApprovalsTypeOK
    <3> QED
      BY <1>1, <3>1
  <2>2. ASSUME NEW n \in 1..Len(consumed[a]), Backed(consumed[a][n])
        PROVE  Backed(consumed[a][n])'
    BY <1>1, <2>2 DEF Backed
  <2>3. ~Pending(a)
    BY <1>1 DEF Pending
  <2> QED
    BY <1>1, <1>2, <2>1, <2>2, <2>3, AccountKept
<1>5. ApprovalsTypeOK'
  <2>1. approvals' \in [Approval -> SUBSET {"granted", "revoked"}]
    BY <1>1, <1>2 DEF ApprovalsTypeOK
  <2> QED
    BY <1>1, <1>2, <2>1 DEF ApprovalsTypeOK
<1> QED
  BY <1>3, <1>4, <1>5 DEF ApprovalInv

\* The last layer of the invariant is kept.
LEMMA ApprovalStep ==
    ASSUME SlotInv, CommitInv, ApprovalInv, [Next]_vars PROVE ApprovalInv'
<1>1. CASE \E p \in Proc : \/ (Admit(p) \/ Show(p)) /\ UNCHANGED approvalVars
                           \/ AdmissionStep(p) \/ CrashWriter(p)
                           \/ Consume(p) \/ Reserve(p) \/ Judged(p) \/ AdmitElsewhere(p)
                           \/ Admitted(p)
  BY <1>1, BeginsAccount, AdmissionAccounts, CrashAccounts, ConsumeAccounts, ReserveAccounts,
     JudgedAccounts, ElsewhereAccounts, AdmittedAccounts
<1>2. CASE \E a \in Approval : Grant(a) \/ Revoke(a)
  BY <1>2, DecisionAccounts
<1>3. CASE UNCHANGED vars \/ ((Expire \/ Deactivate) /\ UNCHANGED approvalVars)
  <2>1. /\ st' = st /\ journal' = journal /\ faults' = faults /\ torn' = torn
        /\ UNCHANGED <<approvals, consumed, writer, decision, others, settled>>
    BY <1>3 DEF vars, approvalVars, decisionVars, admissionVars, storeVars, counters, Expire,
        Deactivate
  <2>2. ApprovalsTypeOK' /\ \A q \in Proc : Inside(q)' <=> writer' = q
    BY <2>1 DEF ApprovalInv, ApprovalsTypeOK, Inside
  <2>3. ASSUME NEW q \in Proc PROVE KnowsApproval(q)'
    BY <2>1 DEF ApprovalInv, KnowsApproval, Consumable, Backed, EventOf, At
  <2>4. ASSUME NEW a \in Approval PROVE Accounted(a)'
    <3>1. Accounted(a) /\ faults \in Nat
      BY DEF ApprovalInv, SlotInv, Shape
    <3>2. ASSUME NEW n \in 1..Len(consumed[a]), Backed(consumed[a][n])
          PROVE  Backed(consumed[a][n])'
      BY <2>1, <3>2 DEF Backed
    <3>3. Pending(a) => Pending(a)'
      BY <2>1 DEF Pending, Citing, DecisionOf
    <3> QED
      BY <2>1, <3>1, <3>2, <3>3, AccountKept
  <2> QED
    BY <2>2, <2>3, <2>4 DEF ApprovalInv
<1> QED
  BY <1>1, <1>2, <1>3 DEF Next

---------------------------------------------------------------------------
(* The invariant, and what it says.                                        *)

\* An empty home and a ledger without events satisfy the invariant.
LEMMA InitInv == ASSUME Init PROVE IInv
<1>1. /\ instance \in Instances /\ active = TRUE /\ lock = "none" /\ journal = <<>> /\ torn = FALSE
      /\ files = [n \in Revision |-> [body |-> None, envelope |-> None]]
      /\ st = [p \in Proc |-> Idle] /\ acked = {} /\ overlap = FALSE
      /\ calls = 0 /\ faults = 0
      /\ approvals = [a \in Approval |-> {}] /\ writer = None
      /\ consumed = [a \in Approval |-> <<>>] /\ settled = [a \in Approval |-> {}]
      /\ decision = [p \in Proc |-> None] /\ others = [i \in Elsewhere |-> None]
  BY DEF Init, AdmissionInit
<1>2. journal \in Seq(Record) /\ Len(journal) = 0 /\ 1..Len(journal) = {}
  BY <1>1
<1>3. \A kind : Of(journal, kind) = {}
  BY <1>2 DEF Of
<1>4. /\ Idle.pc = "idle" /\ Idle.via = None /\ Idle.attempt = 0 /\ Idle.view = <<>>
      /\ Idle.result = "none"
  BY DEF Idle
<1>5. \A p \in Proc : st[p] = Idle
  BY <1>1
<1>6. SlotInv
  <2>1. TypeOK
    BY <1>1, <1>2 DEF TypeOK
  <2>3. Shape
    BY <1>1, <2>1, IdleType, Constants DEF Shape
  <2>4. Slots(journal)
    BY <1>2, <1>3 DEF Slots
  <2>5. ASSUME NEW p \in Proc PROVE KnowsSlots(st[p], journal)
    <3>1. st[p].pc = "idle" /\ st[p].attempt = 0 /\ st[p].view = <<>>
      BY <1>4, <1>5
    <3>2. Prefix(st[p].view, journal)
      BY <1>1, <3>1 DEF Prefix
    <3> QED
      BY <1>1, <3>1, <3>2 DEF KnowsSlots, Before, Claiming, Owning
  <2>6. OwnAttempts
    BY <1>4, <1>5 DEF OwnAttempts
  <2> QED
    BY <2>3, <2>4, <2>5, <2>6 DEF SlotInv
<1>7. CommitInv
  <2>1. Commits(journal) /\ AckedIsBound
    BY <1>1, <1>3 DEF Commits, AckedIsBound, Swept
  <2>2. \A p \in Proc : KnowsCommits(st[p], journal)
    BY <1>4, <1>5 DEF KnowsCommits, Claiming, Owning
  <2> QED
    BY <2>1, <2>2 DEF CommitInv
<1>8. ChainInv
  BY <1>3, <1>4, <1>5 DEF ChainInv, Claiming, Owning
<1>9. TurnInv
  <2>1. \A p \in Proc : ~Holding(p) /\ st[p].result = "none"
    BY <1>4, <1>5 DEF Holding, Reading
  <2>2. \A p \in Proc : KnowsTurn(st[p], journal)
    BY <1>4, <1>5 DEF KnowsTurn, Claiming, Owning
  <2> QED
    BY <1>3, <2>1, <2>2 DEF TurnInv
<1>10. ApprovalInv
  <2>1. \A p \in Proc : Inside(p) <=> writer = p
    BY <1>1, <1>4, <1>5, Constants DEF Inside
  <2>2. \A p \in Proc : KnowsApproval(p)
    BY <1>4, <1>5 DEF KnowsApproval, At
  <2>3. ASSUME NEW a \in Approval PROVE Accounted(a)
    <3>1. settled[a] = {} /\ consumed[a] = <<>> /\ Orphans(a) = {} /\ ~Pending(a)
      BY <1>1 DEF Orphans, Pending
    <3>2. IsFiniteSet({}) /\ Cardinality({}) = 0
      BY FS_EmptySet
    <3> QED
      BY <1>1, <3>1, <3>2 DEF Accounted
  <2>4. ApprovalsTypeOK
    BY <1>1, Constants DEF ApprovalsTypeOK
  <2> QED
    BY <2>1, <2>2, <2>3, <2>4 DEF ApprovalInv
<1> QED
  BY <1>6, <1>7, <1>8, <1>9, <1>10 DEF IInv

\* The five layers hold in every reachable state of the approvals and their home.
THEOREM Invariance == Spec => []IInv
<1>1. Init => IInv
  BY InitInv
<1>2. IInv /\ [Next]_vars => IInv'
  BY SlotStep, CommitStep, ChainStep, TurnStep, ApprovalStep DEF IInv
<1> QED
  BY <1>1, <1>2, PTL DEF Spec

\* The state of the home and of the approvals has its types throughout.
THEOREM TypeCorrect == Spec => [](TypeOK /\ ApprovalsTypeOK)
<1>1. IInv => TypeOK /\ ApprovalsTypeOK
  BY DEF IInv, SlotInv, Shape, ApprovalInv
<1> QED
  BY <1>1, Invariance, PTL

\* What admitArtifact acknowledged stays committed and paired, whoever else was inside
\* the home, whatever lock was stolen and whoever crashed.
THEOREM AcknowledgedStays == Spec => []AckedIsBound
<1>1. IInv => AckedIsBound
  BY DEF IInv, CommitInv
<1> QED
  BY <1>1, Invariance, PTL

\* A journal that validateSettlement accepts is one chain, each revision made against
\* the one committed before it and no idempotency key settled twice.
THEOREM AcceptedIsSerial == Spec => []ValidIsSerial
<1>1. IInv => ValidIsSerial
  BY ChainIsSerial DEF IInv
<1> QED
  BY <1>1, Invariance, PTL

\* settleGuard turns an attempt away, and a reader finds the store corrupt, only after
\* two admissions have been inside at once or a line was cut short.
THEOREM RefusalsHaveCause == Spec => []RefusalMeansRace
<1>1. ASSUME IInv, NEW p \in Proc, st[p].result \in {"lost", "corrupt"} PROVE overlap \/ torn
  BY <1>1 DEF IInv, TurnInv, Undisturbed
<1>2. IInv => RefusalMeansRace
  BY <1>1 DEF RefusalMeansRace
<1> QED
  BY <1>2, Invariance, PTL

\* consumeApproval appends at most one consumption of an approval, and none beside a
\* revocation; the consumption cites a Decision committed with the content of the call
\* that consumed it; and the Decisions settled for the approval that it does not cite,
\* under whatever identity a call named, are no more than the crashes and failed writes
\* counted, and the one of the writer still inside.
THEOREM ConsumptionsAccounted == Spec => []AuthorizationAccounted
<1>1. ASSUME IInv, NEW a \in Approval
      PROVE  Cardinality(Orphans(a)) <= faults + (IF writer # None /\ st[writer].via = a
                                                  THEN 1 ELSE 0)
  <2>1. /\ Accounted(a) /\ faults \in Nat
        /\ Pending(a) => writer # None /\ st[writer].via = a
    BY <1>1 DEF IInv, ApprovalInv, SlotInv, Shape, Pending
  <2>2. Cardinality(Orphans(a)) \in Nat
    BY <2>1, FS_Subset, FS_CardinalityType DEF Accounted, Orphans
  <2> QED
    BY <2>1, <2>2 DEF Accounted
<1>2. IInv => AuthorizationAccounted
  BY <1>1 DEF IInv, ApprovalInv, Accounted, AuthorizationAccounted
<1> QED
  BY <1>2, Invariance, PTL

=============================================================================
