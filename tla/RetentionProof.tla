---------------------------- MODULE RetentionProof ----------------------------
(***************************************************************************)
(* Proofs about Retention, for any processes, ids, clock readings, bounds  *)
(* and environments.                                                       *)
(***************************************************************************)
EXTENDS Retention, FiniteSetTheorems, TLAPS

---------------------------------------------------------------------------
(* The inductive invariant.                                                *)

Classes == [Record -> Classification \cup {None}]
ActiveHolds == Partial(Hold, SUBSET Record)
Transactions == [Transaction -> TransactionEntry \cup {None}]
Outcomes == {"ok", "refused", "drift", "failed", None}

Locals == [pc : Steps, op : {"prepare", "authorize", None}, candidate : Candidate \cup {None},
           approval : Approval \cup {None}, at : Time \cup {0},
           classes : Classes \cup {<<>>}, holds : ActiveHolds \cup {<<>>},
           holders : SUBSET Holder, transactions : Transactions \cup {<<>>},
           result : Outcomes]

Shape == TypeOK /\ st \in [Proc -> Locals]

\* An approval authorizes one candidate, whose content it was granted for and on which it
\* is spent, and all the Holders known then are in that content.
Granted ==
    \A c \in Candidate : Authorized(c) =>
        /\ approvals[candidates[c].approval] = [subject |-> candidates[c].content,
                                                status |-> "consumed"]
        /\ known[c] \subseteq candidates[c].content.holders
        /\ \A d \in Candidate :
              Authorized(d) /\ candidates[d].approval = candidates[c].approval => d = c

\* A transaction executes an authorized candidate, alone, for the Holders in its content.
Executed ==
    \A t \in Opened :
        /\ Authorized(transactions[t].candidate)
        /\ DOMAIN transactions[t].receipts = candidates[transactions[t].candidate].content.holders
        /\ \A u \in Opened : transactions[u].candidate = transactions[t].candidate => u = t

\* An approval is spent for a candidate, or by a fault, or for what is about to be recorded.
Spent ==
    \A a \in Approval : approvals[a] # None /\ approvals[a].status = "consumed" =>
        \/ \E c \in Candidate : Authorized(c) /\ candidates[c].approval = a
        \/ faults > 0
        \/ writer # None /\ At(writer, "record") /\ st[writer].approval = a

Watched == writer # None => View \in during

KnownAreRegistered == \A c \in Candidate : known[c] \subseteq holders

\* The steps of a derivation, and what each has read by then.
Deriving(p) == st[p].pc \in {"classes", "holds", "holders", "append", "settle"}

Derivation(p) ==
    /\ st[p].pc \in {"classes", "holds", "holders"} => st[p].op \in {"prepare", "authorize"}
    /\ st[p].pc = "settle" => st[p].op = "authorize"
    /\ st[p].pc = "append" => st[p].op = "prepare"
    /\ Deriving(p) => st[p].candidate \in Candidate /\ st[p].at \in Time
    /\ st[p].pc \in {"holds", "holders", "append", "settle"} => st[p].classes \in Classes
    /\ st[p].pc \in {"holders", "append", "settle"} => st[p].holds \in ActiveHolds

\* A process inside an authorization's append is the writer, of a candidate nobody has
\* authorized; what it has read was true since it began, and once it has consumed the
\* approval, that approval is of no other candidate.
Inside(p) == At(p, "record") \/ (Deriving(p) /\ st[p].op = "authorize")

Reviewed(content, views) ==
    \E k, h, o \in views : content = Content(k.classes, h.holds, o.holders, content.at)

Authorization(p) ==
    LET c == st[p].candidate
        a == st[p].approval
    IN
    /\ writer = p
    /\ c \in Candidate /\ candidates[c] # None /\ ~Authorized(c)
    /\ a \in Approval
    /\ ~At(p, "record") => st[p].at = candidates[c].content.at
    /\ st[p].pc \in {"holds", "holders", "settle"} => \E k \in during : st[p].classes = k.classes
    /\ st[p].pc \in {"holders", "settle"} => \E h \in during : st[p].holds = h.holds
    /\ At(p, "settle") => /\ \E o \in during : st[p].holders = o.holders
                          /\ known[c] \subseteq st[p].holders
    /\ At(p, "record") =>
         /\ Reviewed(candidates[c].content, during)
         /\ known[c] \subseteq candidates[c].content.holders
         /\ approvals[a] = [subject |-> candidates[c].content, status |-> "consumed"]
         /\ \A d \in Candidate : Authorized(d) => candidates[d].approval # a

\* A reader's transactions are some that were, or have become those that are.
Snapshot(p) ==
    \A t \in Transaction : st[p].transactions[t] # None =>
        /\ transactions[t] # None
        /\ transactions[t].candidate = st[p].transactions[t].candidate
        /\ DOMAIN transactions[t].receipts = DOMAIN st[p].transactions[t].receipts
        /\ \A o \in DOMAIN transactions[t].receipts :
              st[p].transactions[t].receipts[o] = "settled" =>
                  transactions[t].receipts[o] = "settled"

Knows(p) ==
    /\ Derivation(p)
    /\ Inside(p) => Authorization(p)
    /\ At(p, "open") => st[p].candidate \in Candidate /\ Authorized(st[p].candidate)
    /\ At(p, "resolve") => st[p].transactions \in Transactions /\ Snapshot(p)

IInv ==
    /\ Shape
    /\ Granted /\ Executed /\ Spent
    /\ Watched /\ KnownAreRegistered
    /\ ProofCoversHolders
    /\ \A p \in Proc : Knows(p)

---------------------------------------------------------------------------
(* Lemmas about the operators.                                             *)

\* None is no value.
LEMMA Values ==
    /\ None \notin Proc /\ None \notin Approval /\ None # "corrupt" /\ None \notin Classification
    /\ None \notin HoldEntry /\ None \notin CandidateEntry /\ None \notin ApprovalEntry
    /\ None \notin TransactionEntry
BY ValuesAssumption

LEMMA IdleType ==
    Idle \in Locals /\ Idle.pc = "idle" /\ Idle.op = None
<1>1. "idle" \in Steps /\ 0 \in Time \cup {0} /\ None \in Outcomes
  BY DEF Steps, Outcomes
<1> QED
  BY <1>1 DEF Idle, Locals

\* What the ledger of the holds says.
LEMMA ActiveType ==
    ASSUME NEW hs \in [Hold -> HoldEntry \cup {None}]
    PROVE  Active(hs) \in ActiveHolds
<1> DEFINE D == {x \in Hold : hs[x] # None /\ ~hs[x].released}
<1>1. \A h \in D : hs[h].scope \in SUBSET Record
  BY DEF HoldEntry
<1>2. Active(hs) \in [D -> SUBSET Record]
  BY <1>1 DEF Active
<1> QED
  BY <1>2 DEF ActiveHolds, Partial

\* What is derived from three ledgers is the content of a candidate.
LEMMA ContentType ==
    ASSUME NEW cls \in Classes, NEW active \in ActiveHolds, NEW registered \in SUBSET Holder,
           NEW at \in Time
    PROVE  /\ Content(cls, active, registered, at) \in Contents
           /\ Content(cls, active, registered, at).holders = registered
           /\ Content(cls, active, registered, at).at = at
<1> DEFINE Held == {r \in Record : cls[r] # None /\ HeldBy(active, r) # {}}
           Eligible == {r \in Record \ Held : cls[r] # None /\ Expired(cls[r], at)}
           records == [r \in Eligible |-> cls[r]]
           excluded == [r \in Held |-> HeldBy(active, r)]
<1>1. records \in Partial(Record, Classification)
  <2>1. \A r \in Eligible : cls[r] \in Classification
    BY DEF Classes
  <2>2. records \in [Eligible -> Classification] /\ Eligible \in SUBSET Record
    BY <2>1
  <2> QED
    BY <2>2 DEF Partial
<1>2. excluded \in Partial(Record, SUBSET Hold)
  <2>1. DOMAIN active \subseteq Hold
    BY DEF ActiveHolds, Partial
  <2>2. \A r \in Held : HeldBy(active, r) \in SUBSET Hold
    BY <2>1 DEF HeldBy
  <2>3. excluded \in [Held -> SUBSET Hold] /\ Held \in SUBSET Record
    BY <2>2
  <2> QED
    BY <2>3 DEF Partial
<1>3. Content(cls, active, registered, at) =
        [records |-> records, excluded |-> excluded, holders |-> registered, at |-> at]
  BY DEF Content
<1> HIDE DEF records, excluded
<1> QED
  BY <1>1, <1>2, <1>3 DEF Contents

\* Only p moves.
Moves(p) == st' \in [Proc -> Locals] /\ \A q \in Proc \ {p} : st'[q] = st[q]

LEMMA Became ==
    ASSUME Shape, NEW p \in Proc, NEW new \in Locals, st' = [st EXCEPT ![p] = new]
    PROVE  Moves(p) /\ st'[p] = new
BY DEF Shape, Moves

\* A process that returned knows nothing any more.
LEMMA Returned ==
    ASSUME Shape, NEW p \in Proc, NEW result \in Outcomes, Return(p, result)
    PROVE  Moves(p) /\ At(p, "idle")' /\ Knows(p)' /\ st'[p].result = result
<1> DEFINE new == [Idle EXCEPT !.result = result]
<1>1. new \in Locals /\ new.pc = "idle" /\ new.result = result
  BY IdleType DEF Locals
<1>2. st' = [st EXCEPT ![p] = new]
  BY DEF Return
<1> HIDE DEF new
<1>3. Moves(p) /\ st'[p] = new
  BY <1>1, <1>2, Became
<1> QED
  BY <1>1, <1>3 DEF Knows, Derivation, Deriving, Inside, At

\* What the ledgers say of a candidate that is there, and of one that is authorized.
LEMMA Entries ==
    ASSUME Shape
    PROVE  /\ \A c \in Candidate : candidates[c] # None => candidates[c] \in CandidateEntry
           /\ \A c \in Candidate : Authorized(c) =>
                 /\ candidates[c] # None /\ candidates[c].approval \in Approval
                 /\ candidates[c].content \in Contents
           /\ \A t \in Opened : /\ transactions[t] \in TransactionEntry
                                 /\ transactions[t].candidate \in Candidate
           /\ \A a \in Approval : approvals[a] # None => approvals[a] \in ApprovalEntry
BY DEF Shape, TypeOK, Authorized, CandidateEntry, Opened, TransactionEntry

---------------------------------------------------------------------------
(* What no step undoes.                                                    *)

\* A candidate keeps its content and its approval, a transaction its candidate, its Holders
\* and their settled receipts, a spent approval stays so, and a Holder is not forgotten.
Grows ==
    /\ \A c \in Candidate : candidates[c] # None =>
          /\ candidates'[c] # None /\ candidates'[c].content = candidates[c].content
          /\ Authorized(c) => candidates'[c] = candidates[c]
    /\ \A t \in Transaction : transactions[t] # None =>
          /\ transactions'[t] # None /\ transactions'[t].candidate = transactions[t].candidate
          /\ DOMAIN transactions'[t].receipts = DOMAIN transactions[t].receipts
          /\ \A o \in DOMAIN transactions[t].receipts :
                transactions[t].receipts[o] = "settled" => transactions'[t].receipts[o] = "settled"
    /\ \A a \in Approval : approvals[a] # None /\ approvals[a].status = "consumed" =>
          approvals'[a] = approvals[a]
    /\ holders \subseteq holders'

\* A process that does not move keeps what it knows, unless another meddles with its
\* candidate or its approval.
LEMMA KnowsKept ==
    ASSUME IInv, Shape', Grows, NEW q \in Proc, st'[q] = st[q],
           Inside(q) =>
             LET c == st[q].candidate IN
             /\ writer' = writer /\ during \subseteq during'
             /\ known'[c] = known[c] /\ candidates'[c] = candidates[c]
             /\ \A d \in Candidate : Authorized(d)' =>
                   Authorized(d) \/ candidates'[d].approval # st[q].approval
    PROVE  Knows(q)'
<1>1. Knows(q)
  BY DEF IInv
<1>2. Derivation(q)'
  BY <1>1 DEF Knows, Derivation, Deriving
<1>3. Inside(q)' => Authorization(q)'
  <2> SUFFICES ASSUME Inside(q)' PROVE Authorization(q)'
    OBVIOUS
  <2>1. Inside(q)
    BY DEF Inside, At, Deriving
  <2>2. Authorization(q)
    BY <1>1, <2>1 DEF Knows
  <2> DEFINE c == st[q].candidate
             a == st[q].approval
  <2>3. /\ writer' = writer /\ during \subseteq during'
        /\ known'[c] = known[c] /\ candidates'[c] = candidates[c]
        /\ \A d \in Candidate : Authorized(d)' => Authorized(d) \/ candidates'[d].approval # a
    BY <2>1
  <2>4. c \in Candidate /\ candidates'[c] # None /\ ~Authorized(c)' /\ a \in Approval
    BY <2>2, <2>3 DEF Authorization, Authorized
  <2>5. Reviewed(candidates[c].content, during) => Reviewed(candidates[c].content, during')
    BY <2>3 DEF Reviewed
  <2>6. At(q, "record") =>
          /\ approvals'[a] = approvals[a]
          /\ \A d \in Candidate : Authorized(d)' => candidates'[d].approval # a
    <3> SUFFICES ASSUME At(q, "record")
                 PROVE  /\ approvals'[a] = approvals[a]
                        /\ \A d \in Candidate : Authorized(d)' => candidates'[d].approval # a
      OBVIOUS
    <3>1. approvals[a] = [subject |-> candidates[c].content, status |-> "consumed"]
      BY <2>2 DEF Authorization
    <3>2. candidates[c] \in CandidateEntry
      BY <2>2, Entries DEF Authorization, IInv
    <3>3. approvals[a] \in ApprovalEntry /\ approvals[a].status = "consumed"
      BY <3>1, <3>2 DEF ApprovalEntry, CandidateEntry
    <3>4. approvals'[a] = approvals[a]
      BY <2>4, <3>3, Values DEF Grows
    <3>5. ASSUME NEW d \in Candidate, Authorized(d)' PROVE candidates'[d].approval # a
      BY <2>2, <2>3, <3>5, Entries DEF Authorization, Grows, IInv
    <3> QED
      BY <3>4, <3>5
  <2> QED
    BY <2>2, <2>3, <2>4, <2>5, <2>6 DEF Authorization, At
<1>4. At(q, "open")' => (st[q].candidate \in Candidate /\ Authorized(st[q].candidate))'
  BY <1>1 DEF Knows, At, Grows, Authorized
<1>5. At(q, "resolve")' => st'[q].transactions \in Transactions /\ Snapshot(q)'
  BY <1>1 DEF Knows, At, Grows, Snapshot
<1> QED
  BY <1>2, <1>3, <1>4, <1>5 DEF Knows

\* Nothing is authorized or opened anew.
LEMMA DeletionsKept ==
    ASSUME IInv, Shape', Grows,
           \A c \in Candidate : Authorized(c)' => Authorized(c),
           \A c \in Candidate : Authorized(c) => known'[c] = known[c],
           \A t \in Transaction : transactions'[t] # None => transactions[t] # None
    PROVE  Granted' /\ Executed'
<1>1. ASSUME NEW c \in Candidate, Authorized(c)
      PROVE  /\ candidates'[c] = candidates[c] /\ candidates[c].approval \in Approval
             /\ approvals'[candidates[c].approval] = approvals[candidates[c].approval]
  <2>1. /\ candidates'[c] = candidates[c] /\ candidates[c].approval \in Approval
        /\ candidates[c].content \in Contents
    BY <1>1, Entries DEF Grows, IInv
  <2> DEFINE a == candidates[c].approval
  <2>2. approvals[a] = [subject |-> candidates[c].content, status |-> "consumed"]
    BY <1>1 DEF IInv, Granted
  <2>3. approvals[a] \in ApprovalEntry /\ approvals[a].status = "consumed"
    BY <2>1, <2>2 DEF ApprovalEntry
  <2> QED
    BY <2>1, <2>3, Values DEF Grows
<1>2. Granted'
  BY <1>1 DEF IInv, Granted
<1>3. ASSUME NEW t \in Opened'
      PROVE  /\ t \in Opened /\ transactions'[t].candidate = transactions[t].candidate
             /\ DOMAIN transactions'[t].receipts = DOMAIN transactions[t].receipts
             /\ Authorized(transactions[t].candidate)' /\ transactions[t].candidate \in Candidate
             /\ candidates'[transactions[t].candidate] = candidates[transactions[t].candidate]
  <2>1. t \in Opened
    BY DEF Opened
  <2>2. Authorized(transactions[t].candidate) /\ transactions[t].candidate \in Candidate
    BY <2>1, Entries DEF IInv, Executed
  <2> QED
    BY <1>1, <2>1, <2>2 DEF Grows, Opened, Authorized
<1>4. Executed'
  BY <1>3 DEF IInv, Executed
<1> QED
  BY <1>2, <1>4

\* A proof that was given keeps covering its Holders.
LEMMA ProofsKept ==
    ASSUME IInv, Grows, \A c \in Candidate : Authorized(c) => known'[c] = known[c],
           proved' = proved
    PROVE  ProofCoversHolders'
<1>1. ASSUME NEW t \in proved
      PROVE  /\ transactions'[t].candidate = transactions[t].candidate
             /\ DOMAIN transactions'[t].receipts = DOMAIN transactions[t].receipts
             /\ \A o \in DOMAIN transactions[t].receipts :
                   transactions[t].receipts[o] = "settled" => transactions'[t].receipts[o] = "settled"
             /\ known'[transactions[t].candidate] = known[transactions[t].candidate]
  <2>1. t \in Opened
    BY DEF IInv, Shape, TypeOK
  <2>2. Authorized(transactions[t].candidate) /\ transactions[t].candidate \in Candidate
    BY <2>1, Entries DEF IInv, Executed
  <2> QED
    BY <2>1, <2>2 DEF Grows, Opened
<1> QED
  BY <1>1 DEF IInv, ProofCoversHolders

\* While a writer stays inside, what the ledgers say is remembered.
LEMMA WatchKeeps ==
    ASSUME Watch
    PROVE  /\ Watched'
           /\ writer # None /\ writer' = writer => during \subseteq during'
BY DEF Watch, Watched

---------------------------------------------------------------------------
(* The initial states.                                                     *)

LEMMA InitIInv == Init => IInv
<1> SUFFICES ASSUME Init PROVE IInv
  OBVIOUS
<1>1. /\ \A c \in Candidate : candidates[c] = None /\ known[c] = {} /\ ~Authorized(c)
      /\ \A a \in Approval : approvals[a] = None
      /\ Opened = {} /\ writer = None /\ proved = {}
  BY DEF Init, Authorized, Opened
<1>2. Shape
  <2>1. classes \in [Record -> Classification \cup {None}]
    <3>1. PICK at \in Time, ttl \in Ttl :
            classes = [r \in Record |-> IF r \in instance.classified
                                       THEN [at |-> at, ttl |-> ttl] ELSE None]
      BY DEF Init
    <3>2. [at |-> at, ttl |-> ttl] \in Classification
      BY DEF Classification
    <3> QED
      BY <3>1, <3>2
  <2>2. holders \subseteq Holder
    BY RetentionAssumption DEF Init
  <2>3. st \in [Proc -> Locals] /\ \A p \in Proc : st[p].pc \in Steps
    BY IdleType DEF Init, Steps
  <2>4. /\ holds \in [Hold -> HoldEntry \cup {None}]
        /\ candidates \in [Candidate -> CandidateEntry \cup {None}]
        /\ approvals \in [Approval -> ApprovalEntry \cup {None}]
        /\ transactions \in [Transaction -> TransactionEntry \cup {None}]
        /\ known \in [Candidate -> SUBSET Holder]
    BY DEF Init
  <2> QED
    BY <1>1, <2>1, <2>2, <2>3, <2>4 DEF Init, Shape, TypeOK
<1>3. Granted /\ Executed /\ Spent /\ Watched /\ KnownAreRegistered /\ ProofCoversHolders
  BY <1>1 DEF Granted, Executed, Spent, Watched, KnownAreRegistered, ProofCoversHolders
<1>4. ASSUME NEW p \in Proc PROVE Knows(p)
  <2>1. st[p] = Idle
    BY DEF Init
  <2> QED
    BY <2>1, IdleType DEF Knows, Derivation, Deriving, Inside, At
<1> QED
  BY <1>2, <1>3, <1>4 DEF IInv

---------------------------------------------------------------------------
(* The steps of a process that change no ledger.                           *)

Counted == writes' \in Nat /\ calls' \in Nat /\ faults' \in Nat /\ faults' >= faults

\* Such a step preserves the invariant if p knows what it should afterwards.
LEMMA QuietStep ==
    ASSUME IInv, Watch, Counted, NEW p \in Proc, Moves(p), Knows(p)',
           UNCHANGED <<ledgerVars, deletionVars, known>>,
           proved' = proved \/ (proved' \subseteq Opened /\ ProofCoversHolders'),
           writer' = writer \/ (writer = p /\ writer' = None),
           writer = p /\ At(p, "record") => faults' > 0
    PROVE  IInv' /\ Grows
<1>1. /\ UNCHANGED <<classes, holds, holders, candidates, approvals, transactions, known>>
      /\ UNCHANGED Opened /\ proved' \subseteq Opened
      /\ \A c \in Candidate : Authorized(c)' <=> Authorized(c)
  BY DEF ledgerVars, deletionVars, Authorized, Opened, IInv, Shape, TypeOK
<1>2. Shape'
  <2>1. \A q \in Proc : st'[q].pc \in Steps
    BY DEF Moves, Locals
  <2> QED
    BY <1>1, <2>1 DEF IInv, Shape, TypeOK, Moves, Counted
<1>3. Grows
  BY <1>1 DEF Grows
<1>4. Granted' /\ Executed' /\ ProofCoversHolders'
  BY <1>1, <1>2, <1>3, DeletionsKept, ProofsKept
<1>5. Watched' /\ KnownAreRegistered'
  BY <1>1, WatchKeeps DEF IInv, KnownAreRegistered
<1>6. Spent'
  <2> SUFFICES ASSUME NEW a \in Approval, approvals[a] # None, approvals[a].status = "consumed"
               PROVE  \/ \E c \in Candidate : Authorized(c) /\ candidates[c].approval = a
                      \/ faults' > 0
                      \/ writer' # None /\ At(writer, "record")' /\ st'[writer'].approval = a
    BY <1>1 DEF Spent, Authorized
  <2>1. CASE \E c \in Candidate : Authorized(c) /\ candidates[c].approval = a
    BY <2>1
  <2>2. CASE faults > 0
    BY <2>2 DEF Counted, IInv, Shape, TypeOK
  <2>3. CASE writer # None /\ At(writer, "record") /\ st[writer].approval = a
    <3>1. CASE writer = p
      BY <2>3, <3>1
    <3>2. CASE writer # p
      BY <2>3, <3>2 DEF Moves, At, IInv, Shape, TypeOK
    <3> QED
      BY <3>1, <3>2
  <2> QED
    BY <2>1, <2>2, <2>3 DEF IInv, Spent
<1>7. ASSUME NEW q \in Proc PROVE Knows(q)'
  <2>1. CASE q = p
    BY <2>1
  <2>2. CASE q # p
    <3>1. Inside(q) => writer = q /\ writer # None
      BY Values DEF IInv, Knows, Authorization
    <3>2. Inside(q) => writer' = writer /\ during \subseteq during'
      BY <2>2, <3>1, WatchKeeps
    <3>3. st'[q] = st[q]
      BY <2>2 DEF Moves
    <3> QED
      BY <1>1, <1>2, <1>3, <3>2, <3>3, KnowsKept
  <2> QED
    BY <2>1, <2>2
<1> QED
  BY <1>2, <1>3, <1>4, <1>5, <1>6, <1>7 DEF IInv

\* A call that returns with nothing done.
LEMMA ReturnStep ==
    ASSUME IInv, Watch, Counted, NEW p \in Proc, NEW result \in Outcomes, Return(p, result),
           UNCHANGED <<ledgerVars, deletionVars, known, proved>>,
           writer' = writer \/ (writer = p /\ writer' = None),
           writer = p /\ At(p, "record") => faults' > 0
    PROVE  IInv' /\ Grows
BY Returned, QuietStep DEF IInv

\* What the steps of a process rest on.
LEMMA Typed ==
    ASSUME IInv, NEW p \in Proc
    PROVE  /\ Shape /\ Knows(p) /\ st[p] \in Locals
           /\ writes \in Nat /\ calls \in Nat /\ faults \in Nat
           /\ Inside(p) => writer = p /\ writer # None /\ Authorization(p)
BY Values DEF IInv, Shape, TypeOK, Knows, Authorization

LEMMA PrepareStep == ASSUME IInv, Watch, NEW p \in Proc, Prepare(p) PROVE IInv' /\ Grows
<1>1. PICK c \in Candidate, at \in Time :
        st' = [st EXCEPT ![p] = [Idle EXCEPT !.pc = "classes", !.op = "prepare",
                                             !.candidate = c, !.at = at]]
  BY DEF Prepare
<1> DEFINE new == [Idle EXCEPT !.pc = "classes", !.op = "prepare", !.candidate = c, !.at = at]
<1>2. /\ new \in Locals /\ new.pc = "classes" /\ new.op = "prepare" /\ new.candidate = c
      /\ new.at = at
  BY IdleType DEF Locals, Steps
<1>3. st' = [st EXCEPT ![p] = new]
  BY <1>1
<1> HIDE DEF new
<1>4. Moves(p) /\ st'[p] = new
  BY <1>2, <1>3, Became DEF IInv
<1>5. Knows(p)'
  BY <1>2, <1>4 DEF Knows, Derivation, Deriving, Inside, At
<1>6. Counted
  BY Typed DEF Prepare, CountCall, Counted
<1> QED
  BY <1>4, <1>5, <1>6, QuietStep DEF Prepare, At

LEMMA ExecuteStep == ASSUME IInv, Watch, NEW p \in Proc, Execute(p) PROVE IInv' /\ Grows
<1>1. PICK c \in Candidate :
        Authorized(c) /\ st' = [st EXCEPT ![p] = [Idle EXCEPT !.pc = "open", !.candidate = c]]
  BY DEF Execute
<1> DEFINE new == [Idle EXCEPT !.pc = "open", !.candidate = c]
<1>2. new \in Locals /\ new.pc = "open" /\ new.candidate = c
  BY IdleType DEF Locals, Steps
<1>3. st' = [st EXCEPT ![p] = new]
  BY <1>1
<1> HIDE DEF new
<1>4. Moves(p) /\ st'[p] = new
  BY <1>2, <1>3, Became DEF IInv
<1>5. Authorized(c)'
  BY <1>1 DEF Execute, deletionVars, Authorized
<1>6. Knows(p)'
  BY <1>2, <1>4, <1>5 DEF Knows, Derivation, Deriving, Inside, At
<1>7. Counted
  BY Typed DEF Execute, CountCall, Counted
<1> QED
  BY <1>4, <1>6, <1>7, QuietStep DEF Execute, At

LEMMA ReadTransactionsStep ==
    ASSUME IInv, Watch, NEW p \in Proc, ReadTransactions(p) PROVE IInv' /\ Grows
<1> DEFINE new == [Idle EXCEPT !.pc = "resolve", !.transactions = transactions]
<1>1. transactions \in Transactions
  BY DEF IInv, Shape, TypeOK, Transactions
<1>2. new \in Locals /\ new.pc = "resolve" /\ new.transactions = transactions
  BY <1>1, IdleType DEF Locals, Steps
<1>3. st' = [st EXCEPT ![p] = new]
  BY DEF ReadTransactions
<1> HIDE DEF new
<1>4. Moves(p) /\ st'[p] = new
  BY <1>2, <1>3, Became DEF IInv
<1>5. Knows(p)'
  <2>1. transactions' = transactions
    BY DEF ReadTransactions, deletionVars
  <2>2. Snapshot(p)'
    BY <1>2, <1>4, <2>1 DEF Snapshot
  <2> QED
    BY <1>1, <1>2, <1>4, <2>2 DEF Knows, Derivation, Deriving, Inside, At
<1>6. Counted
  BY Typed DEF ReadTransactions, CountCall, Counted
<1> QED
  BY <1>4, <1>5, <1>6, QuietStep DEF ReadTransactions, At

LEMMA CrashStep == ASSUME IInv, Watch, NEW p \in Proc, Crash(p) PROVE IInv' /\ Grows
<1>1. Counted /\ faults' > 0
  BY Typed DEF Crash, Counted
<1>2. Return(p, None) /\ None \in Outcomes
  BY DEF Crash, Outcomes
<1> QED
  BY <1>1, <1>2, ReturnStep DEF Crash

\* What the writer sees now is remembered.
LEMMA WriterSees ==
    ASSUME IInv, Watch, NEW p \in Proc, Inside(p), writer' = writer
    PROVE  View \in during' /\ during \subseteq during'
BY Typed, WatchKeeps DEF IInv, Watched

LEMMA ReadClassesStep ==
    ASSUME IInv, Watch, NEW p \in Proc, Derive(p), ReadClasses(p) PROVE IInv' /\ Grows
<1> DEFINE new == [st[p] EXCEPT !.classes = classes, !.pc = "holds"]
<1>1. /\ At(p, "classes") /\ Derivation(p) /\ st[p] \in Locals /\ classes \in Classes
      /\ UNCHANGED <<writer, candidates, known, approvals>>
  BY Typed DEF ReadClasses, Knows, Shape, TypeOK, Classes, Derive, deletionVars
<1>2. /\ new \in Locals /\ new.pc = "holds" /\ new.classes = classes
      /\ new.op = st[p].op /\ new.candidate = st[p].candidate /\ new.approval = st[p].approval
      /\ new.at = st[p].at
  BY <1>1 DEF Locals, Steps
<1>3. st' = [st EXCEPT ![p] = new]
  BY <1>1 DEF ReadClasses, IInv, Shape
<1> HIDE DEF new
<1>4. Moves(p) /\ st'[p] = new
  BY <1>2, <1>3, Became DEF IInv
<1>5. Derivation(p)'
  BY <1>1, <1>2, <1>4 DEF Derivation, Deriving, At
<1>6. Inside(p)' => Authorization(p)'
  <2> SUFFICES ASSUME Inside(p)' PROVE Authorization(p)'
    OBVIOUS
  <2>1. Inside(p)
    BY <1>1, <1>2, <1>4 DEF Inside, At, Deriving
  <2>2. Authorization(p) /\ View \in during'
    BY <1>1, <2>1, Typed, WriterSees
  <2>3. View.classes = classes
    BY DEF View
  <2>4. \E k \in during' : st'[p].classes = k.classes
    BY <1>2, <1>4, <2>2, <2>3
  <2> QED
    BY <1>1, <1>2, <1>4, <2>2, <2>4 DEF Authorization, At, Authorized
<1>7. Knows(p)'
  BY <1>2, <1>4, <1>5, <1>6 DEF Knows, At
<1>8. Counted
  BY Typed DEF Derive, counters, Counted
<1> QED
  BY <1>1, <1>4, <1>7, <1>8, QuietStep DEF Derive, At

LEMMA ReadHoldsStep ==
    ASSUME IInv, Watch, NEW p \in Proc, Derive(p), ReadHolds(p) PROVE IInv' /\ Grows
<1> DEFINE new == [st[p] EXCEPT !.holds = Active(holds), !.pc = "holders"]
<1>1. /\ At(p, "holds") /\ Derivation(p) /\ st[p] \in Locals /\ Active(holds) \in ActiveHolds
      /\ UNCHANGED <<writer, candidates, known, approvals>>
  BY Typed, ActiveType DEF ReadHolds, Knows, Shape, TypeOK, Derive, deletionVars
<1>2. /\ new \in Locals /\ new.pc = "holders" /\ new.holds = Active(holds)
      /\ new.op = st[p].op /\ new.candidate = st[p].candidate /\ new.approval = st[p].approval
      /\ new.at = st[p].at /\ new.classes = st[p].classes
  BY <1>1 DEF Locals, Steps
<1>3. st' = [st EXCEPT ![p] = new]
  BY <1>1 DEF ReadHolds, IInv, Shape
<1> HIDE DEF new
<1>4. Moves(p) /\ st'[p] = new
  BY <1>2, <1>3, Became DEF IInv
<1>5. Derivation(p)'
  BY <1>1, <1>2, <1>4 DEF Derivation, Deriving, At
<1>6. Inside(p)' => Authorization(p)'
  <2> SUFFICES ASSUME Inside(p)' PROVE Authorization(p)'
    OBVIOUS
  <2>1. Inside(p)
    BY <1>1, <1>2, <1>4 DEF Inside, At, Deriving
  <2>2. Authorization(p) /\ View \in during' /\ during \subseteq during'
    BY <1>1, <2>1, Typed, WriterSees
  <2>3. View.holds = Active(holds)
    BY DEF View
  <2>4. \E h \in during' : st'[p].holds = h.holds
    BY <1>2, <1>4, <2>2, <2>3
  <2>5. \E k \in during' : st'[p].classes = k.classes
    BY <1>1, <1>2, <1>4, <2>2 DEF Authorization, At
  <2> QED
    BY <1>1, <1>2, <1>4, <2>2, <2>4, <2>5 DEF Authorization, At, Authorized
<1>7. Knows(p)'
  BY <1>2, <1>4, <1>5, <1>6 DEF Knows, At
<1>8. Counted
  BY Typed DEF Derive, counters, Counted
<1> QED
  BY <1>1, <1>4, <1>7, <1>8, QuietStep DEF Derive, At

LEMMA ReadHoldersStep ==
    ASSUME IInv, Watch, NEW p \in Proc, Derive(p), ReadHolders(p) PROVE IInv' /\ Grows
<1> DEFINE step == IF st[p].op = "prepare" THEN "append" ELSE "settle"
           new == [st[p] EXCEPT !.holders = holders, !.pc = step]
<1>1. /\ At(p, "holders") /\ Derivation(p) /\ st[p] \in Locals /\ holders \in SUBSET Holder
      /\ step \in Steps /\ UNCHANGED <<writer, candidates, known, approvals>>
  BY Typed DEF ReadHolders, Knows, Shape, TypeOK, Derive, deletionVars, Steps
<1> HIDE DEF step
<1>2. /\ new \in Locals /\ new.pc = step /\ new.holders = holders
      /\ new.op = st[p].op /\ new.candidate = st[p].candidate /\ new.approval = st[p].approval
      /\ new.at = st[p].at /\ new.classes = st[p].classes /\ new.holds = st[p].holds
  BY <1>1 DEF Locals
<1>3. st' = [st EXCEPT ![p] = new]
  BY <1>1 DEF ReadHolders, IInv, Shape, step
<1> HIDE DEF new
<1>4. Moves(p) /\ st'[p] = new
  BY <1>2, <1>3, Became DEF IInv
<1>5. Derivation(p)'
  BY <1>1, <1>2, <1>4 DEF Derivation, Deriving, At, step
<1>6. Inside(p)' => Authorization(p)'
  <2> SUFFICES ASSUME Inside(p)' PROVE Authorization(p)'
    OBVIOUS
  <2>1. Inside(p)
    BY <1>1, <1>2, <1>4 DEF Inside, At, Deriving, step
  <2>2. Authorization(p) /\ View \in during' /\ during \subseteq during'
    BY <1>1, <2>1, Typed, WriterSees
  <2>3. View.holders = holders
    BY DEF View
  <2>4. \E o \in during' : st'[p].holders = o.holders
    BY <1>2, <1>4, <2>2, <2>3
  <2>5. /\ \E k \in during' : st'[p].classes = k.classes
        /\ \E h \in during' : st'[p].holds = h.holds
    BY <1>1, <1>2, <1>4, <2>2 DEF Authorization, At
  <2>6. known'[st[p].candidate] \subseteq holders
    BY <1>1, <2>2 DEF IInv, KnownAreRegistered, Authorization
  <2> QED
    BY <1>1, <1>2, <1>4, <2>2, <2>4, <2>5, <2>6 DEF Authorization, At, Authorized, step
<1>7. Knows(p)'
  BY <1>2, <1>4, <1>5, <1>6 DEF Knows, At, step
<1>8. Counted
  BY Typed DEF Derive, counters, Counted
<1> QED
  BY <1>1, <1>4, <1>7, <1>8, QuietStep DEF Derive, At

---------------------------------------------------------------------------
(* The steps of a process that change a ledger, or begin an authorization. *)

LEMMA AppendCandidateStep ==
    ASSUME IInv, Watch, NEW p \in Proc, AppendCandidate(p) PROVE IInv' /\ Grows
<1> DEFINE c == st[p].candidate
           entry == [content |-> Derived(p), approval |-> None]
<1>1. /\ At(p, "append") /\ Derivation(p) /\ st[p] \in Locals
      /\ UNCHANGED <<ledgerVars, approvals, transactions, writer, known, proved, counters>>
      /\ UNCHANGED <<classes, holds, holders, writes, calls, faults>>
  BY Typed DEF AppendCandidate, Knows, ledgerVars, counters
<1>2. Counted
  BY <1>1, Typed DEF Counted
<1>3. CASE Return(p, "refused") /\ UNCHANGED candidates
  <2>1. "refused" \in Outcomes
    BY DEF Outcomes
  <2> QED
    BY <1>1, <1>2, <1>3, <2>1, ReturnStep DEF At, deletionVars
<1>4. CASE /\ writer = None /\ candidates[c] = None
           /\ candidates' = [candidates EXCEPT ![c] = entry] /\ Return(p, "ok")
  <2>1. Moves(p) /\ Knows(p)'
    BY <1>4, Returned DEF Outcomes, IInv
  <2>2. entry \in CandidateEntry /\ entry.approval = None /\ c \in Candidate
    <3>1. Derived(p) \in Contents
      BY <1>1, ContentType DEF Derived, Derivation, Deriving, At, Locals
    <3> QED
      BY <1>1, <3>1 DEF CandidateEntry, Derivation, Deriving, At
  <2> HIDE DEF entry
  <2>3. /\ candidates' \in [Candidate -> CandidateEntry \cup {None}]
        /\ candidates'[c] = entry /\ \A d \in Candidate \ {c} : candidates'[d] = candidates[d]
    BY <1>4, <2>2 DEF IInv, Shape, TypeOK
  <2>4. \A d \in Candidate : Authorized(d)' <=> Authorized(d)
    BY <1>4, <2>2, <2>3 DEF Authorized
  <2>5. Shape'
    <3>1. \A q \in Proc : st'[q].pc \in Steps
      BY <2>1 DEF Moves, Locals
    <3> QED
      BY <1>1, <2>1, <2>3, <3>1 DEF IInv, Shape, TypeOK, Moves, Opened
  <2>6. Grows
    BY <1>1, <1>4, <2>3 DEF Grows
  <2>7. Granted' /\ Executed' /\ ProofCoversHolders'
    BY <1>1, <2>4, <2>5, <2>6, DeletionsKept, ProofsKept
  <2>8. Watched' /\ KnownAreRegistered'
    BY <1>1, WatchKeeps DEF IInv, KnownAreRegistered
  <2>9. Spent'
    BY <1>1, <1>4, <2>3, <2>4, <2>6 DEF IInv, Spent, Grows, Authorized
  <2>10. ASSUME NEW q \in Proc PROVE Knows(q)'
    <3>1. ~Inside(q)
      BY <1>4, Typed
    <3> QED
      BY <2>1, <2>5, <2>6, <3>1, KnowsKept DEF Moves
  <2> QED
    BY <2>5, <2>6, <2>7, <2>8, <2>9, <2>10 DEF IInv
<1> QED
  BY <1>1, <1>3, <1>4 DEF AppendCandidate

LEMMA AuthorizeStep == ASSUME IInv, Watch, NEW p \in Proc, Authorize(p) PROVE IInv' /\ Grows
<1>1. PICK c \in Candidate, a \in Approval :
        /\ candidates[c] # None /\ ~Authorized(c)
        /\ st' = [st EXCEPT ![p] = [Idle EXCEPT !.pc = "classes", !.op = "authorize",
                                                !.candidate = c, !.approval = a,
                                                !.at = candidates[c].content.at]]
        /\ known' = [known EXCEPT ![c] = holders]
  BY DEF Authorize
<1> DEFINE new == [Idle EXCEPT !.pc = "classes", !.op = "authorize", !.candidate = c,
                               !.approval = a, !.at = candidates[c].content.at]
<1>2. /\ writer = None /\ writer' = p
      /\ UNCHANGED <<classes, holds, holders, candidates, approvals, transactions, proved, faults>>
      /\ writes' \in Nat /\ calls' \in Nat
  BY Typed DEF Authorize, ledgerVars, deletionVars, CountCall
<1>3. candidates[c].content.at \in Time
  BY <1>1, Entries DEF IInv, CandidateEntry, Contents
<1>4. /\ new \in Locals /\ new.pc = "classes" /\ new.op = "authorize" /\ new.candidate = c
      /\ new.approval = a /\ new.at = candidates[c].content.at
  BY <1>3, IdleType DEF Locals, Steps
<1>5. st' = [st EXCEPT ![p] = new]
  BY <1>1
<1> HIDE DEF new
<1>6. Moves(p) /\ st'[p] = new
  BY <1>4, <1>5, Became DEF IInv
<1>7. /\ \A d \in Candidate : /\ Authorized(d)' <=> Authorized(d)
                              /\ Authorized(d) => known'[d] = known[d]
      /\ known' \in [Candidate -> SUBSET Holder] /\ known'[c] = holders
      /\ \A d \in Candidate \ {c} : known'[d] = known[d]
  BY <1>1, <1>2 DEF Authorized, IInv, Shape, TypeOK
<1>8. Shape'
  <2>1. \A q \in Proc : st'[q].pc \in Steps
    BY <1>6 DEF Moves, Locals
  <2> QED
    BY <1>2, <1>6, <1>7, <2>1 DEF IInv, Shape, TypeOK, Moves, Opened
<1>9. Grows
  BY <1>2 DEF Grows
<1>10. Granted' /\ Executed' /\ ProofCoversHolders'
  BY <1>2, <1>7, <1>8, <1>9, DeletionsKept, ProofsKept
<1>11. Watched' /\ KnownAreRegistered'
  BY <1>2, <1>7, WatchKeeps DEF IInv, KnownAreRegistered
<1>12. Spent'
  BY <1>2, <1>7 DEF IInv, Spent, Authorized
<1>13. Knows(p)'
  <2>1. Derivation(p)'
    BY <1>3, <1>4, <1>6 DEF Derivation, Deriving, At
  <2>2. Authorization(p)'
    BY <1>1, <1>2, <1>4, <1>6, <1>7 DEF Authorization, At
  <2> QED
    BY <1>4, <1>6, <2>1, <2>2 DEF Knows, At
<1>14. ASSUME NEW q \in Proc PROVE Knows(q)'
  <2>1. ~Inside(q)
    BY <1>2, Typed
  <2> QED
    BY <1>6, <1>8, <1>9, <1>13, <2>1, KnowsKept DEF Moves
<1> QED
  BY <1>8, <1>9, <1>10, <1>11, <1>12, <1>14 DEF IInv

\* The writer with the approval consumed knows that it is granted for what it reviewed.
LEMMA SettleStep == ASSUME IInv, Watch, NEW p \in Proc, Settle(p) PROVE IInv' /\ Grows
<1> DEFINE c == st[p].candidate
           a == st[p].approval
<1>1. /\ At(p, "settle") /\ Derivation(p) /\ st[p] \in Locals /\ Inside(p)
      /\ writer = p /\ writer # None /\ Authorization(p)
      /\ UNCHANGED <<ledgerVars, candidates, transactions, known, proved, counters>>
      /\ UNCHANGED <<classes, holds, holders, writes, calls, faults>>
  <2>1. At(p, "settle") /\ Derivation(p)
    BY Typed DEF Settle, Knows
  <2>2. Inside(p)
    BY <2>1 DEF Inside, Derivation, Deriving, At
  <2> QED
    BY <2>1, <2>2, Typed DEF Settle, ledgerVars, counters
<1>2. Counted
  BY <1>1, Typed DEF Counted
<1>3. CASE /\ Return(p, IF Undrifted(p) THEN "refused" ELSE "drift")
           /\ writer' = None /\ UNCHANGED approvals
  <2>1. (IF Undrifted(p) THEN "refused" ELSE "drift") \in Outcomes
    BY DEF Outcomes
  <2> QED
    BY <1>1, <1>2, <1>3, <2>1, ReturnStep DEF At, deletionVars
<1>4. CASE /\ Undrifted(p) /\ Consumable(a, c)
           /\ approvals' = [approvals EXCEPT ![a].status = "consumed"]
           /\ st' = [st EXCEPT ![p] = [Idle EXCEPT !.pc = "record", !.candidate = c,
                                                   !.approval = a]]
           /\ UNCHANGED writer
  <2> DEFINE new == [Idle EXCEPT !.pc = "record", !.candidate = c, !.approval = a]
             entry == [subject |-> candidates[c].content, status |-> "consumed"]
  <2>1. /\ c \in Candidate /\ candidates[c] # None /\ ~Authorized(c) /\ a \in Approval
        /\ candidates[c] \in CandidateEntry /\ candidates[c].content \in Contents
    BY <1>1, Entries DEF Authorization, IInv, CandidateEntry
  <2>2. /\ approvals[a] \in ApprovalEntry /\ approvals[a].status = "granted"
        /\ approvals[a].subject = candidates[c].content
    BY <1>4, <2>1, Entries DEF Consumable, IInv
  <2>3. /\ approvals' = [approvals EXCEPT ![a] = entry]
        /\ entry \in ApprovalEntry /\ entry.status = "consumed"
    <3>1. [approvals[a] EXCEPT !.status = "consumed"] = entry
      BY <2>2 DEF ApprovalEntry
    <3> QED
      BY <1>4, <2>1, <3>1 DEF ApprovalEntry, IInv, Shape, TypeOK
  <2>4. new \in Locals /\ new.pc = "record" /\ new.candidate = c /\ new.approval = a
    BY <2>1, IdleType DEF Locals, Steps
  <2>5. st' = [st EXCEPT ![p] = new]
    BY <1>4
  <2> HIDE DEF new
  <2>6. Moves(p) /\ st'[p] = new
    BY <2>4, <2>5, Became DEF IInv
  <2>7. /\ approvals' \in [Approval -> ApprovalEntry \cup {None}] /\ approvals'[a] = entry
        /\ \A b \in Approval \ {a} : approvals'[b] = approvals[b]
    BY <2>1, <2>3 DEF IInv, Shape, TypeOK
  <2>8. Shape'
    <3>1. \A q \in Proc : st'[q].pc \in Steps
      BY <2>6 DEF Moves, Locals
    <3> QED
      BY <1>1, <1>4, <2>6, <2>7, <3>1 DEF IInv, Shape, TypeOK, Moves, Opened
  <2>9. Grows
    BY <1>1, <2>2, <2>7 DEF Grows
  <2>10. UNCHANGED <<candidates, known, transactions, proved>>
         /\ \A d \in Candidate : Authorized(d)' <=> Authorized(d)
    BY <1>1 DEF Authorized
  <2>11. Granted' /\ Executed' /\ ProofCoversHolders'
    BY <2>8, <2>9, <2>10, DeletionsKept, ProofsKept
  <2>12. Watched' /\ KnownAreRegistered' /\ during \subseteq during'
    BY <1>1, <1>4, WatchKeeps DEF IInv, KnownAreRegistered
  <2>13. Spent'
    <3> SUFFICES ASSUME NEW b \in Approval, approvals'[b] # None, approvals'[b].status = "consumed"
                 PROVE  \/ \E d \in Candidate : Authorized(d) /\ candidates[d].approval = b
                        \/ faults > 0
                        \/ At(p, "record")' /\ st'[p].approval = b
      BY <1>1, <1>4, <2>10 DEF Spent
    <3>1. CASE b = a
      BY <2>4, <2>6, <3>1 DEF At
    <3>2. CASE b # a
      BY <1>1, <2>7, <3>2 DEF IInv, Spent, At
    <3> QED
      BY <3>1, <3>2
  <2>14. Reviewed(candidates[c].content, during)
    <3>1. PICK k \in during, h \in during, o \in during :
            st[p].classes = k.classes /\ st[p].holds = h.holds /\ st[p].holders = o.holders
      BY <1>1 DEF Authorization, At
    <3>2. candidates[c].content = Content(k.classes, h.holds, o.holders, candidates[c].content.at)
      BY <1>1, <1>4, <3>1 DEF Undrifted, Derived, Authorization, At
    <3> QED
      BY <3>2 DEF Reviewed
  <2>15. known[c] \subseteq candidates[c].content.holders
    <3>1. Derived(p).holders = st[p].holders
      BY <1>1, ContentType DEF Derived, Derivation, Deriving, At, Locals
    <3> QED
      BY <1>1, <1>4, <3>1 DEF Undrifted, Authorization
  <2>16. \A d \in Candidate : Authorized(d) => candidates[d].approval # a
    <3> SUFFICES ASSUME NEW d \in Candidate, Authorized(d), candidates[d].approval = a PROVE FALSE
      OBVIOUS
    <3>1. approvals[a] = [subject |-> candidates[d].content, status |-> "consumed"]
      BY DEF IInv, Granted
    <3> QED
      BY <2>2, <3>1
  <2>17. Authorization(p)'
    <3>1. Reviewed(candidates[c].content, during')
      BY <2>12, <2>14 DEF Reviewed
    <3> QED
      BY <1>1, <1>4, <2>1, <2>4, <2>6, <2>7, <2>10, <2>15, <2>16, <3>1 DEF Authorization, At
  <2>18. Knows(p)'
    BY <2>4, <2>6, <2>17 DEF Knows, Derivation, Deriving, At
  <2>19. ASSUME NEW q \in Proc PROVE Knows(q)'
    <3>1. q # p => ~Inside(q)
      BY <1>1, Typed
    <3> QED
      BY <2>6, <2>8, <2>9, <2>18, <3>1, KnowsKept DEF Moves
  <2> QED
    BY <2>8, <2>9, <2>11, <2>12, <2>13, <2>19 DEF IInv
<1> QED
  BY <1>3, <1>4 DEF Settle

LEMMA RecordAuthorizationStep ==
    ASSUME IInv, Watch, NEW p \in Proc, RecordAuthorization(p) PROVE IInv' /\ Grows
<1>1. /\ At(p, "record") /\ Inside(p) /\ writer = p /\ writer # None /\ Authorization(p)
      /\ writer' = None
      /\ UNCHANGED <<ledgerVars, approvals, transactions, known, proved, writes, calls>>
      /\ UNCHANGED <<classes, holds, holders>>
  BY Typed DEF RecordAuthorization, Inside, ledgerVars
<1>2. PICK c \in Candidate, a \in Approval : c = st[p].candidate /\ a = st[p].approval
  BY <1>1 DEF Authorization
<1>3. CASE /\ faults < instance.faults /\ faults' = faults + 1
           /\ Return(p, "failed") /\ UNCHANGED candidates
  <2>1. Counted /\ faults' > 0 /\ "failed" \in Outcomes
    BY <1>1, <1>3, Typed DEF Counted, Outcomes
  <2> QED
    BY <1>1, <1>3, <2>1, ReturnStep DEF deletionVars
<1>4. CASE /\ candidates' = [candidates EXCEPT ![c].approval = a]
           /\ Return(p, "ok") /\ UNCHANGED faults
  <2> DEFINE entry == [content |-> candidates[c].content, approval |-> a]
  <2>1. /\ c \in Candidate /\ candidates[c] # None /\ ~Authorized(c) /\ a \in Approval
        /\ candidates[c] \in CandidateEntry /\ candidates[c].content \in Contents
    BY <1>1, <1>2, Entries DEF Authorization, IInv, CandidateEntry
  <2>2. /\ candidates' = [candidates EXCEPT ![c] = entry] /\ entry \in CandidateEntry
        /\ entry.content = candidates[c].content /\ entry.approval = a
    <3>1. [candidates[c] EXCEPT !.approval = a] = entry
      BY <2>1 DEF CandidateEntry
    <3> QED
      BY <1>4, <2>1, <3>1 DEF CandidateEntry, IInv, Shape, TypeOK
  <2> HIDE DEF entry
  <2>3. /\ candidates' \in [Candidate -> CandidateEntry \cup {None}] /\ candidates'[c] = entry
        /\ \A d \in Candidate \ {c} : candidates'[d] = candidates[d]
    BY <2>1, <2>2 DEF IInv, Shape, TypeOK
  <2>4. /\ Authorized(c)'
        /\ \A d \in Candidate \ {c} : Authorized(d)' <=> Authorized(d)
    BY <2>1, <2>2, <2>3, Values DEF Authorized
  <2>5. Moves(p) /\ Knows(p)'
    BY <1>4, Returned DEF Outcomes, IInv
  <2>6. Shape'
    <3>1. \A q \in Proc : st'[q].pc \in Steps
      BY <2>5 DEF Moves, Locals
    <3> QED
      BY <1>1, <1>4, <2>3, <2>5, <3>1 DEF IInv, Shape, TypeOK, Moves, Opened
  <2>7. Grows
    BY <1>1, <2>1, <2>2, <2>3, Values DEF Grows
  <2>8. /\ known[c] \subseteq candidates[c].content.holders
        /\ approvals[a] = [subject |-> candidates[c].content, status |-> "consumed"]
        /\ \A d \in Candidate : Authorized(d) => candidates[d].approval # a
    BY <1>1, <1>2 DEF Authorization
  <2>9. Granted'
    BY <1>1, <2>1, <2>2, <2>3, <2>4, <2>8 DEF IInv, Granted
  <2>10. ASSUME NEW t \in Opened
         PROVE  /\ transactions[t].candidate \in Candidate
                /\ Authorized(transactions[t].candidate)'
                /\ candidates'[transactions[t].candidate] = candidates[transactions[t].candidate]
    <3>1. transactions[t].candidate \in Candidate /\ Authorized(transactions[t].candidate)
      BY Entries DEF IInv, Executed
    <3>2. ASSUME NEW d \in Candidate, Authorized(d)
          PROVE  Authorized(d)' /\ candidates'[d] = candidates[d]
      BY <2>1, <2>3, <2>4, <3>2
    <3> QED
      BY <1>1, <3>1, <3>2 DEF Authorized
  <2>11. Executed'
    BY <1>1, <2>10 DEF IInv, Executed, Opened
  <2>12. ProofCoversHolders'
    BY <1>1, <2>7, ProofsKept
  <2>13. Watched' /\ KnownAreRegistered'
    BY <1>1, WatchKeeps DEF IInv, KnownAreRegistered
  <2>14. Spent'
    <3> SUFFICES ASSUME NEW b \in Approval, approvals[b] # None, approvals[b].status = "consumed"
                 PROVE  \/ \E d \in Candidate : Authorized(d)' /\ candidates'[d].approval = b
                        \/ faults > 0
      BY <1>1, <1>4, <1>2 DEF Spent
    <3>1. CASE b = a
      BY <2>1, <2>2, <2>3, <2>4, <3>1
    <3>2. CASE b # a /\ ~(faults > 0)
      <4>1. PICK d \in Candidate : Authorized(d) /\ candidates[d].approval = b
        BY <1>1, <1>2, <3>2 DEF IInv, Spent
      <4> QED
        BY <2>1, <2>3, <2>4, <4>1
    <3> QED
      BY <3>1, <3>2
  <2>15. ASSUME NEW q \in Proc PROVE Knows(q)'
    <3>1. q # p => ~Inside(q)
      BY <1>1, Typed
    <3> QED
      BY <2>5, <2>6, <2>7, <3>1, KnowsKept DEF Moves
  <2> QED
    BY <2>6, <2>7, <2>9, <2>11, <2>12, <2>13, <2>14, <2>15 DEF IInv
<1> QED
  BY <1>3, <1>4, <1>2 DEF RecordAuthorization

\* A step that changes the transactions alone, and opens at most one, which executes an
\* authorized candidate nothing else executes.
LEMMA TransactionsStep ==
    ASSUME IInv, Watch, NEW t \in Transaction, NEW tx \in TransactionEntry,
           transactions' = [transactions EXCEPT ![t] = tx],
           UNCHANGED <<ledgerVars, candidates, approvals, writer, known, proved, counters>>,
           Authorized(tx.candidate), Grows,
           DOMAIN tx.receipts = candidates[tx.candidate].content.holders,
           \A u \in Opened \ {t} : transactions[u].candidate # tx.candidate,
           \/ UNCHANGED st
           \/ \E p \in Proc : Moves(p) /\ Knows(p)' /\ ~Inside(p)
    PROVE  IInv'
<1>1. /\ UNCHANGED <<classes, holds, holders, candidates, approvals, writer, known, proved>>
      /\ UNCHANGED <<writes, calls, faults>>
  BY DEF ledgerVars, counters
<1>2. /\ transactions' \in [Transaction -> TransactionEntry \cup {None}] /\ transactions'[t] = tx
      /\ \A u \in Transaction \ {t} : transactions'[u] = transactions[u]
  BY DEF IInv, Shape, TypeOK
<1>3. Opened' = Opened \cup {t}
  BY <1>2, Values DEF Opened
<1>4. /\ st' \in [Proc -> Locals]
      /\ \A q \in Proc : st'[q] = st[q] \/ (Knows(q)' /\ ~Inside(q))
  BY DEF Moves, IInv, Shape
<1>5. Shape'
  <2>1. \A q \in Proc : st'[q].pc \in Steps
    BY <1>4 DEF Locals
  <2>2. proved' \subseteq Opened'
    BY <1>1, <1>3 DEF IInv, Shape, TypeOK
  <2> QED
    BY <1>1, <1>2, <1>4, <2>1, <2>2 DEF IInv, Shape, TypeOK
<1>6. \A c : Authorized(c)' <=> Authorized(c)
  BY <1>1 DEF Authorized
<1>7. Granted'
  BY <1>1, <1>6 DEF IInv, Granted
<1>8. Executed'
  <2>1. ASSUME NEW u \in Opened'
        PROVE  /\ Authorized(transactions'[u].candidate)
               /\ DOMAIN transactions'[u].receipts = candidates[transactions'[u].candidate].content.holders
    BY <1>2, <1>3 DEF IInv, Executed, Opened
  <2>2. ASSUME NEW u \in Opened', NEW v \in Opened',
               transactions'[v].candidate = transactions'[u].candidate
        PROVE  v = u
    BY <1>2, <1>3, <2>2 DEF IInv, Executed, Opened
  <2> QED
    BY <1>1, <2>1, <2>2 DEF Executed, Authorized
<1>9. ProofCoversHolders'
  BY <1>1, ProofsKept
<1>10. Watched' /\ KnownAreRegistered'
  BY <1>1, WatchKeeps DEF IInv, KnownAreRegistered
<1>11. ASSUME NEW q \in Proc PROVE Knows(q)'
  <2>1. Inside(q) => writer # None /\ during \subseteq during'
    BY <1>1, Typed, WatchKeeps
  <2> QED
    BY <1>1, <1>4, <1>5, <1>6, <2>1, KnowsKept
<1>12. Spent'
  <2>1. writer # None /\ At(writer, "record") => st'[writer] = st[writer]
    BY <1>4 DEF Inside, IInv, Shape, TypeOK
  <2> QED
    BY <1>1, <1>6, <2>1 DEF IInv, Spent, At, Authorized
<1> QED
  BY <1>5, <1>7, <1>8, <1>9, <1>10, <1>11, <1>12 DEF IInv

LEMMA OpenTransactionStep ==
    ASSUME IInv, Watch, NEW p \in Proc, OpenTransaction(p) PROVE IInv' /\ Grows
<1> DEFINE c == st[p].candidate
<1>1. /\ At(p, "open") /\ c \in Candidate /\ Authorized(c) /\ ~Inside(p)
      /\ UNCHANGED <<ledgerVars, candidates, approvals, writer, known, proved, counters>>
  BY Typed DEF OpenTransaction, Knows, Inside, At, Deriving
<1>2. CASE Return(p, "refused") /\ UNCHANGED transactions
  <2>1. Counted /\ "refused" \in Outcomes
    BY <1>1, Typed DEF Counted, Outcomes, counters
  <2> QED
    BY <1>1, <1>2, <2>1, ReturnStep DEF At, deletionVars
<1>3. CASE /\ Return(p, "ok")
           /\ \E t \in Transaction \ Opened :
                 /\ NotExecuted(c)
                 /\ transactions' = [transactions EXCEPT ![t] =
                       [candidate |-> c,
                        receipts |-> [o \in candidates[c].content.holders |-> None]]]
  <2> DEFINE tx == [candidate |-> c, receipts |-> [o \in candidates[c].content.holders |-> None]]
  <2>1. PICK t \in Transaction \ Opened :
          NotExecuted(c) /\ transactions' = [transactions EXCEPT ![t] = tx]
    BY <1>3
  <2>2. candidates[c].content.holders \in SUBSET Holder
    BY <1>1, Entries DEF IInv, Contents
  <2>3. /\ tx \in TransactionEntry /\ tx.candidate = c
        /\ DOMAIN tx.receipts = candidates[c].content.holders
    <3>1. [o \in candidates[c].content.holders |-> None] \in Partial(Holder, {None, "settled", "unsettled"})
      BY <2>2 DEF Partial
    <3> QED
      BY <1>1, <3>1 DEF TransactionEntry
  <2> HIDE DEF tx
  <2>4. Grows
    <3>1. \A u \in Transaction : transactions[u] # None => transactions'[u] = transactions[u]
      BY <2>1 DEF Opened, IInv, Shape, TypeOK
    <3> QED
      BY <1>1, <3>1 DEF Grows, ledgerVars
  <2>5. \A u \in Opened \ {t} : transactions[u].candidate # tx.candidate
    BY <2>1, <2>3 DEF NotExecuted
  <2>6. Moves(p) /\ Knows(p)'
    BY <1>3, Returned DEF Outcomes, IInv
  <2>7. IInv'
    BY <1>1, <2>1, <2>3, <2>4, <2>5, <2>6, TransactionsStep
  <2> QED
    BY <2>4, <2>7
<1> QED
  BY <1>2, <1>3 DEF OpenTransaction

LEMMA SettleHolderStep ==
    ASSUME IInv, Watch, NEW t \in Transaction, NEW o \in Holder, SettleHolder(t, o)
    PROVE  IInv' /\ Grows
<1>1. PICK receipt \in {"settled", "unsettled"} :
        transactions' = [transactions EXCEPT ![t].receipts[o] = receipt]
  BY DEF SettleHolder
<1> DEFINE old == transactions[t]
           tx == [candidate |-> old.candidate, receipts |-> [old.receipts EXCEPT ![o] = receipt]]
<1>2. /\ t \in Opened /\ Retryable(t, o)
      /\ UNCHANGED <<ledgerVars, candidates, approvals, writer, st, known, proved, counters>>
  BY DEF SettleHolder
<1>3. old \in TransactionEntry
  BY <1>2, Entries DEF IInv
<1>4. PICK D \in SUBSET Holder : old.receipts \in [D -> {None, "settled", "unsettled"}]
  BY <1>3 DEF TransactionEntry, Partial
<1>5. /\ tx \in TransactionEntry /\ tx.candidate = old.candidate
      /\ DOMAIN tx.receipts = DOMAIN old.receipts
      /\ \A x \in DOMAIN old.receipts : old.receipts[x] = "settled" => tx.receipts[x] = "settled"
  <2>1. [old.receipts EXCEPT ![o] = receipt] \in [D -> {None, "settled", "unsettled"}]
    BY <1>4
  <2>2. [old.receipts EXCEPT ![o] = receipt] \in Partial(Holder, {None, "settled", "unsettled"})
    BY <2>1 DEF Partial
  <2>3. \A x \in D : old.receipts[x] = "settled" => [old.receipts EXCEPT ![o] = receipt][x] = "settled"
    BY <1>2, <1>4 DEF Retryable
  <2> QED
    BY <1>3, <1>4, <2>1, <2>2, <2>3 DEF TransactionEntry
<1>6. transactions' = [transactions EXCEPT ![t] = tx]
  <2>1. [old EXCEPT !.receipts = [old.receipts EXCEPT ![o] = receipt]] = tx
    BY <1>3 DEF TransactionEntry
  <2> QED
    BY <1>1, <2>1
<1> HIDE DEF tx
<1>7. Grows
  BY <1>2, <1>5, <1>6, Values DEF Grows, ledgerVars, Opened, IInv, Shape, TypeOK
<1>8. /\ Authorized(tx.candidate)
      /\ DOMAIN tx.receipts = candidates[tx.candidate].content.holders
      /\ \A u \in Opened \ {t} : transactions[u].candidate # tx.candidate
  BY <1>2, <1>5 DEF IInv, Executed
<1>9. IInv'
  BY <1>2, <1>5, <1>6, <1>7, <1>8, TransactionsStep
<1> QED
  BY <1>7, <1>9

\* The candidates of the transactions a reader has seen are there, and what it has seen
\* completed is.
LEMMA ResolveStep ==
    ASSUME IInv, Watch, NEW p \in Proc, Resolve(p)
    PROVE  IInv' /\ Grows /\ st'[p].result # "corrupt"
<1> DEFINE seen == {t \in Transaction : st[p].transactions[t] # None}
           done == {t \in seen : Completed(st[p].transactions[t])}
<1>1. /\ At(p, "resolve") /\ Snapshot(p)
      /\ UNCHANGED <<ledgerVars, deletionVars, writer, known, counters>>
      /\ UNCHANGED <<transactions, candidates, known>>
  BY Typed DEF Resolve, Knows, deletionVars
<1>2. ASSUME NEW t \in seen
      PROVE  /\ t \in Opened /\ Authorized(transactions[t].candidate)
             /\ transactions[t].candidate \in Candidate
             /\ candidates[st[p].transactions[t].candidate] # None
  BY <1>1, Entries DEF Snapshot, Opened, IInv, Executed
<1>3. Return(p, "ok") /\ proved' = proved \cup done /\ "ok" \in Outcomes
  BY <1>2 DEF Resolve, Outcomes
<1>4. Moves(p) /\ Knows(p)' /\ st'[p].result = "ok"
  BY <1>3, Returned DEF IInv
<1>5. proved' \subseteq Opened
  BY <1>2, <1>3 DEF IInv, Shape, TypeOK
<1>6. ProofCoversHolders'
  <2>1. ASSUME NEW t \in proved, NEW o \in known[transactions[t].candidate]
        PROVE  o \in DOMAIN transactions[t].receipts /\ transactions[t].receipts[o] = "settled"
    BY DEF IInv, ProofCoversHolders
  <2>2. ASSUME NEW t \in done, NEW o \in known[transactions[t].candidate]
        PROVE  o \in DOMAIN transactions[t].receipts /\ transactions[t].receipts[o] = "settled"
    <3>1. o \in DOMAIN transactions[t].receipts
      BY <1>2 DEF IInv, Granted, Executed
    <3> QED
      BY <1>1, <3>1 DEF Snapshot, Completed
  <2> QED
    BY <1>1, <1>3, <2>1, <2>2 DEF ProofCoversHolders
<1>7. Counted
  BY <1>1, Typed DEF Counted, counters
<1>8. IInv' /\ Grows
  BY <1>1, <1>4, <1>5, <1>6, <1>7, QuietStep DEF At
<1> QED
  BY <1>4, <1>8

---------------------------------------------------------------------------
(* Classifications, holds, Holders and approvals.                          *)

\* An append to one of the ledgers a candidate is derived from, a grant or a revocation.
LEMMA LedgerStep ==
    ASSUME IInv, Watch, Shape', UNCHANGED <<candidates, transactions, writer, st, known, proved, faults>>,
           holders \subseteq holders',
           \A a \in Approval : approvals[a] # None /\ approvals[a].status = "consumed" =>
              approvals'[a] = approvals[a],
           \A a \in Approval : approvals'[a] # None /\ approvals'[a].status = "consumed" =>
              approvals'[a] = approvals[a]
    PROVE  IInv' /\ Grows
<1>1. \A c \in Candidate : Authorized(c)' <=> Authorized(c)
  BY DEF Authorized
<1>2. Grows
  BY DEF Grows
<1>3. Granted' /\ Executed' /\ ProofCoversHolders'
  BY <1>1, <1>2, DeletionsKept, ProofsKept
<1>4. Watched' /\ KnownAreRegistered'
  BY WatchKeeps DEF IInv, KnownAreRegistered
<1>5. Spent'
  BY <1>1 DEF IInv, Spent, At, Authorized
<1>6. ASSUME NEW q \in Proc PROVE Knows(q)'
  <2>1. Inside(q) => during \subseteq during'
    BY Typed, WatchKeeps
  <2> QED
    BY <1>1, <1>2, <2>1, KnowsKept
<1> QED
  BY <1>2, <1>3, <1>4, <1>5, <1>6 DEF IInv

LEMMA AppendStep == ASSUME IInv, Watch, Append PROVE IInv' /\ Grows
<1>1. UNCHANGED <<candidates, transactions, writer, st, known, proved, calls, faults>>
  BY DEF Append
<1>2. UNCHANGED Opened /\ writes \in Nat /\ TypeOK
  BY <1>1 DEF Opened, IInv, Shape, TypeOK
<1>3. ASSUME UNCHANGED approvals, holders \subseteq holders', writes' \in Nat,
             classes' \in [Record -> Classification \cup {None}],
             holds' \in [Hold -> HoldEntry \cup {None}], holders' \subseteq Holder
      PROVE  IInv' /\ Grows
  <2>1. Shape'
    BY <1>1, <1>2, <1>3 DEF IInv, Shape, TypeOK
  <2> QED
    BY <1>1, <1>3, <2>1, LedgerStep
<1>4. ASSUME NEW a \in Approval, NEW entry \in ApprovalEntry, UNCHANGED <<ledgerVars, writes>>,
             approvals[a] = None \/ approvals[a].status = "granted",
             approvals' = [approvals EXCEPT ![a] = entry], entry.status # "consumed"
      PROVE  IInv' /\ Grows
  <2>1. /\ approvals' \in [Approval -> ApprovalEntry \cup {None}] /\ approvals'[a] = entry
        /\ \A b \in Approval \ {a} : approvals'[b] = approvals[b]
        /\ UNCHANGED <<classes, holds, holders>>
    BY <1>2, <1>4 DEF TypeOK, ledgerVars
  <2>2. Shape'
    BY <1>1, <1>2, <1>4, <2>1 DEF IInv, Shape, TypeOK
  <2> QED
    BY <1>1, <1>4, <2>1, <2>2, LedgerStep
<1>5. ASSUME NEW r \in Record, Classify(r) PROVE IInv' /\ Grows
  BY <1>2, <1>3, <1>5 DEF Classify, CountWrite, TypeOK
<1>6. ASSUME NEW h \in Hold, PlaceHold(h) PROVE IInv' /\ Grows
  <2>1. PICK scope \in SUBSET Record \ {{}} :
          holds' = [holds EXCEPT ![h] = [scope |-> scope, released |-> FALSE]]
    BY <1>6 DEF PlaceHold
  <2>2. [scope |-> scope, released |-> FALSE] \in HoldEntry
    BY DEF HoldEntry
  <2>3. holds' \in [Hold -> HoldEntry \cup {None}]
    BY <1>2, <2>1, <2>2 DEF TypeOK
  <2> QED
    BY <1>2, <1>3, <1>6, <2>3 DEF PlaceHold, CountWrite, TypeOK
<1>7. ASSUME NEW h \in Hold, ReleaseHold(h) PROVE IInv' /\ Grows
  <2>1. holds[h] \in HoldEntry /\ holds' = [holds EXCEPT ![h].released = TRUE]
    BY <1>2, <1>7 DEF ReleaseHold, TypeOK
  <2>2. [holds[h] EXCEPT !.released = TRUE] \in HoldEntry
    BY <2>1 DEF HoldEntry
  <2>3. holds' \in [Hold -> HoldEntry \cup {None}]
    BY <1>2, <2>1, <2>2 DEF TypeOK
  <2> QED
    BY <1>2, <1>3, <1>7, <2>3 DEF ReleaseHold, CountWrite, TypeOK
<1>8. ASSUME NEW o \in Holder, RegisterHolder(o) PROVE IInv' /\ Grows
  BY <1>2, <1>3, <1>8 DEF RegisterHolder, CountWrite, TypeOK
<1>9. ASSUME NEW a \in Approval, Revoke(a) PROVE IInv' /\ Grows
  <2> DEFINE entry == [approvals[a] EXCEPT !.status = "revoked"]
  <2>1. approvals[a] \in ApprovalEntry
    BY <1>2, <1>9 DEF Revoke, TypeOK
  <2>2. entry \in ApprovalEntry /\ entry.status # "consumed"
    BY <2>1 DEF ApprovalEntry
  <2>3. approvals' = [approvals EXCEPT ![a] = entry]
    BY <1>9 DEF Revoke
  <2> HIDE DEF entry
  <2> QED
    BY <1>4, <1>9, <2>2, <2>3 DEF Revoke
<1>10. ASSUME NEW a \in Approval, NEW c \in Candidate, Grant(a, c) PROVE IInv' /\ Grows
  <2> DEFINE entry == [subject |-> candidates[c].content, status |-> "granted"]
  <2>1. candidates[c].content \in Contents
    BY <1>10, Entries DEF Grant, IInv, CandidateEntry
  <2>2. entry \in ApprovalEntry /\ entry.status # "consumed"
    BY <2>1 DEF ApprovalEntry
  <2>3. approvals' = [approvals EXCEPT ![a] = entry]
    BY <1>10 DEF Grant
  <2> HIDE DEF entry
  <2> QED
    BY <1>4, <1>10, <2>2, <2>3 DEF Grant
<1> QED
  BY <1>5, <1>6, <1>7, <1>8, <1>9, <1>10 DEF Append

---------------------------------------------------------------------------
(* The theorems.                                                           *)

LEMMA NextIInv == IInv /\ [Next]_vars => IInv' /\ Grows
<1> SUFFICES ASSUME IInv, [Next]_vars PROVE IInv' /\ Grows
  OBVIOUS
<1>1. CASE Next
  <2>1. Watch
    BY <1>1 DEF Next
  <2>2. ASSUME NEW p \in Proc, Derive(p) PROVE IInv' /\ Grows
    BY <2>1, <2>2, ReadClassesStep, ReadHoldsStep, ReadHoldersStep DEF Derive
  <2>3. ASSUME NEW p \in Proc,
               Prepare(p) \/ AppendCandidate(p) \/ Authorize(p) \/ Settle(p)
               \/ RecordAuthorization(p) \/ Execute(p) \/ OpenTransaction(p)
               \/ ReadTransactions(p) \/ Resolve(p) \/ Crash(p)
        PROVE  IInv' /\ Grows
    BY <2>1, <2>3, PrepareStep, AppendCandidateStep, AuthorizeStep, SettleStep,
       RecordAuthorizationStep, ExecuteStep, OpenTransactionStep, ReadTransactionsStep,
       ResolveStep, CrashStep
  <2>4. ASSUME NEW t \in Transaction, NEW o \in Holder, SettleHolder(t, o) PROVE IInv' /\ Grows
    BY <2>1, <2>4, SettleHolderStep
  <2> QED
    BY <1>1, <2>1, <2>2, <2>3, <2>4, AppendStep DEF Next
<1>2. CASE UNCHANGED vars
  <2>1. /\ UNCHANGED <<classes, holds, holders, candidates, approvals, transactions, writer, st,
                      during, known, proved, writes, calls, faults>>
        /\ UNCHANGED Opened /\ UNCHANGED View
        /\ \A c : Authorized(c)' <=> Authorized(c)
    BY <1>2 DEF vars, ledgerVars, deletionVars, counters, Authorized, Opened, View
  <2>2. Shape' /\ Grows
    BY <2>1 DEF IInv, Shape, TypeOK, Grows
  <2>3. Granted' /\ Executed' /\ ProofCoversHolders'
    BY <2>1, <2>2, DeletionsKept, ProofsKept
  <2>4. Watched' /\ KnownAreRegistered' /\ Spent'
    BY <2>1 DEF IInv, Watched, KnownAreRegistered, Spent, At, Authorized
  <2>5. ASSUME NEW q \in Proc PROVE Knows(q)'
    BY <2>1, <2>2, KnowsKept
  <2> QED
    BY <2>2, <2>3, <2>4, <2>5 DEF IInv
<1> QED
  BY <1>1, <1>2

\* The invariant of coordinated deletion: what an authorization, a transaction and a proof
\* rest on stays true, whatever is classified, held, registered, granted and revoked.
THEOREM Invariance == Spec => []IInv
<1>1. IInv /\ [Next]_vars => IInv'
  BY NextIInv
<1> QED
  BY <1>1, InitIInv, PTL DEF Spec

\* The ledgers have their types, in every behaviour.
THEOREM TypeCorrect == Spec => []TypeOK
<1>1. IInv => TypeOK
  BY DEF IInv, Shape
<1> QED
  BY <1>1, Invariance, PTL

\* Every deletion has one approval, granted for its content and spent on it alone, and is
\* executed once; no approval is spent for nothing but by a fault.
THEOREM DeletionsHaveOneApproval == Spec => []DeletionsAreApproved
<1>1. IInv => DeletionsAreApproved
  <2> SUFFICES ASSUME IInv PROVE DeletionsAreApproved
    OBVIOUS
  <2>1. ASSUME NEW t \in Opened, NEW u \in Opened
        PROVE  /\ Authorized(transactions[t].candidate)
               /\ t # u => candidates[transactions[t].candidate].approval
                            # candidates[transactions[u].candidate].approval
    <3>1. /\ transactions[t].candidate \in Candidate /\ Authorized(transactions[t].candidate)
          /\ transactions[u].candidate \in Candidate /\ Authorized(transactions[u].candidate)
      BY Entries DEF IInv, Executed
    <3>2. t # u => transactions[t].candidate # transactions[u].candidate
      BY DEF IInv, Executed
    <3> QED
      BY <3>1, <3>2 DEF IInv, Granted
  <2>2. ASSUME NEW a \in Approval
        PROVE  LET by == {c \in Candidate : candidates[c] # None /\ candidates[c].approval = a} IN
               /\ Cardinality(by) <= 1
               /\ \A c \in by : approvals[a] = [subject |-> candidates[c].content,
                                               status |-> "consumed"]
               /\ (approvals[a] # None /\ approvals[a].status = "consumed" /\ by = {}) =>
                       faults > 0 \/ (writer # None /\ st[writer].approval = a)
    <3> DEFINE by == {c \in Candidate : candidates[c] # None /\ candidates[c].approval = a}
    <3>1. \A c \in by : Authorized(c)
      BY Values DEF Authorized
    <3>2. Cardinality(by) <= 1
      <4>1. CASE by = {}
        BY <4>1, FS_EmptySet
      <4>2. CASE by # {}
        <5>1. PICK c \in by : TRUE
          BY <4>2
        <5>2. by = {c}
          BY <3>1, <5>1 DEF IInv, Granted
        <5> HIDE DEF by
        <5>3. Cardinality(by) = 1
          BY <5>2, FS_Singleton
        <5> QED
          BY <5>3
      <4> QED
        BY <4>1, <4>2
    <3>3. \A c \in by : approvals[a] = [subject |-> candidates[c].content, status |-> "consumed"]
      BY <3>1 DEF IInv, Granted
    <3>4. \A c \in Candidate : Authorized(c) /\ candidates[c].approval = a => c \in by
      BY DEF Authorized
    <3>5. (approvals[a] # None /\ approvals[a].status = "consumed" /\ by = {}) =>
             faults > 0 \/ (writer # None /\ st[writer].approval = a)
      BY <3>4 DEF IInv, Spent
    <3> QED
      BY <3>2, <3>3, <3>5
  <2> QED
    BY <2>1, <2>2 DEF DeletionsAreApproved
<1> QED
  BY <1>1, Invariance, PTL

\* A Deletion Proof is given only for a transaction that every Holder registered when the
\* authorization began has settled.
THEOREM ProofsAreCovered == Spec => []ProofCoversHolders
<1>1. IInv => ProofCoversHolders
  BY DEF IInv
<1> QED
  BY <1>1, Invariance, PTL

\* An authorization is recorded only for a content that each ledger said at some moment
\* since it began.
THEOREM ReviewsAreCurrent == Spec => ReviewIsCurrent
<1> DEFINE Current ==
      \A c \in Candidate : (Authorized(c)' /\ ~Authorized(c)) =>
        \E k, h, o \in during :
            candidates[c].content =
                Content(k.classes, h.holds, o.holders, candidates[c].content.at)
<1>1. IInv /\ [Next]_vars => [Current]_vars
  <2> SUFFICES ASSUME IInv, Next PROVE Current
    OBVIOUS
  <2>1. CASE UNCHANGED candidates
    BY <2>1 DEF Authorized
  <2>2. ASSUME NEW p \in Proc, AppendCandidate(p) PROVE Current
    <3>1. \A c \in Candidate : candidates'[c] = candidates[c] \/ candidates'[c].approval = None
      BY <2>2 DEF AppendCandidate, IInv, Shape, TypeOK
    <3> QED
      BY <3>1 DEF Authorized
  <2>3. ASSUME NEW p \in Proc, RecordAuthorization(p) PROVE Current
    <3>1. At(p, "record") /\ Authorization(p)
      BY <2>3, Typed DEF RecordAuthorization, Inside
    <3>2. Reviewed(candidates[st[p].candidate].content, during)
      BY <3>1 DEF Authorization
    <3>3. \A c \in Candidate : candidates'[c] = candidates[c] \/ c = st[p].candidate
      BY <2>3 DEF RecordAuthorization, IInv, Shape, TypeOK
    <3> QED
      BY <3>2, <3>3 DEF Authorized, Reviewed
  <2>4. ASSUME NEW p \in Proc,
               Prepare(p) \/ Derive(p) \/ Authorize(p) \/ Settle(p) \/ Execute(p)
               \/ OpenTransaction(p) \/ ReadTransactions(p) \/ Resolve(p) \/ Crash(p)
        PROVE  UNCHANGED candidates
    BY <2>4 DEF Prepare, Derive, Authorize, Settle, Execute, OpenTransaction, ReadTransactions,
       Resolve, Crash, deletionVars
  <2>5. ASSUME NEW t \in Transaction, NEW o \in Holder, SettleHolder(t, o)
        PROVE  UNCHANGED candidates
    BY <2>5 DEF SettleHolder
  <2>6. ASSUME Append PROVE UNCHANGED candidates
    BY <2>6 DEF Append
  <2> HIDE DEF Current
  <2> QED
    BY <2>1, <2>2, <2>3, <2>4, <2>5, <2>6 DEF Next
<1> QED
  BY <1>1, Invariance, PTL DEF Spec, ReviewIsCurrent

\* What a record's tombstone says never weakens.
LEMMA RankStands ==
    ASSUME IInv, Grows, NEW r \in Record
    PROVE  Rank(Tombstone(r)') >= Rank(Tombstone(r))
<1> DEFINE Naming == {t \in Opened :
                        r \in DOMAIN candidates[transactions[t].candidate].content.records}
<1>1. ASSUME NEW t \in Naming
      PROVE  t \in Naming' /\ (Completed(transactions[t]) => Completed(transactions'[t]))
  <2>1. t \in Opened /\ transactions[t].candidate \in Candidate /\ Authorized(transactions[t].candidate)
    BY Entries DEF IInv, Executed
  <2>2. /\ t \in Opened' /\ transactions'[t].candidate = transactions[t].candidate
        /\ candidates'[transactions[t].candidate] = candidates[transactions[t].candidate]
    BY <2>1 DEF Grows, Opened, Authorized
  <2>3. t \in Naming'
    BY <2>2
  <2>4. Completed(transactions[t]) => Completed(transactions'[t])
    BY <2>1 DEF Grows, Opened, Completed
  <2> QED
    BY <2>3, <2>4
<1>2. Tombstone(r) = IF Naming = {} THEN "live"
                     ELSE IF \E t \in Naming : Completed(transactions[t]) THEN "deleted"
                     ELSE "pending"
  BY DEF Tombstone
<1>3. Tombstone(r)' = IF Naming' = {} THEN "live"
                      ELSE IF \E t \in Naming' : Completed(transactions'[t]) THEN "deleted"
                      ELSE "pending"
  BY DEF Tombstone
<1> HIDE DEF Naming
<1>4. Naming # {} => Naming' # {}
  BY <1>1
<1>5. (\E t \in Naming : Completed(transactions[t])) => \E t \in Naming' : Completed(transactions'[t])
  BY <1>1
<1>6. Rank("live") = 0 /\ Rank("pending") = 1 /\ Rank("deleted") = 2
  BY DEF Rank
<1> HIDE DEF Rank
<1> QED
  BY <1>2, <1>3, <1>4, <1>5, <1>6

\* No reader is told that a ledger is corrupt, and a record shown as deleted or pending
\* never comes back.
THEOREM TombstonesAreFinal == Spec => TombstonesStand
<1> DEFINE Stands == /\ \A p \in Proc : st'[p].result # "corrupt"
                     /\ \A r \in Record : Rank(Tombstone(r)') >= Rank(Tombstone(r))
<1>1. IInv /\ IInv' /\ [Next]_vars => [Stands]_vars
  <2> SUFFICES ASSUME IInv, IInv', [Next]_vars PROVE Stands
    OBVIOUS
  <2>1. \A p \in Proc : st'[p].result # "corrupt"
    BY Values DEF IInv, Shape, Locals, Outcomes
  <2>2. Grows
    BY NextIInv
  <2>3. \A r \in Record : Rank(Tombstone(r)') >= Rank(Tombstone(r))
    BY <2>2, RankStands
  <2> QED
    BY <2>1, <2>3
<1> QED
  BY <1>1, Invariance, PTL DEF Spec, TombstonesStand

=============================================================================
