SPECIFICATION Spec
CONSTANTS
    Proc = {p1, p2}
    Record = {r1, r2}
    Hold = {h1, h2}
    Holder = {o1, o2}
    Candidate = {c1, c2}
    Approval = {a1, a2}
    Transaction = {t1, t2}
    None = None
    Time = {0, 1}
    Ttl = {1}
    Instances <- MCInstances
CHECK_DEADLOCK FALSE
INVARIANTS
    DeletionsAreApproved
    ProofCoversHolders
PROPERTIES
    ReviewIsCurrent
    TombstonesStand
SYMMETRY Symmetry
