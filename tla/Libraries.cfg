SPECIFICATION LibrariesSpec
\* Every part stops at its bounds.
CHECK_DEADLOCK FALSE
CONSTANTS
    Payments = {p1, p2}
    MaxSequence = 5
    MaxObserved = 3
    alice = alice
    bob = bob
    carol = carol
    Signers = {alice, bob, carol}
    Snapshots <- MCSnapshots
    Threshold = 2
    Payloads = {t1, t2}
    MaxReseeds = 2
    Counters = {queued, disputes}
    Chosen = disputes
    Scrapers = {s1, s2}
    Window = 2
    MaxReleases = 2
    MaxTime = 5
    MaxEvents = 2
    Rows = {settled}
    Forgeries = {failed}
    MaxSize = 8
    MaxRewrites = 2
    Members = {m1, m2, m3, m4}
    Byzantine = {m4}
    Candidates = {a, b}
    Collectors = {x, y}
    QuorumSize = 3
    Supermajority = 3
    Devices = {d1, d2}
    Envelopes = {1, 2}
    Priorities = {0, 1}
    Times = {1, 2}
    Delay = 2
    MaxRounds = 2
    Threads = {n1, n2}
    MaxPayments = 3
    MaxPanics = 2
    Spendings = {rent, food, tea}
    Income = 3
    Largest = 4
INVARIANT EveryStrandedPaymentIsReported
INVARIANT PaidAtMostOnce
INVARIANT PromotedWithAuthority
INVARIANT EventInOneWindow
INVARIANT NoSecondDrawInWindow
 
 
INVARIANT CommitteeAgreement
 
INVARIANT PanicsStayContained
INVARIANT UnderWayIsCovered
