---------------------------- MODULE LibraryProofs -----------------------------
(* The parts beside the engine: the dispute committee, the evidence of
   dispatch order, the private export of metrics and the native handle. *)
EXTENDS Committee, DispatchEvidence, PrivateExport, NativeHandle,
        FiniteSetTheorems, TLAPS

-------------------------------------------------------------------------------
(* Agreement of the committee for every committee, every set of Byzantine
   members within the bound, and any number of collectors and candidates. *)
(* An honest member has told every collector its one opinion or nothing. *)
HonestTellOneStory ==
    \A c \in Collectors, m \in Honest :
        ballots[c][m] # NoBallot => ballots[c][m] = opinion[m]

(* A decision keeps the votes that made it: no ballot comes in afterwards. *)
DecisionsAreBacked ==
    \A c \in Collectors :
        result[c] \in Candidates => Count(ballots[c], result[c]) >= Supermajority

CommitteeInv == CommitteeTypeOK /\ HonestTellOneStory /\ DecisionsAreBacked

(* Two sets of voters that share no honest member are too few to reach the
   threshold both. *)
LEMMA QuorumsMeet ==
    ASSUME NEW S, NEW T, S \subseteq Members, T \subseteq Members,
           S \cap T \subseteq Byzantine
    PROVE  ~(Cardinality(S) >= Supermajority /\ Cardinality(T) >= Supermajority)
<1>1. /\ IsFiniteSet(S) /\ IsFiniteSet(T) /\ IsFiniteSet(Byzantine)
      /\ Cardinality(Byzantine) \in Nat /\ Cardinality(Members) \in Nat
      /\ Cardinality(S) \in Nat /\ Cardinality(T) \in Nat
  BY CommitteeAssumption, FS_Subset, FS_CardinalityType
<1>2. /\ Cardinality(S \cup T) = Cardinality(S) + Cardinality(T) - Cardinality(S \cap T)
  BY <1>1, FS_Union
<1>3. /\ Cardinality(S \cap T) <= Cardinality(Byzantine)
      /\ Cardinality(S \cap T) \in Nat
  BY <1>1, FS_Subset, FS_CardinalityType
<1>4. /\ Cardinality(S \cup T) <= Cardinality(Members)
      /\ Cardinality(S \cup T) \in Nat
  <2>1. S \cup T \subseteq Members
    OBVIOUS
  <2> QED BY <2>1, CommitteeAssumption, FS_Subset, FS_CardinalityType
<1> QED BY <1>1, <1>2, <1>3, <1>4, CommitteeAssumption

LEMMA CommitteeInvImpliesAgreement == CommitteeInv => CommitteeAgreement
<1> SUFFICES ASSUME CommitteeInv,
                    NEW c \in Collectors, NEW d \in Collectors,
                    result[c] \in Candidates, result[d] \in Candidates,
                    result[c] # result[d]
             PROVE  FALSE
  BY DEF CommitteeAgreement
<1> DEFINE S == {m \in Members : ballots[c][m] = result[c]}
           T == {m \in Members : ballots[d][m] = result[d]}
<1>1. result[c] # NoBallot /\ result[d] # NoBallot
  BY CandidatesAssumption
<1>2. S \cap T \subseteq Byzantine
  BY <1>1 DEF CommitteeInv, HonestTellOneStory, Honest
<1>3. Cardinality(S) >= Supermajority /\ Cardinality(T) >= Supermajority
  BY DEF CommitteeInv, DecisionsAreBacked, Count
<1>4. S \subseteq Members /\ T \subseteq Members
  OBVIOUS
<1> HIDE DEF S, T
<1> QED BY <1>2, <1>3, <1>4, QuorumsMeet

LEMMA CommitteeInvInit == CommitteeInit => CommitteeInv
<1> SUFFICES ASSUME CommitteeInit PROVE CommitteeInv
  OBVIOUS
<1>1. CommitteeTypeOK
  BY DEF CommitteeInit, CommitteeTypeOK
<1>2. HonestTellOneStory
  BY DEF CommitteeInit, HonestTellOneStory, Honest
<1>3. DecisionsAreBacked
  BY CandidatesAssumption DEF CommitteeInit, DecisionsAreBacked
<1> QED BY <1>1, <1>2, <1>3 DEF CommitteeInv

LEMMA VoteKeepsInv ==
    ASSUME CommitteeInv, NEW member \in Members, NEW collector \in Collectors,
           NEW candidate \in Candidates, Vote(member, collector, candidate)
    PROVE  CommitteeInv'
<1> USE DEF CommitteeInv
<1>1. CommitteeTypeOK'
  BY DEF Vote, CommitteeTypeOK
<1>2. HonestTellOneStory'
  <2> SUFFICES ASSUME NEW c \in Collectors, NEW m \in Honest, ballots'[c][m] # NoBallot
               PROVE  ballots'[c][m] = opinion'[m]
    BY DEF HonestTellOneStory
  <2>1. m \in Members
    BY DEF Honest
  <2>2. CASE m = member
    BY <2>1, <2>2 DEF Vote, CommitteeTypeOK, HonestTellOneStory
  <2>3. CASE m # member
    BY <2>1, <2>3 DEF Vote, CommitteeTypeOK, HonestTellOneStory
  <2> QED BY <2>2, <2>3
<1>3. DecisionsAreBacked'
  <2> SUFFICES ASSUME NEW c \in Collectors, result'[c] \in Candidates
               PROVE  Count(ballots'[c], result'[c]) >= Supermajority
    BY DEF DecisionsAreBacked, Count
  <2>1. c # collector
    BY CandidatesAssumption DEF Vote
  <2>2. ballots'[c] = ballots[c] /\ result'[c] = result[c]
    BY <2>1 DEF Vote, CommitteeTypeOK
  <2> QED BY <2>2 DEF DecisionsAreBacked
<1> QED BY <1>1, <1>2, <1>3

LEMMA DecideKeepsInv ==
    ASSUME CommitteeInv, NEW collector \in Collectors, Decide(collector)
    PROVE  CommitteeInv'
<1> USE DEF CommitteeInv
<1>1. PICK outcome \in ResolveByQuorum(ballots[collector]) :
          result' = [result EXCEPT ![collector] = outcome]
  BY DEF Decide
<1>2. /\ outcome \in Candidates \cup {NoQuorumReached, SplitDecision}
      /\ outcome \in Candidates => Count(ballots[collector], outcome) >= Supermajority
  BY CandidatesAssumption DEF ResolveByQuorum
<1>3. CommitteeTypeOK'
  BY <1>1, <1>2 DEF Decide, CommitteeTypeOK
<1>4. HonestTellOneStory'
  BY DEF Decide, HonestTellOneStory
<1>5. DecisionsAreBacked'
  <2> SUFFICES ASSUME NEW c \in Collectors, result'[c] \in Candidates
               PROVE  Count(ballots'[c], result'[c]) >= Supermajority
    BY DEF DecisionsAreBacked, Count
  <2>1. ballots' = ballots
    BY DEF Decide
  <2>2. CASE c = collector
    BY <1>1, <1>2, <2>1, <2>2 DEF CommitteeTypeOK
  <2>3. CASE c # collector
    <3>1. result'[c] = result[c]
      BY <1>1, <2>3 DEF CommitteeTypeOK
    <3> QED BY <2>1, <3>1 DEF DecisionsAreBacked
  <2> QED BY <2>2, <2>3
<1> QED BY <1>3, <1>4, <1>5

LEMMA CommitteeInvStep ==
    CommitteeInv /\ [CommitteeNext]_committeeVars => CommitteeInv'
<1> SUFFICES ASSUME CommitteeInv, [CommitteeNext]_committeeVars PROVE CommitteeInv'
  OBVIOUS
<1>1. ASSUME NEW collector \in Collectors, Decide(collector) PROVE CommitteeInv'
  BY <1>1, DecideKeepsInv
<1>2. ASSUME NEW collector \in Collectors, NEW m \in Members, NEW candidate \in Candidates,
             Vote(m, collector, candidate)
      PROVE  CommitteeInv'
  BY <1>2, VoteKeepsInv
<1>3. CASE UNCHANGED committeeVars
  BY <1>3 DEF committeeVars, CommitteeInv, CommitteeTypeOK, HonestTellOneStory,
              DecisionsAreBacked, Count
<1> QED BY <1>1, <1>2, <1>3 DEF CommitteeNext

(* resolve_by_quorum in conflict/quorum.rs: with 2T > N + F no two devices
   resolve a conflict to different candidates, whatever ballots reached each of
   them, whatever Byzantine members told them apart, and whichever candidate
   the hash map lists first. *)
THEOREM CommitteesAgree == CommitteeSpec => []CommitteeAgreement
<1> QED BY CommitteeInvInit, CommitteeInvStep, CommitteeInvImpliesAgreement, PTL
        DEF CommitteeSpec

-------------------------------------------------------------------------------
(* Overtaking costs the delay, for every number of devices, envelopes, tiers,
   claimed times and rounds and for every delay. *)
(* What is said of a computation: its seed has been published, and under the
   seed of the running round it has done no more squarings than time allows. *)
TakesItsTime(c) ==
    c # Idle => /\ c.input[1] <= round
                /\ c.input[1] = round => c.squarings <= elapsed

NothingComesEarly ==
    /\ \A d \in Devices : TakesItsTime(work[d])
    /\ \A e \in Envelopes : TakesItsTime(entries[e].proof)

EvidenceInv == EvidenceTypeOK /\ NothingComesEarly

LEMMA IdleIsNoProof == Idle = NoProof
BY DEF Idle, NoProof

LEMMA EvidenceInvInit == EvidenceInit => EvidenceInv
<1> SUFFICES ASSUME EvidenceInit PROVE EvidenceInv
  OBVIOUS
<1>1. EvidenceTypeOK
  BY EvidenceAssumption DEF EvidenceInit, EvidenceTypeOK, Computations
<1>2. NothingComesEarly
  BY IdleIsNoProof DEF EvidenceInit, NothingComesEarly, TakesItsTime, NotSubmitted
<1> QED BY <1>1, <1>2 DEF EvidenceInv

(* A computation under way, and what its parts are. *)
LEMMA ComputationParts ==
    ASSUME NEW c \in Computations, c # Idle
    PROVE  /\ c.input \in Inputs /\ c.squarings \in 0..Delay
           /\ c.input[1] \in 1..MaxRounds /\ c.input[2] \in Envelopes
           /\ c = [input |-> c.input, squarings |-> c.squarings]
<1>1. c \in [input : Inputs, squarings : 0..Delay]
  BY DEF Computations
<1> QED BY <1>1 DEF Inputs

LEMMA SubmitKeepsInv ==
    ASSUME EvidenceInv, NEW e \in Envelopes, NEW p \in Priorities, NEW at \in Times,
           SubmitEntry(e, p, at)
    PROVE  EvidenceInv'
<1> USE DEF EvidenceInv
<1>1. [priority |-> p, enqueuedAt |-> at, proof |-> NoProof]
          \in [priority : Priorities, enqueuedAt : Times, proof : Computations]
  BY IdleIsNoProof DEF Computations
<1>2. EvidenceTypeOK'
  BY <1>1 DEF SubmitEntry, EvidenceTypeOK
<1>3. ASSUME NEW x \in Envelopes PROVE TakesItsTime(entries[x].proof)'
  <2>1. CASE x = e
    <3>1. entries'[x].proof = Idle
      BY <2>1, IdleIsNoProof DEF SubmitEntry, EvidenceTypeOK
    <3> QED BY <3>1 DEF TakesItsTime
  <2>2. CASE x # e
    <3>1. entries'[x] = entries[x]
      BY <2>2 DEF SubmitEntry, EvidenceTypeOK
    <3> QED BY <3>1 DEF SubmitEntry, NothingComesEarly, TakesItsTime
  <2> QED BY <2>1, <2>2
<1>4. \A d \in Devices : TakesItsTime(work[d])'
  BY DEF SubmitEntry, NothingComesEarly, TakesItsTime
<1> QED BY <1>2, <1>3, <1>4 DEF NothingComesEarly

LEMMA PublishKeepsInv == EvidenceInv /\ PublishSeed => EvidenceInv'
<1> SUFFICES ASSUME EvidenceInv, PublishSeed PROVE EvidenceInv'
  OBVIOUS
<1> USE DEF EvidenceInv
<1>1. EvidenceTypeOK'
  BY EvidenceAssumption DEF PublishSeed, EvidenceTypeOK
<1>2. ASSUME NEW c \in Computations, TakesItsTime(c)
      PROVE  c # Idle => c.input[1] <= round' /\ c.input[1] # round'
  <2> SUFFICES ASSUME c # Idle PROVE c.input[1] <= round' /\ c.input[1] # round'
    OBVIOUS
  <2>1. c.input[1] \in 1..MaxRounds
    BY ComputationParts
  <2> QED BY <1>2, <2>1 DEF TakesItsTime, PublishSeed, EvidenceTypeOK
<1>3. \A d \in Devices : work[d] \in Computations
  BY DEF EvidenceTypeOK
<1>4. \A e \in Envelopes : entries[e].proof \in Computations
  BY IdleIsNoProof DEF EvidenceTypeOK, NotSubmitted, Computations
<1>5. \A d \in Devices : TakesItsTime(work[d])'
  BY <1>2, <1>3 DEF PublishSeed, NothingComesEarly, TakesItsTime
<1>6. \A e \in Envelopes : TakesItsTime(entries[e].proof)'
  BY <1>2, <1>4 DEF PublishSeed, NothingComesEarly, TakesItsTime
<1> QED BY <1>1, <1>5, <1>6 DEF NothingComesEarly

LEMMA StartKeepsInv ==
    ASSUME EvidenceInv, NEW d \in Devices, NEW seed \in 1..MaxRounds,
           NEW e \in Envelopes, StartEvaluation(d, seed, e)
    PROVE  EvidenceInv'
<1> USE DEF EvidenceInv
<1> DEFINE new == [input |-> <<seed, e>>, squarings |-> 0]
<1>1. work' = [work EXCEPT ![d] = new]
  BY DEF StartEvaluation, VdfInput
<1>2. new \in Computations
  BY EvidenceAssumption DEF Computations, Inputs
<1>3. EvidenceTypeOK'
  BY <1>1, <1>2 DEF StartEvaluation, EvidenceTypeOK
<1>4. ASSUME NEW x \in Devices PROVE TakesItsTime(work[x])'
  <2>1. CASE x = d
    <3>1. work'[x] = new
      BY <1>1, <2>1 DEF EvidenceTypeOK
    <3>2. new.input[1] <= round' /\ new.squarings <= elapsed'
      BY EvidenceAssumption DEF StartEvaluation, EvidenceTypeOK
    <3> QED BY <3>1, <3>2 DEF TakesItsTime
  <2>2. CASE x # d
    <3>1. work'[x] = work[x]
      BY <1>1, <2>2 DEF EvidenceTypeOK
    <3> QED BY <3>1 DEF StartEvaluation, NothingComesEarly, TakesItsTime
  <2> QED BY <2>1, <2>2
<1>5. \A x \in Envelopes : TakesItsTime(entries[x].proof)'
  BY DEF StartEvaluation, NothingComesEarly, TakesItsTime
<1> QED BY <1>3, <1>4, <1>5 DEF NothingComesEarly

LEMMA PassTimeKeepsInv ==
    ASSUME EvidenceInv, NEW busy \in SUBSET Devices, PassTime(busy)
    PROVE  EvidenceInv'
<1> USE DEF EvidenceInv
<1>1. /\ elapsed \in 0..Delay /\ elapsed' \in 0..Delay /\ elapsed <= elapsed'
      /\ elapsed' = elapsed + 1 \/ elapsed' = Delay
      /\ round' = round /\ entries' = entries
  BY EvidenceAssumption DEF PassTime, EvidenceTypeOK
<1>2. ASSUME NEW d \in Devices
      PROVE  work'[d] \in Computations /\ TakesItsTime(work[d])'
  <2>0. work[d] \in Computations /\ TakesItsTime(work[d])
    BY DEF EvidenceTypeOK, NothingComesEarly
  <2>1. CASE d \in busy /\ work[d] # Idle /\ work[d].squarings < Delay
    <3>1. /\ work[d].input \in Inputs /\ work[d].squarings \in 0..Delay
          /\ work[d] = [input |-> work[d].input, squarings |-> work[d].squarings]
      BY <2>0, <2>1, ComputationParts
    <3>2. work'[d] = [input |-> work[d].input, squarings |-> work[d].squarings + 1]
      BY <2>1, <3>1 DEF PassTime
    <3>3. work[d].squarings + 1 \in 0..Delay
      BY <2>1, <3>1, EvidenceAssumption
    <3>4. work'[d] \in Computations
      BY <3>1, <3>2, <3>3 DEF Computations
    <3>5. work[d].squarings <= elapsed => work[d].squarings + 1 <= elapsed'
      BY <1>1, <3>1, <3>3, EvidenceAssumption
    <3> QED BY <1>1, <2>0, <2>1, <3>2, <3>4, <3>5 DEF TakesItsTime
  <2>2. CASE ~(d \in busy /\ work[d] # Idle /\ work[d].squarings < Delay)
    <3>1. work'[d] = work[d]
      BY <2>2 DEF PassTime
    <3>2. work[d] # Idle => work[d].squarings \in 0..Delay
      BY <2>0, ComputationParts
    <3> QED BY <1>1, <2>0, <3>1, <3>2, EvidenceAssumption DEF TakesItsTime
  <2> QED BY <2>1, <2>2
<1>3. EvidenceTypeOK'
  <2>1. work' \in [Devices -> Computations]
    BY <1>2 DEF PassTime
  <2> QED BY <1>1, <2>1 DEF EvidenceTypeOK
<1>4. ASSUME NEW e \in Envelopes PROVE TakesItsTime(entries[e].proof)'
  <2>1. entries[e].proof \in Computations
    BY IdleIsNoProof DEF EvidenceTypeOK, NotSubmitted, Computations
  <2>2. entries[e].proof # Idle => entries[e].proof.squarings \in 0..Delay
    BY <2>1, ComputationParts
  <2>3. TakesItsTime(entries[e].proof)
    BY DEF NothingComesEarly
  <2> QED BY <1>1, <2>2, <2>3, EvidenceAssumption DEF TakesItsTime
<1> QED BY <1>2, <1>3, <1>4 DEF NothingComesEarly

LEMMA AttachKeepsInv ==
    ASSUME EvidenceInv, NEW d \in Devices, AttachProof(d)
    PROVE  EvidenceInv'
<1> USE DEF EvidenceInv
<1>1. PICK e \in Envelopes : e = work[d].input[2] /\ e \in Submitted
  BY DEF AttachProof, Submitted
<1>2. entries[e] \in [priority : Priorities, enqueuedAt : Times, proof : Computations]
  BY <1>1 DEF Submitted, EvidenceTypeOK
<1>3. work[d] \in Computations /\ TakesItsTime(work[d])
  BY DEF EvidenceTypeOK, NothingComesEarly
<1>4. entries' = [entries EXCEPT ![e].proof = work[d]]
  BY <1>1 DEF AttachProof
<1>5. /\ entries'[e].proof = work[d]
      /\ entries'[e] \in [priority : Priorities, enqueuedAt : Times, proof : Computations]
      /\ \A x \in Envelopes : x # e => entries'[x] = entries[x]
  BY <1>2, <1>3, <1>4 DEF EvidenceTypeOK
<1>6. EvidenceTypeOK'
  <2>1. entries' \in [Envelopes -> {NotSubmitted} \cup
            [priority : Priorities, enqueuedAt : Times, proof : Computations]]
    BY <1>4, <1>5 DEF EvidenceTypeOK
  <2>2. work' \in [Devices -> Computations]
    BY DEF AttachProof, EvidenceTypeOK, Computations
  <2> QED BY <2>1, <2>2 DEF AttachProof, EvidenceTypeOK
<1>7. ASSUME NEW x \in Envelopes PROVE TakesItsTime(entries[x].proof)'
  <2>1. CASE x = e
    BY <1>3, <1>5, <2>1 DEF AttachProof, TakesItsTime
  <2>2. CASE x # e
    BY <1>5, <2>2 DEF AttachProof, NothingComesEarly, TakesItsTime
  <2> QED BY <2>1, <2>2
<1>8. ASSUME NEW x \in Devices PROVE TakesItsTime(work[x])'
  <2>1. work'[x] = work[x] \/ work'[x] = Idle
    BY DEF AttachProof, EvidenceTypeOK
  <2> QED BY <2>1 DEF AttachProof, NothingComesEarly, TakesItsTime
<1> QED BY <1>6, <1>7, <1>8 DEF NothingComesEarly

LEMMA EvidenceInvStep == EvidenceInv /\ [EvidenceNext]_evidenceVars => EvidenceInv'
<1> SUFFICES ASSUME EvidenceInv, [EvidenceNext]_evidenceVars PROVE EvidenceInv'
  OBVIOUS
<1>1. CASE PublishSeed
  BY <1>1, PublishKeepsInv
<1>2. ASSUME NEW e \in Envelopes, NEW p \in Priorities, NEW at \in Times,
             SubmitEntry(e, p, at)
      PROVE  EvidenceInv'
  BY <1>2, SubmitKeepsInv
<1>3. ASSUME NEW d \in Devices, AttachProof(d) PROVE EvidenceInv'
  BY <1>3, AttachKeepsInv
<1>4. ASSUME NEW d \in Devices, NEW seed \in 1..MaxRounds, NEW e \in Envelopes,
             StartEvaluation(d, seed, e)
      PROVE  EvidenceInv'
  BY <1>4, StartKeepsInv
<1>5. ASSUME NEW busy \in SUBSET Devices, PassTime(busy) PROVE EvidenceInv'
  BY <1>5, PassTimeKeepsInv
<1>6. CASE UNCHANGED evidenceVars
  BY <1>6 DEF evidenceVars, EvidenceInv, EvidenceTypeOK, NothingComesEarly, TakesItsTime
<1> QED BY <1>1, <1>2, <1>3, <1>4, <1>5, <1>6 DEF EvidenceNext

LEMMA EvidenceInvCosts == EvidenceInv => OvertakingCostsTheDelay
<1> SUFFICES ASSUME EvidenceInv, NEW a \in Submitted, NEW b \in Submitted,
                    DispatchedBefore(a, b),
                    entries[a].priority = entries[b].priority,
                    entries[a].enqueuedAt > entries[b].enqueuedAt
             PROVE  elapsed = Delay
  BY DEF OvertakingCostsTheDelay
<1> USE DEF EvidenceInv
<1>1. /\ a \in Envelopes /\ b \in Envelopes
      /\ entries[a] \in [priority : Priorities, enqueuedAt : Times, proof : Computations]
      /\ entries[b] \in [priority : Priorities, enqueuedAt : Times, proof : Computations]
  BY DEF Submitted, EvidenceTypeOK
<1>2. /\ entries[a].priority \in Nat /\ entries[a].enqueuedAt \in Nat
      /\ entries[b].enqueuedAt \in Nat
  BY <1>1, EvidenceAssumption
<1>3. Verified(a)
  BY <1>2 DEF DispatchedBefore
<1>4. /\ entries[a].proof # Idle /\ entries[a].proof.input[1] = round
      /\ entries[a].proof.squarings = Delay
  BY <1>3, IdleIsNoProof DEF Verified, Verify, VdfInput
<1>5. Delay <= elapsed
  BY <1>1, <1>4 DEF NothingComesEarly, TakesItsTime
<1> QED BY <1>5, EvidenceAssumption DEF EvidenceTypeOK

(* sort_for_dispatch in queue/vdf_ordering.rs: whoever jumps ahead of an entry
   of its tier that claims to be older has spent the whole delay inside the
   running round, whatever was computed for other rounds or envelopes. *)
THEOREM OvertakingIsPaidFor == EvidenceSpec => []OvertakingCostsTheDelay
<1> QED BY EvidenceInvInit, EvidenceInvStep, EvidenceInvCosts, PTL DEF EvidenceSpec

-------------------------------------------------------------------------------
(* The privacy of the metrics export, for every set of counters and scrapers,
   every window, every cap, and clocks and counters without a bound. *)
Counts == [Counters -> Nat]

ExportTypes ==
    /\ actual \in Counts /\ without \in Counts
    /\ last \in [actual : Counts, without : Counts]
    /\ starts \in Seq(Nat)
    /\ clock \in Nat
    /\ reading \in [Scrapers -> {NotReading} \cup Nat]
    /\ leaked \in [Counters -> Nat]
    /\ counterReset \in BOOLEAN

(* Every window starts a window's length after those before it. *)
WindowsApart ==
    /\ Len(starts) <= MaxReleases
    /\ \A i, j \in DOMAIN starts : i < j => starts[j] >= starts[i] + Window

(* Without a reset, counters only grow, so what was released of the chosen
   event is exactly what has already moved into the last-release counters. *)
ChosenEventAccounted ==
    ~counterReset =>
        /\ \A c \in Counters : /\ last.actual[c] <= actual[c]
                               /\ last.without[c] <= without[c]
        /\ \A c \in Counters \ {Chosen} :
               /\ actual[c] = without[c]
               /\ last.actual[c] = last.without[c]
               /\ leaked[c] = 0
        /\ last.actual[Chosen] = last.without[Chosen] + leaked[Chosen]
        /\ without[Chosen] + leaked[Chosen] <= actual[Chosen]
        /\ actual[Chosen] <= without[Chosen] + 1

ExportInv == ExportTypes /\ WindowsApart /\ ChosenEventAccounted

LEMMA ExportInvInit == ExportInit => ExportInv
<1> SUFFICES ASSUME ExportInit PROVE ExportInv
  OBVIOUS
<1> DEFINE zero == [c \in Counters |-> 0]
<1>1. /\ actual = zero /\ without = zero /\ leaked = zero
      /\ last = [actual |-> zero, without |-> zero]
      /\ starts = <<>> /\ clock = 0 /\ counterReset = FALSE
      /\ reading = [s \in Scrapers |-> NotReading]
  BY DEF ExportInit
<1>2. zero \in Counts /\ \A c \in Counters : zero[c] = 0
  BY DEF Counts
<1>3. <<>> \in Seq(Nat) /\ Len(<<>>) = 0 /\ DOMAIN <<>> = {}
  OBVIOUS
<1> HIDE DEF zero
<1>4. ExportTypes
  BY <1>1, <1>2, <1>3 DEF ExportTypes, Counts
<1>5. WindowsApart
  BY <1>1, <1>3, PrivateExportAssumption DEF WindowsApart
<1>6. ChosenEventAccounted
  BY <1>1, <1>2, PrivateExportAssumption DEF ChosenEventAccounted
<1> QED BY <1>4, <1>5, <1>6 DEF ExportInv

LEMMA RecordKeepsInv ==
    ASSUME ExportInv, NEW c \in Counters, Record(c)
    PROVE  ExportInv'
<1> USE DEF ExportInv
<1>1. /\ actual' \in Counts /\ without' \in Counts
      /\ \A d \in Counters :
            /\ actual'[d] = IF d = c THEN actual[d] + 1 ELSE actual[d]
            /\ without'[d] = IF d = c THEN without[d] + 1 ELSE without[d]
  <2>1. actual \in [Counters -> Nat] /\ without \in [Counters -> Nat]
    BY DEF ExportTypes, Counts
  <2>2. actual' = [actual EXCEPT ![c] = actual[c] + 1]
        /\ without' = [without EXCEPT ![c] = without[c] + 1]
    BY DEF Record
  <2> QED
    BY <2>1, <2>2 DEF Counts
<1>2. ExportTypes'
  BY <1>1 DEF Record, ExportTypes
<1>3. WindowsApart'
  BY DEF Record, WindowsApart
<1>4. ChosenEventAccounted'
  <2>1. \A d \in Counters : /\ actual[d] \in Nat /\ without[d] \in Nat /\ leaked[d] \in Nat
                            /\ last.actual[d] \in Nat /\ last.without[d] \in Nat
    BY DEF ExportTypes, Counts
  <2> QED BY <1>1, <2>1, PrivateExportAssumption DEF Record, ChosenEventAccounted
<1> QED BY <1>2, <1>3, <1>4

LEMMA RecordChosenKeepsInv == ExportInv /\ RecordChosen => ExportInv'
<1> SUFFICES ASSUME ExportInv, RecordChosen PROVE ExportInv'
  OBVIOUS
<1> USE DEF ExportInv
<1>1. /\ actual' \in Counts
      /\ \A d \in Counters :
            actual'[d] = IF d = Chosen THEN actual[d] + 1 ELSE actual[d]
  BY PrivateExportAssumption DEF RecordChosen, ExportTypes, Counts
<1>2. ExportTypes'
  BY <1>1 DEF RecordChosen, ExportTypes
<1>3. WindowsApart'
  BY DEF RecordChosen, WindowsApart
<1>4. ChosenEventAccounted'
  <2>1. \A d \in Counters : /\ actual[d] \in Nat /\ without[d] \in Nat /\ leaked[d] \in Nat
                            /\ last.actual[d] \in Nat /\ last.without[d] \in Nat
    BY DEF ExportTypes, Counts
  <2> QED BY <1>1, <2>1, PrivateExportAssumption DEF RecordChosen, ChosenEventAccounted
<1> QED BY <1>2, <1>3, <1>4

LEMMA ResetKeepsInv ==
    ASSUME ExportInv, NEW c \in Counters, ResetCounter(c)
    PROVE  ExportInv'
<1> USE DEF ExportInv
<1>1. ExportTypes'
  BY DEF ResetCounter, ExportTypes, Counts
<1>2. WindowsApart' /\ ChosenEventAccounted'
  BY DEF ResetCounter, WindowsApart, ChosenEventAccounted
<1> QED BY <1>1, <1>2

LEMMA ClockKeepsInv ==
    ASSUME ExportInv, Tick \/ \E s \in Scrapers : ReadClock(s)
    PROVE  ExportInv'
<1> USE DEF ExportInv
<1>1. ExportTypes'
  <2>1. CASE Tick
    BY <2>1, PrivateExportAssumption DEF Tick, ExportTypes
  <2>2. ASSUME NEW s \in Scrapers, ReadClock(s) PROVE ExportTypes'
    BY <2>2 DEF ReadClock, ExportTypes
  <2> QED BY <2>1, <2>2
<1>2. UNCHANGED <<actual, without, last, starts, leaked, counterReset>>
  BY DEF Tick, ReadClock
<1>3. WindowsApart' /\ ChosenEventAccounted'
  BY <1>2 DEF WindowsApart, ChosenEventAccounted
<1> QED BY <1>1, <1>3

(* A release starts a window after the end of the one before. *)
LEMMA ReleaseKeepsWindowsApart ==
    ASSUME ExportInv, NEW now \in Nat,
           ~InWindow(now), ~BudgetExhausted, starts' = Append(starts, now)
    PROVE  WindowsApart'
<1> USE DEF ExportInv
<1>1. starts \in Seq(Nat) /\ Len(starts) \in Nat
  BY DEF ExportTypes
<1>2. /\ Len(starts') = Len(starts) + 1
      /\ starts'[Len(starts) + 1] = now
      /\ \A i \in 1..Len(starts) : starts'[i] = starts[i]
      /\ DOMAIN starts = 1..Len(starts) /\ DOMAIN starts' = 1..(Len(starts) + 1)
  BY <1>1
<1>3. Len(starts') <= MaxReleases
  <2>1. CASE starts = <<>>
    BY <1>2, <2>1, PrivateExportAssumption
  <2>2. CASE starts # <<>>
    BY <1>1, <1>2, <2>2, PrivateExportAssumption DEF BudgetExhausted
  <2> QED BY <2>1, <2>2
<1>4. \A i \in 1..Len(starts) : now >= starts[i] + Window
  <2> SUFFICES ASSUME NEW i \in 1..Len(starts) PROVE now >= starts[i] + Window
    OBVIOUS
  <2>1. starts # <<>> /\ Len(starts) \in 1..Len(starts)
    BY <1>1
  <2>2. /\ starts[Len(starts)] \in Nat /\ starts[i] \in Nat
        /\ Window \in Nat /\ Window > 0
    BY <1>1, <2>1, PrivateExportAssumption
  <2>3. now >= starts[Len(starts)] + Window
    BY <2>1, <2>2 DEF InWindow, MinusSaturating
  <2>4. CASE i = Len(starts)
    BY <2>3, <2>4
  <2>5. CASE i < Len(starts)
    <3>1. starts[Len(starts)] >= starts[i] + Window
      BY <1>2, <2>1, <2>5 DEF WindowsApart
    <3> QED BY <2>2, <2>3, <3>1
  <2> QED BY <1>1, <2>4, <2>5
<1>5. ASSUME NEW i \in DOMAIN starts', NEW j \in DOMAIN starts', i < j
      PROVE  starts'[j] >= starts'[i] + Window
  <2>1. i \in 1..Len(starts)
    BY <1>1, <1>2, <1>5
  <2>2. CASE j = Len(starts) + 1
    BY <1>2, <1>4, <2>1, <2>2
  <2>3. CASE j # Len(starts) + 1
    <3>1. j \in 1..Len(starts)
      BY <1>1, <1>2, <2>3
    <3> QED BY <1>2, <1>5, <2>1, <3>1 DEF WindowsApart
  <2> QED BY <2>2, <2>3
<1> QED BY <1>3, <1>5 DEF WindowsApart

(* A release tells of the chosen event if and only if none did before. *)
LEMMA ReleaseKeepsAccount ==
    ASSUME ExportInv, NEW now \in Nat, NewRelease(now),
           UNCHANGED <<actual, without, counterReset>>
    PROVE  /\ leaked' \in [Counters -> Nat]
           /\ last' \in [actual : Counts, without : Counts]
           /\ ChosenEventAccounted'
<1> USE DEF ExportInv
<1>1. \A c \in Counters : /\ actual[c] \in Nat /\ without[c] \in Nat /\ leaked[c] \in Nat
                          /\ last.actual[c] \in Nat /\ last.without[c] \in Nat
  BY DEF ExportTypes, Counts
<1>2. /\ last'.actual = actual /\ last'.without = without
      /\ last' \in [actual : Counts, without : Counts]
  BY DEF NewRelease, ExportTypes
<1>3. \A c \in Counters : leaked'[c] =
          leaked[c] + Difference(MinusSaturating(actual[c], last.actual[c]),
                                 MinusSaturating(without[c], last.without[c]))
  BY DEF NewRelease, Delta
<1>4. ASSUME NEW c \in Counters PROVE leaked'[c] \in Nat
  BY <1>1, <1>3 DEF Difference, MinusSaturating
<1>5. leaked' \in [Counters -> Nat]
  BY <1>4 DEF NewRelease
<1>6. ASSUME ~counterReset
      PROVE  /\ \A c \in Counters \ {Chosen} : leaked'[c] = 0
             /\ actual[Chosen] = without[Chosen] + leaked'[Chosen]
  <2>1. Chosen \in Counters
    BY PrivateExportAssumption
  <2>2. ASSUME NEW c \in Counters \ {Chosen} PROVE leaked'[c] = 0
    BY <1>1, <1>3, <1>6 DEF ChosenEventAccounted, Difference, MinusSaturating
  <2>3. /\ last.actual[Chosen] <= actual[Chosen] /\ last.without[Chosen] <= without[Chosen]
        /\ last.actual[Chosen] = last.without[Chosen] + leaked[Chosen]
        /\ without[Chosen] + leaked[Chosen] <= actual[Chosen]
    BY <1>6, <2>1 DEF ChosenEventAccounted
  <2>4. /\ MinusSaturating(actual[Chosen], last.actual[Chosen])
              = actual[Chosen] - last.actual[Chosen]
        /\ MinusSaturating(without[Chosen], last.without[Chosen])
              = without[Chosen] - last.without[Chosen]
    BY <1>1, <2>1, <2>3 DEF MinusSaturating
  <2>5. leaked'[Chosen] = leaked[Chosen]
            + Difference(actual[Chosen] - last.actual[Chosen],
                         without[Chosen] - last.without[Chosen])
    BY <1>3, <2>1, <2>4
  <2>6. actual[Chosen] = without[Chosen] + leaked'[Chosen]
    BY <1>1, <2>1, <2>3, <2>5 DEF Difference
  <2> QED BY <2>2, <2>6
<1>7. ChosenEventAccounted'
  <2> SUFFICES ASSUME ~counterReset' PROVE ChosenEventAccounted'
    BY DEF ChosenEventAccounted
  <2>1. ~counterReset
    OBVIOUS
  <2>2. leaked'[Chosen] \in Nat
    BY <1>4, PrivateExportAssumption
  <2> QED BY <1>1, <1>2, <1>6, <2>1, <2>2, PrivateExportAssumption
          DEF ChosenEventAccounted
<1> QED BY <1>2, <1>5, <1>7

LEMMA ExportKeepsInv ==
    ASSUME ExportInv, NEW s \in Scrapers, Export(s)
    PROVE  ExportInv'
<1> USE DEF ExportInv
<1>1. reading[s] \in Nat
  BY DEF Export, ExportTypes
<1>2. /\ reading' \in [Scrapers -> {NotReading} \cup Nat]
      /\ UNCHANGED <<actual, without, clock, counterReset>>
  BY DEF Export, ExportTypes
<1>3. CASE InWindow(reading[s]) \/ BudgetExhausted
  <2>1. UNCHANGED <<last, starts, leaked>>
    BY <1>3 DEF Export
  <2> QED BY <1>2, <2>1 DEF ExportTypes, WindowsApart, ChosenEventAccounted
<1>4. CASE ~(InWindow(reading[s]) \/ BudgetExhausted)
  <2>0. PICK now \in Nat : now = reading[s]
    BY <1>1
  <2>1. NewRelease(now) /\ ~InWindow(now) /\ ~BudgetExhausted
    BY <1>4, <2>0 DEF Export
  <2>2. starts' = Append(starts, now) /\ starts' \in Seq(Nat)
    BY <2>1 DEF NewRelease, ExportTypes
  <2>3. WindowsApart'
    BY <2>1, <2>2, ReleaseKeepsWindowsApart
  <2>4. /\ leaked' \in [Counters -> Nat]
        /\ last' \in [actual : Counts, without : Counts]
        /\ ChosenEventAccounted'
    BY <1>2, <2>1, ReleaseKeepsAccount
  <2>5. ExportTypes'
    BY <1>2, <2>2, <2>4 DEF ExportTypes
  <2> QED BY <2>3, <2>4, <2>5
<1> QED BY <1>3, <1>4

LEMMA ExportInvStep == ExportInv /\ [ExportNext]_exportVars => ExportInv'
<1> SUFFICES ASSUME ExportInv, [ExportNext]_exportVars PROVE ExportInv'
  OBVIOUS
<1>1. ASSUME NEW c \in Counters, Record(c) \/ ResetCounter(c) PROVE ExportInv'
  BY <1>1, RecordKeepsInv, ResetKeepsInv
<1>2. CASE RecordChosen
  BY <1>2, RecordChosenKeepsInv
<1>3. CASE Tick
  BY <1>3, ClockKeepsInv
<1>4. ASSUME NEW s \in Scrapers, ReadClock(s) PROVE ExportInv'
  BY <1>4, ClockKeepsInv
<1>5. ASSUME NEW s \in Scrapers, Export(s) PROVE ExportInv'
  BY <1>5, ExportKeepsInv
<1>6. CASE UNCHANGED exportVars
  BY <1>6 DEF exportVars, ExportInv, ExportTypes, WindowsApart, ChosenEventAccounted
<1> QED BY <1>1, <1>2, <1>3, <1>4, <1>5, <1>6 DEF ExportNext

(* PrivateMetricsExporter of metrics.rs releases any one event in at most one
   window, unless snapshot_and_reset is called: however scrapers and counters
   interleave, all releases together change by one with it. *)
THEOREM EventsAreReleasedOnce == ExportSpec => []EventInOneWindow
<1>1. ExportInv => EventInOneWindow
  <2> SUFFICES ASSUME ExportInv, ~counterReset
               PROVE  /\ leaked[Chosen] <= 1
                      /\ \A c \in Counters \ {Chosen} : leaked[c] = 0
    BY DEF EventInOneWindow
  <2>1. /\ leaked[Chosen] \in Nat /\ actual[Chosen] \in Nat /\ without[Chosen] \in Nat
    BY PrivateExportAssumption DEF ExportInv, ExportTypes, Counts
  <2> QED BY <2>1 DEF ExportInv, ChosenEventAccounted
<1> QED BY <1>1, ExportInvInit, ExportInvStep, PTL DEF ExportSpec

(* export draws noise once a window and no more often than the cap, whatever
   clock readings the scrapers bring into the mutex in whatever order. *)
THEOREM NoiseIsDrawnOncePerWindow == ExportSpec => []NoSecondDrawInWindow
<1>1. ExportInv => NoSecondDrawInWindow
  BY DEF ExportInv, WindowsApart, NoSecondDrawInWindow
<1> QED BY <1>1, ExportInvInit, ExportInvStep, PTL DEF ExportSpec

-------------------------------------------------------------------------------
(* Panics stay contained for every set of threads, every number of payments and
   every number of panics. *)
HandleTypes ==
    /\ handle \in {Null, Usable, Poisoned}
    /\ progress \in Stages
    /\ engine \in [reserved : Nat, tracked : Nat]
    /\ rows \in Seq(Nat)
    /\ answer \in [Threads -> [known : Nat, stored : Nat]]
    /\ panics \in Nat

(* A call holds the mutex of a usable handle from its first step to its last. *)
MutexIsHeld ==
    /\ holder = Nobody <=> progress = "idle"
    /\ holder # Nobody => handle = Usable

(* Behind a usable handle the engine is as far ahead of the rows as the call
   under way explains. Behind a poisoned one nothing is known of it. *)
EngineFitsCall ==
    handle = Usable =>
        /\ engine.reserved = Len(rows) + (IF progress = "reserved" THEN 1 ELSE 0)
        /\ Len(rows) = engine.tracked + (IF progress = "stored" THEN 1 ELSE 0)

HandleInv == HandleTypes /\ MutexIsHeld /\ EngineFitsCall /\ PanicsStayContained

LEMMA HandleInvInit == HandleInit => HandleInv
<1> SUFFICES ASSUME HandleInit PROVE HandleInv
  OBVIOUS
<1>0. <<>> \in Seq(Nat) /\ Len(<<>>) = 0 /\ DOMAIN <<>> = {}
  OBVIOUS
<1>1. HandleTypes
  BY <1>0 DEF HandleInit, HandleTypes, Stages, NoAnswer, Null
<1>2. MutexIsHeld
  BY DEF HandleInit, MutexIsHeld
<1>3. EngineFitsCall
  BY DEF HandleInit, EngineFitsCall, Null, Usable
<1>4. PanicsStayContained
  <2>1. \A t \in Threads : answer[t].known = answer[t].stored
    BY DEF HandleInit, NoAnswer
  <2>2. DOMAIN rows = {}
    BY <1>0 DEF HandleInit
  <2> QED BY <2>1, <2>2 DEF PanicsStayContained
<1> QED BY <1>1, <1>2, <1>3, <1>4 DEF HandleInv

LEMMA HandleInvStep == HandleInv /\ [HandleNext]_handleVars => HandleInv'
<1> SUFFICES ASSUME HandleInv, [HandleNext]_handleVars PROVE HandleInv'
  OBVIOUS
<1>0. HandleTypes /\ MutexIsHeld /\ EngineFitsCall /\ PanicsStayContained
  BY DEF HandleInv
<1> USE <1>0
<1>1. CASE SseEngineOpen
  <2>1. LastNumber = Len(rows) /\ Len(rows) \in Nat
    BY DEF LastNumber, HandleTypes, PanicsStayContained
  <2>2. progress = "idle" /\ engine' = [reserved |-> Len(rows), tracked |-> Len(rows)]
    BY <1>1, <2>1 DEF SseEngineOpen, MutexIsHeld, Null, Usable
  <2>3. HandleTypes'
    BY <1>1, <2>1, <2>2 DEF SseEngineOpen, HandleTypes, Stages, Null, Usable, Poisoned
  <2>4. MutexIsHeld'
    BY <1>1, <2>1, <2>2 DEF SseEngineOpen, MutexIsHeld
  <2>5. EngineFitsCall'
    BY <1>1, <2>1, <2>2 DEF SseEngineOpen, HandleTypes, MutexIsHeld, EngineFitsCall, Null, Usable, Poisoned
  <2>6. PanicsStayContained'
    BY <1>1, <2>1, <2>2 DEF SseEngineOpen, PanicsStayContained, HandleTypes
  <2> QED BY <2>3, <2>4, <2>5, <2>6 DEF HandleInv
<1>2. CASE SseEngineClose
  <2>1. HandleTypes'
    BY <1>2 DEF SseEngineClose, HandleTypes, Stages, Null, Usable, Poisoned
  <2>2. MutexIsHeld'
    BY <1>2 DEF SseEngineClose, MutexIsHeld
  <2>3. EngineFitsCall'
    BY <1>2 DEF SseEngineClose, HandleTypes, MutexIsHeld, EngineFitsCall, Null, Usable, Poisoned
  <2>4. PanicsStayContained'
    BY <1>2 DEF SseEngineClose, PanicsStayContained, HandleTypes
  <2> QED BY <2>1, <2>2, <2>3, <2>4 DEF HandleInv
<1>3. ASSUME NEW t \in Threads, BeginQueuePayment(t) PROVE HandleInv'
  <2>1. t # Nobody /\ progress = "idle"
    BY <1>3, NobodyAssumption DEF BeginQueuePayment, Lock, MutexIsHeld
  <2>2. HandleTypes'
    BY <1>3, <2>1 DEF BeginQueuePayment, Lock, HandleTypes, Stages, Null, Usable, Poisoned
  <2>3. MutexIsHeld'
    BY <1>3, <2>1 DEF BeginQueuePayment, Lock, MutexIsHeld
  <2>4. EngineFitsCall'
    BY <1>3, <2>1 DEF BeginQueuePayment, Lock, HandleTypes, MutexIsHeld, EngineFitsCall, Null, Usable, Poisoned
  <2>5. PanicsStayContained'
    BY <1>3, <2>1 DEF BeginQueuePayment, Lock, PanicsStayContained, HandleTypes
  <2> QED BY <2>2, <2>3, <2>4, <2>5 DEF HandleInv
<1>4. ASSUME NEW t \in Threads, SseSettlementStatus(t) PROVE HandleInv'
  <2>0. handle = Usable /\ progress = "idle"
    BY <1>4 DEF SseSettlementStatus, Lock, MutexIsHeld
  <2>1. engine.tracked = Len(rows) /\ Len(rows) \in Nat
    BY <2>0 DEF HandleTypes, EngineFitsCall
  <2>2. HandleTypes'
    BY <1>4, <2>1 DEF SseSettlementStatus, Lock, HandleTypes, Stages, Null, Usable, Poisoned
  <2>3. MutexIsHeld'
    BY <1>4, <2>1 DEF SseSettlementStatus, Lock, MutexIsHeld
  <2>4. EngineFitsCall'
    BY <1>4, <2>1 DEF SseSettlementStatus, Lock, HandleTypes, MutexIsHeld, EngineFitsCall, Null, Usable, Poisoned
  <2>5. PanicsStayContained'
    BY <1>4, <2>1 DEF SseSettlementStatus, Lock, PanicsStayContained, HandleTypes
  <2> QED BY <2>2, <2>3, <2>4, <2>5 DEF HandleInv
<1>5. CASE ReserveNumber
  <2>1. handle = Usable
    BY <1>5 DEF ReserveNumber, MutexIsHeld
  <2>2. HandleTypes'
    <3>1. engine' = [engine EXCEPT !.reserved = engine.reserved + 1]
      BY <1>5 DEF ReserveNumber
    <3>2. engine' \in [reserved : Nat, tracked : Nat]
      BY <3>1 DEF HandleTypes
    <3> QED
      BY <1>5, <3>2 DEF ReserveNumber, HandleTypes, Stages
  <2>3. MutexIsHeld'
    BY <1>5, <2>1 DEF ReserveNumber, MutexIsHeld
  <2>4. EngineFitsCall'
    BY <1>5, <2>1 DEF ReserveNumber, HandleTypes, MutexIsHeld, EngineFitsCall, Null, Usable, Poisoned
  <2>5. PanicsStayContained'
    BY <1>5, <2>1 DEF ReserveNumber, PanicsStayContained, HandleTypes
  <2> QED BY <2>2, <2>3, <2>4, <2>5 DEF HandleInv
<1>6. CASE StorePayment
  <2>1. handle = Usable
    BY <1>6 DEF StorePayment, MutexIsHeld
  <2>2. engine.reserved = Len(rows) + 1 /\ Len(rows) = engine.tracked
    BY <1>6, <2>1 DEF StorePayment, HandleTypes, EngineFitsCall
  <2>3. HandleTypes'
    BY <1>6, <2>1, <2>2 DEF StorePayment, HandleTypes, Stages, Null, Usable, Poisoned
  <2>4. MutexIsHeld'
    BY <1>6, <2>1, <2>2 DEF StorePayment, MutexIsHeld
  <2>5. EngineFitsCall'
    BY <1>6, <2>1, <2>2 DEF StorePayment, HandleTypes, MutexIsHeld, EngineFitsCall, Null, Usable, Poisoned
  <2>6. PanicsStayContained'
    BY <1>6, <2>1, <2>2 DEF StorePayment, PanicsStayContained, HandleTypes
  <2> QED BY <2>3, <2>4, <2>5, <2>6 DEF HandleInv
<1>7. CASE StorageError
  <2>1. handle = Usable
    BY <1>7 DEF StorageError, MutexIsHeld
  <2>2. /\ engine.reserved = Len(rows) + 1 /\ Len(rows) = engine.tracked
        /\ engine' = [reserved |-> Len(rows), tracked |-> Len(rows)]
        /\ Len(rows) \in Nat
    BY <1>7, <2>1 DEF StorageError, HandleTypes, EngineFitsCall
  <2>3. HandleTypes'
    BY <1>7, <2>1, <2>2 DEF StorageError, HandleTypes, Stages, Null, Usable, Poisoned
  <2>4. MutexIsHeld'
    BY <1>7, <2>1, <2>2 DEF StorageError, MutexIsHeld
  <2>5. EngineFitsCall'
    BY <1>7, <2>1, <2>2 DEF StorageError, HandleTypes, MutexIsHeld, EngineFitsCall, Null, Usable, Poisoned
  <2>6. PanicsStayContained'
    BY <1>7, <2>1, <2>2 DEF StorageError, PanicsStayContained, HandleTypes
  <2> QED BY <2>3, <2>4, <2>5, <2>6 DEF HandleInv
<1>8. CASE EndQueuePayment
  <2>1. handle = Usable
    BY <1>8 DEF EndQueuePayment, MutexIsHeld
  <2>2. /\ Len(rows) = engine.tracked + 1 /\ engine.reserved = Len(rows)
        /\ engine' = [reserved |-> Len(rows), tracked |-> Len(rows)]
        /\ Len(rows) \in Nat
    BY <1>8, <2>1 DEF EndQueuePayment, HandleTypes, EngineFitsCall
  <2>3. HandleTypes'
    BY <1>8, <2>1, <2>2 DEF EndQueuePayment, HandleTypes, Stages, Null, Usable, Poisoned
  <2>4. MutexIsHeld'
    BY <1>8, <2>1, <2>2 DEF EndQueuePayment, MutexIsHeld
  <2>5. EngineFitsCall'
    BY <1>8, <2>1, <2>2 DEF EndQueuePayment, HandleTypes, MutexIsHeld, EngineFitsCall, Null, Usable, Poisoned
  <2>6. PanicsStayContained'
    BY <1>8, <2>1, <2>2 DEF EndQueuePayment, PanicsStayContained, HandleTypes
  <2> QED BY <2>3, <2>4, <2>5, <2>6 DEF HandleInv
<1>9. CASE CatchPanic
  <2>1. HandleTypes'
    BY <1>9, HandleAssumption DEF CatchPanic, HandleTypes, Stages, Null, Usable, Poisoned
  <2>2. MutexIsHeld'
    BY <1>9 DEF CatchPanic, MutexIsHeld
  <2>3. EngineFitsCall'
    BY <1>9 DEF CatchPanic, HandleTypes, MutexIsHeld, EngineFitsCall, Null, Usable, Poisoned
  <2>4. PanicsStayContained'
    BY <1>9 DEF CatchPanic, PanicsStayContained, HandleTypes
  <2> QED BY <2>1, <2>2, <2>3, <2>4 DEF HandleInv
<1>10. CASE UNCHANGED handleVars
  <2>1. HandleTypes'
    BY <1>10 DEF handleVars, HandleTypes, Stages, Null, Usable, Poisoned
  <2>2. MutexIsHeld'
    BY <1>10 DEF handleVars, MutexIsHeld
  <2>3. EngineFitsCall'
    BY <1>10 DEF handleVars, HandleTypes, MutexIsHeld, EngineFitsCall, Null, Usable, Poisoned
  <2>4. PanicsStayContained'
    BY <1>10 DEF handleVars, PanicsStayContained, HandleTypes
  <2> QED BY <2>1, <2>2, <2>3, <2>4 DEF HandleInv
<1> QED BY <1>1, <1>2, <1>3, <1>4, <1>5, <1>6, <1>7, <1>8, <1>9, <1>10
        DEF HandleNext

(* Wherever a call of ffi.rs panics and however threads, panics and re-opened
   handles interleave, no status call answers from a torn engine and no
   sequence number is skipped. *)
THEOREM PanicsContained == HandleSpec => []PanicsStayContained
<1>1. HandleInv => PanicsStayContained
  BY DEF HandleInv
<1> QED BY <1>1, HandleInvInit, HandleInvStep, PTL DEF HandleSpec

===============================================================================
