-------------------------- MODULE DispatchEvidence --------------------------
(* Dispatch order on a shared relay with delay evidence (queue/vdf_ordering.rs).
   A device may claim any enqueued_at; a proof of Delay sequential squarings
   over the seed of the running round is evidence it cannot make up. The group
   arithmetic is taken at its word: a proof says over which input and for how
   many squarings it was computed, and nobody squares faster than the clock
   that counts from the publication of a seed. *)
EXTENDS Integers, FiniteSets

CONSTANTS Devices,
          Envelopes,   \* message ids, a set of numbers: ids are compared
          Priorities,  \* tiers, numbers, higher first
          Times,       \* claims of enqueued_at
          Delay,       \* T
          MaxRounds    \* bound on the rounds

ASSUME EvidenceAssumption ==
    /\ Envelopes \subseteq Nat /\ Priorities \subseteq Nat /\ Times \subseteq Nat
    /\ Delay \in Nat \ {0} /\ MaxRounds \in Nat \ {0}

VARIABLES
    round,     \* the seed published last
    elapsed,   \* time for that many squarings has passed since, up to Delay
    work,      \* what each device is computing
    entries    \* the entries a relay orders

evidenceVars == <<round, elapsed, work, entries>>

(* derive_input: the input of a proof is bound to the seed and the envelope. *)
VdfInput(seed, envelope) == <<seed, envelope>>
Inputs == (1..MaxRounds) \X Envelopes
Idle == [input |-> <<>>, squarings |-> 0]
NoProof == [input |-> <<>>, squarings |-> 0]
Computations == {Idle} \cup [input : Inputs, squarings : 0..Delay]

NotSubmitted == [priority |-> -1, enqueuedAt |-> -1, proof |-> NoProof]
Submitted == {e \in Envelopes : entries[e] # NotSubmitted}

EvidenceTypeOK ==
    /\ round \in 1..MaxRounds
    /\ elapsed \in 0..Delay
    /\ work \in [Devices -> Computations]
    /\ entries \in [Envelopes ->
           {NotSubmitted} \cup
           [priority : Priorities, enqueuedAt : Times, proof : Computations]]

EvidenceInit ==
    /\ round = 1
    /\ elapsed = 0
    /\ work = [d \in Devices |-> Idle]
    /\ entries = [e \in Envelopes |-> NotSubmitted]

(* A device hands the relay an entry and claims a time for it. *)
SubmitEntry(e, priority, at) ==
    /\ e \notin Submitted
    /\ entries' = [entries EXCEPT
          ![e] = [priority |-> priority, enqueuedAt |-> at, proof |-> NoProof]]
    /\ UNCHANGED <<round, elapsed, work>>

PublishSeed ==
    /\ round < MaxRounds
    /\ round' = round + 1
    /\ elapsed' = 0
    /\ UNCHANGED <<work, entries>>

(* evaluate starts from any seed already published. *)
StartEvaluation(d, seed, envelope) ==
    /\ work[d] = Idle
    /\ seed \in 1..round
    /\ work' = [work EXCEPT ![d] = [input |-> VdfInput(seed, envelope), squarings |-> 0]]
    /\ UNCHANGED <<round, elapsed, entries>>

(* Time for one squaring; some devices use it. *)
PassTime(busy) ==
    /\ elapsed' = IF elapsed < Delay THEN elapsed + 1 ELSE Delay
    /\ work' = [d \in Devices |->
          IF d \in busy /\ work[d] # Idle /\ work[d].squarings < Delay
          THEN [work[d] EXCEPT !.squarings = @ + 1] ELSE work[d]]
    /\ UNCHANGED <<round, entries>>

(* A device attaches what it has computed so far to the envelope. *)
AttachProof(d) ==
    /\ work[d] # Idle
    /\ work[d].input[2] \in Submitted
    /\ entries' = [entries EXCEPT ![work[d].input[2]].proof = work[d]]
    /\ work' = [work EXCEPT ![d] = Idle]
    /\ UNCHANGED <<round, elapsed>>

EvidenceNext ==
    \/ PublishSeed
    \/ \E e \in Envelopes, p \in Priorities, at \in Times : SubmitEntry(e, p, at)
    \/ \E d \in Devices :
          \/ AttachProof(d)
          \/ \E seed \in 1..MaxRounds, e \in Envelopes : StartEvaluation(d, seed, e)
    \/ \E busy \in SUBSET Devices : PassTime(busy)

EvidenceSpec == EvidenceInit /\ [][EvidenceNext]_evidenceVars

(* Bug: the delay the proof claims for itself is believed. *)
VerifyClaimedDelay(envelope, proof) ==
    proof # NoProof /\ proof.input = VdfInput(round, envelope)

(* verify: for this envelope, this round, and the protocol's own delay. *)
Verify(envelope, proof) ==
    /\ proof # NoProof
    /\ proof.input = VdfInput(round, envelope)
    /\ proof.squarings = Delay

Verified(e) == Verify(e, entries[e].proof)

(* The order of sort_for_dispatch: tier, evidence, claimed time, id. *)
DispatchedBefore(a, b) ==
    \/ entries[a].priority > entries[b].priority
    \/ /\ entries[a].priority = entries[b].priority
       /\ \/ Verified(a) /\ ~Verified(b)
          \/ /\ Verified(a) <=> Verified(b)
             /\ \/ entries[a].enqueuedAt < entries[b].enqueuedAt
                \/ entries[a].enqueuedAt = entries[b].enqueuedAt /\ a < b

-----------------------------------------------------------------------------
(* Whoever is dispatched before an entry of the same tier that claims to be
   older has spent the whole delay on it, inside this very round: evidence of
   an earlier round, for another envelope or of fewer squarings moves nothing. *)
OvertakingCostsTheDelay ==
    \A a, b \in Submitted :
        /\ DispatchedBefore(a, b)
        /\ entries[a].priority = entries[b].priority
        /\ entries[a].enqueuedAt > entries[b].enqueuedAt
        => elapsed = Delay
=============================================================================
