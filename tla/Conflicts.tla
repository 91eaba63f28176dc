----------------------------- MODULE Conflicts -----------------------------
(***************************************************************************)
(* Double-spend detection and resolution (src/conflict) on devices of a    *)
(* mesh that never talk to a coordinator: each hears of queued slots and   *)
(* files relay proofs in its own order, some of them worthless, and        *)
(* decides alone.  The environment is that of src/sim: a split-brain race  *)
(* of conflicting envelopes, forged proofs and replayed ones.              *)
(***************************************************************************)
EXTENDS Integers, Sequences, SequencesExt, FiniteSetsExt

CONSTANTS Devices,
          Envelopes,     \* message ids: numbers, for ids are compared
          SlotOf,        \* the account and sequence each envelope claims
          Raced,         \* the ones of one slot the run starts with
          Collectors,    \* the devices relay proofs reach
          Relays,
          Byzantine,     \* the relays that sign what they did not carry
          Carried,       \* <<relay, envelope>>: the proofs a relay signed
          Forged,        \* <<relay, envelope, filed under>>: broken proofs
          Replayed,      \* <<relay, envelope>>: proofs for another sequence
          MinQuorum,     \* MIN_QUORUM of resolver.rs
          MaxEvents      \* bound on slots heard and proofs filed

ASSUME ConflictsAssumption ==
    /\ Envelopes \subseteq Nat /\ IsFiniteSet(Envelopes)
    /\ Raced \subseteq Envelopes /\ Cardinality(Raced) >= 2
    /\ \A e, f \in Raced : SlotOf[e] = SlotOf[f]
    /\ \A e \in Envelopes : SlotOf[e].sequence \in Int
    /\ Collectors \subseteq Devices
    /\ IsFiniteSet(Relays)
    /\ Byzantine \subseteq Relays
    /\ Carried \subseteq Relays \X Envelopes
    /\ MinQuorum \in Nat /\ MaxEvents \in Nat
    /\ Cardinality(Byzantine) < MinQuorum

Unresolved == 0
ASSUME UnresolvedAssumption == Unresolved \notin Envelopes

VARIABLES
    slots,          \* what each device has queued or heard, in that order
    observations,   \* the proofs it filed under each envelope
    open,           \* the candidates its last scan found on a slot
    verdict,        \* the winner it was last given for them
    events          \* how many messages arrived

vars == <<slots, observations, open, verdict, events>>

Keys == {SlotOf[e] : e \in Envelopes}

-----------------------------------------------------------------------------
(* detector.rs                                                             *)

\* sort_by: the members of a set in a strict order, each where its rank puts it
Sorted(S, less) ==
    [n \in 1..Cardinality(S) |->
        CHOOSE x \in S : Cardinality({y \in S : <<y, x>> \in less}) = n - 1]

IdOrder(ids) == {p \in ids \X ids : p[1] < p[2]}

\* the code puts account and sequence before the ids: ids decide both here, and
\* any fixed order of the slots serves
PairOrder(pairs) == {pq \in pairs \X pairs :
    LET p == pq[1]
        q == pq[2]
    IN p[1] < q[1] \/ (p[1] = q[1] /\ p[2] < q[2])}

\* the least id of a group tells it from every other
GroupOrder(groups) == {gh \in groups \X groups : gh[1][1] < gh[2][1]}

\* Bug: dedup without the sort that brings equal ids together.
AsArrived(ids, claims) == IdOrder(claims)

\* ids.sort() orders the positions that claim a slot: equal ids stay apart
ById(ids, claims) == {p \in claims \X claims :
    \/ ids[p[1]] < ids[p[2]]
    \/ ids[p[1]] = ids[p[2]] /\ p[1] < p[2]}

\* ids.dedup() drops an id that equals the one before it
Deduped(ids) ==
    LET kept  == {n \in DOMAIN ids : n = 1 \/ ids[n] # ids[n - 1]}
        order == Sorted(kept, IdOrder(kept))
    IN [n \in 1..Cardinality(kept) |-> ids[order[n]]]

\* the ids that claim one slot, sorted, each once
Group(heard, key) ==
    LET claims == {i \in DOMAIN heard : SlotOf[heard[i]] = key}
        order  == Sorted(claims, ById(heard, claims))
    IN Deduped([n \in 1..Cardinality(claims) |-> heard[order[n]]])

\* conflicts_between two slots
ConflictsBetween(a, b) == SlotOf[a] = SlotOf[b] /\ a # b

\* detect_conflicts: every pair of every group, in one order
PairsOf(ids) == {<<ids[p[1]], ids[p[2]]>> :
                    p \in {q \in (DOMAIN ids) \X (DOMAIN ids) : q[1] < q[2]}}
DetectConflicts(heard) ==
    LET pairs == UNION {PairsOf(Group(heard, key)) : key \in Keys}
    IN Sorted(pairs, PairOrder(pairs))

\* detect_nway_conflicts: every group of at least two, in one order
DetectNway(heard) ==
    LET groups == {g \in {Group(heard, key) : key \in Keys} : Len(g) >= 2}
    IN Sorted(groups, GroupOrder(groups))

-----------------------------------------------------------------------------
(* resolver.rs                                                             *)

\* RelayChainProof::verify of the key the proof is filed with
Verifies(proof, e) == proof.intact /\ proof.tx = e

\* Bug: proofs are counted, not the relays that signed them.
EveryProof(proofs, e) ==
    {<<p.relay, p.chain>> : p \in {q \in proofs :
        q.sequence = SlotOf[e].sequence /\ Verifies(q, e)}}

\* count_distinct_valid_relays
DistinctValidRelays(proofs, e) ==
    {p.relay : p \in {q \in proofs :
        q.sequence = SlotOf[e].sequence /\ Verifies(q, e)}}

Support(evidence, e) == Cardinality(DistinctValidRelays(evidence[e], e))

\* Bug: envelope_b also wins a tie.
TieGoesToB(a, b, evidence) ==
    LET nA == Support(evidence, a)
        nB == Support(evidence, b)
    IN CASE nA >= MinQuorum /\ nA > nB -> a
         [] nB >= MinQuorum /\ nB >= nA -> b
         [] OTHER -> Unresolved

\* resolve_conflict
ResolveConflict(a, b, evidence) ==
    LET nA == Support(evidence, a)
        nB == Support(evidence, b)
    IN CASE nA >= MinQuorum /\ nA > nB -> a
         [] nB >= MinQuorum /\ nB > nA -> b
         [] OTHER -> Unresolved

\* Bug: the evidence is not matched against the candidates.
WhateverTheEvidence(candidates, evidence) ==
    LET top == {e \in candidates : \A f \in candidates :
                   Support(evidence, e) >= Support(evidence, f)}
    IN IF \E e \in top : top = {e} /\ Support(evidence, e) >= MinQuorum
       THEN CHOOSE e \in top : TRUE
       ELSE Unresolved

\* Bug: of several candidates at the top, the first is taken.
FirstOfTheTop(candidates, evidence) ==
    LET top == {e \in candidates : \A f \in candidates :
                   Support(evidence, e) >= Support(evidence, f)}
    IN IF /\ DOMAIN evidence = candidates
          /\ \E e \in top : Support(evidence, e) >= MinQuorum
       THEN CHOOSE e \in top : \A f \in top : e <= f
       ELSE Unresolved

\* resolve_nway_conflict: evidence maps each candidate it is given for to
\* its proofs
ResolveNway(candidates, evidence) ==
    LET top == {e \in candidates : \A f \in candidates :
                   Support(evidence, e) >= Support(evidence, f)}
    IN IF /\ DOMAIN evidence = candidates
          /\ \E e \in top : top = {e} /\ Support(evidence, e) >= MinQuorum
       THEN CHOOSE e \in top : TRUE
       ELSE Unresolved

-----------------------------------------------------------------------------
(* escalation.rs                                                           *)

\* Bug: envelope_a always raises the dispute.
AlwaysA(a, b, seen) == [initiator |-> a, respondent |-> b, tx |-> a]

\* build_escalation: the side seen first raises the dispute
BuildEscalation(a, b, seen) ==
    LET first == IF seen[a] <= seen[b] THEN a ELSE b
    IN [initiator |-> first, respondent |-> IF first = a THEN b ELSE a,
        tx |-> first]

-----------------------------------------------------------------------------
(* sim/world.rs: what a device knows, and what all of them know together   *)

Proofs == [relay : Relays, tx : Envelopes, sequence : Int, chain : {1, 2},
           intact : BOOLEAN]

Proof(r, e) == [relay |-> r, tx |-> e, sequence |-> SlotOf[e].sequence,
                chain |-> 1, intact |-> TRUE]

Heard(d) == {slots[d][i].id : i \in DOMAIN slots[d]}
Ids(heard) == [i \in DOMAIN heard |-> heard[i].id]

\* first_seen_locally_at
FirstSeen(d) == [e \in Heard(d) |->
    slots[d][CHOOSE i \in DOMAIN slots[d] :
        /\ slots[d][i].id = e
        /\ \A j \in 1..(i - 1) : slots[d][j].id # e].at]

Contenders(d, key) == {e \in Heard(d) : SlotOf[e] = key}

\* Bug: a device whose view overlaps an earlier one is left out.
FirstViewWins ==
    LET lone == {c \in Devices : \A b \in Devices \ {c} : Heard(b) \cap Heard(c) = {}}
        ids  == UNION {Heard(d) : d \in lone}
    IN Sorted(ids, IdOrder(ids))

\* merged_slots: one slot per message id, over every device
MergedSlots ==
    LET ids == UNION {Heard(d) : d \in Devices} IN Sorted(ids, IdOrder(ids))

\* observations_for and evidence_for_pair over every device
MergedEvidence ==
    [e \in Envelopes |-> UNION {observations[d][e] : d \in Devices}]

-----------------------------------------------------------------------------
TypeOK ==
    /\ slots \in [Devices -> Seq([id : Envelopes, at : Nat])]
    /\ observations \in [Devices -> [Envelopes -> SUBSET Proofs]]
    /\ open \in [Devices -> SUBSET Envelopes]
    /\ verdict \in [Devices -> Envelopes \cup {Unresolved}]
    /\ events \in 0..MaxEvents

\* The race of race.rs: envelopes for one slot in any order, the first to
\* one device and the rest to the others.
Init ==
    /\ \E order \in SetToSeqs(Raced), first \in Devices :
        slots = [d \in Devices |->
            IF d = first THEN <<[id |-> order[1], at |-> 0]>>
            ELSE [i \in 1..(Len(order) - 1) |->
                     [id |-> order[i + 1], at |-> 0]]]
    /\ observations = [d \in Devices |-> [e \in Envelopes |-> {}]]
    /\ open = [d \in Devices |-> {}]
    /\ verdict = [d \in Devices |-> Unresolved]
    /\ events = 0

Message == events < MaxEvents /\ events' = events + 1

\* Gossip brings a slot, perhaps once more, in the same second as the last
\* one or a later one.
Hear(d, e) ==
    /\ Message
    /\ \E later \in {0, 1} :
        slots' = [slots EXCEPT ![d] =
            Append(@, [id |-> e, at |-> Last(@).at + later])]
    /\ UNCHANGED <<observations, open, verdict>>

File(d, e, proofs) ==
    /\ Message
    /\ ~(proofs \subseteq observations[d][e])
    /\ observations' = [observations EXCEPT ![d][e] = @ \cup proofs]
    /\ UNCHANGED <<slots, open, verdict>>

\* Proofs of an envelope by some of the relays that signed it.
Attest(d) == \E e \in Envelopes :
    \E signers \in SUBSET {r \in Relays : <<r, e>> \in Carried} :
        File(d, e, {Proof(r, e) : r \in signers})

\* forged_proof.rs: a broken signature or chain hash, a proof of one
\* envelope filed under another, a second proof minted by one relay.
ForgedProof(d) ==
    \/ \E r \in Relays, e, under \in Envelopes :
        /\ <<r, e, under>> \in Forged
        /\ File(d, under, {[Proof(r, e) EXCEPT !.intact = (e # under)]})
    \/ \E r \in Byzantine, e \in Envelopes :
        /\ <<r, e>> \in Carried
        /\ File(d, e, {[Proof(r, e) EXCEPT !.chain = 2]})

\* replay.rs: a proof that was valid for another sequence number
Replay(d) == \E r \in Relays, e \in Envelopes :
    /\ <<r, e>> \in Replayed
    /\ File(d, e, {[Proof(r, e) EXCEPT !.sequence = @ + 1]})

\* The device scans its slots and keeps a conflict to resolve.
Detect(d) ==
    /\ \E i \in DOMAIN DetectNway(Ids(slots[d])) :
        open' = [open EXCEPT ![d] = Range(DetectNway(Ids(slots[d]))[i])]
    /\ verdict' = [verdict EXCEPT ![d] = Unresolved]
    /\ UNCHANGED <<slots, observations, events>>

\* Later it gathers the evidence it has for that slot now and resolves.
Resolve(d) ==
    /\ open[d] # {}
    /\ LET key == SlotOf[CHOOSE e \in open[d] : TRUE]
           evidence == [e \in Contenders(d, key) |-> observations[d][e]]
       IN verdict' = [verdict EXCEPT ![d] = ResolveNway(open[d], evidence)]
    /\ UNCHANGED <<slots, observations, open, events>>

Next == \E d \in Devices :
    \/ \E e \in Envelopes : Hear(d, e)
    \/ d \in Collectors /\ Attest(d)
    \/ d \in Collectors /\ ForgedProof(d)
    \/ d \in Collectors /\ Replay(d)
    \/ d \in Collectors /\ Detect(d)
    \/ Resolve(d)

Spec == Init /\ [][Next]_vars

-----------------------------------------------------------------------------
(* What each device concludes.                                             *)

\* What a device finds depends on the set of slots it heard, not on order
\* or repetition (race.rs): the pairs are all the conflicting pairs of that
\* set, listed once, and the groups are the maximal ones.
DetectionIgnoresArrival == \A d \in Devices :
    LET pairs  == DetectConflicts(Ids(slots[d]))
        groups == DetectNway(Ids(slots[d]))
        found  == {p \in Heard(d) \X Heard(d) :
                      p[1] < p[2] /\ ConflictsBetween(p[1], p[2])}
    IN /\ pairs = Sorted(found, PairOrder(found))
       /\ {{p[1], p[2]} : p \in Range(pairs)}
            = UNION {kSubset(2, Range(g)) : g \in Range(groups)}

\* Once the views of a split brain are merged (merged_slots) every conflict
\* is found, those no device could see alone too.
MergeFindsEveryConflict ==
    {{p[1], p[2]} : p \in Range(DetectConflicts(MergedSlots))}
      = {pair \in kSubset(2, UNION {Heard(d) : d \in Devices}) :
            \A e, f \in pair : SlotOf[e] = SlotOf[f]}

\* With fewer Byzantine relays than MIN_QUORUM, an envelope that no honest
\* relay signed never wins, however proofs are forged, copied or replayed
\* (resolver.rs: one relay must not be enough to win a conflict).
HonestRelayBehindWinner == \A d \in Devices : verdict[d] # Unresolved =>
    \E r \in Relays \ Byzantine : <<r, verdict[d]>> \in Carried

\* The one pass over a slot with several candidates agrees with the pairs:
\* its winner wins each of its pairs, and with two candidates both
\* procedures say the same (resolver.rs on resolve_nway_conflict).
NwayAgreesWithPairs == \A d \in Devices : \A key \in Keys :
    LET candidates == Contenders(d, key)
        evidence   == [e \in candidates |-> observations[d][e]]
        winner     == ResolveNway(candidates, evidence)
    IN /\ winner # Unresolved => \A e \in candidates \ {winner} :
              /\ ResolveConflict(winner, e, evidence) = winner
              /\ ResolveConflict(e, winner, evidence) = winner
       /\ \A e, f \in candidates : (e # f /\ candidates = {e, f}) =>
              winner = ResolveConflict(e, f, evidence)

\* Devices that heard the envelopes of a pair in the same strict order name
\* the same initiator, whatever else they heard (escalation.rs).
SameOrderSameDispute == \A c, d \in Devices :
    \A e, f \in Heard(c) \cap Heard(d) :
        (/\ ConflictsBetween(e, f)
         /\ FirstSeen(c)[e] < FirstSeen(c)[f]
         /\ FirstSeen(d)[e] < FirstSeen(d)[f])
        => /\ BuildEscalation(e, f, FirstSeen(c)).initiator = e
           /\ BuildEscalation(f, e, FirstSeen(d)) =
                BuildEscalation(e, f, FirstSeen(c))

\* A winner is never announced while a contender that was heard before was
\* left out of the comparison: a scan that has gone stale decides nothing.
WinnerBeatEveryContender == [][\A d \in Devices :
    (verdict'[d] # verdict[d] /\ verdict'[d] # Unresolved) =>
        \A e \in Contenders(d, SlotOf[verdict'[d]]) \ {verdict'[d]} :
            Support(observations[d], e) < Support(observations[d], verdict'[d])]_vars

\* One more proof never turns a pair's verdict into its opposite, and a
\* proof of the winner never costs it the win (the strict majority).
NoDirectFlip == [][\A d \in Devices : \A e, f \in Envelopes :
    LET before == ResolveConflict(e, f, observations[d])
        after  == ResolveConflict(e, f, observations'[d])
    IN (/\ ConflictsBetween(e, f)
        /\ before # Unresolved
        /\ Cardinality(UNION {observations'[d][g] \ observations[d][g] :
                              g \in Envelopes}) = 1) =>
        /\ after \in {before, Unresolved}
        /\ observations'[d][before] # observations[d][before]
               => after = before]_vars
=============================================================================
