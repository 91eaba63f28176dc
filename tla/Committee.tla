------------------------------ MODULE Committee ------------------------------
(* The ad hoc committee of conflict/quorum.rs. Every device that faces an
   ambiguous conflict collects ballots from the members in reach and calls
   resolve_by_quorum on what it has. Honest members tell everybody the same
   candidate, Byzantine members tell each device what they like; a ballot names
   a candidate and no voter, so the collector must take one from each member.

   The module docs ask for 3F < M and T > 2M/3 in a committee of M. What that
   buys in a committee of N members, M of them enough to decide, is the
   assumption below; with N = M it follows from the bound of the docs. *)
EXTENDS Integers, FiniteSets

CONSTANTS Members,        \* the committee
          Byzantine,      \* its Byzantine members
          Candidates,     \* message ids to choose from
          Collectors,     \* devices that decide
          QuorumSize,     \* M
          Supermajority   \* T

ASSUME CommitteeAssumption ==
    /\ IsFiniteSet(Members) /\ Byzantine \subseteq Members
    /\ QuorumSize \in Nat /\ Supermajority \in Nat
    /\ 2 * Supermajority > Cardinality(Members) + Cardinality(Byzantine)

VARIABLES
    opinion,    \* the candidate each honest member tells everybody
    ballots,    \* the ballots each collector has, by member
    result      \* what each collector decided

committeeVars == <<opinion, ballots, result>>

Honest == Members \ Byzantine
NoBallot == "no_ballot"
Undecided == "undecided"
NoQuorumReached == "no_quorum_reached"
SplitDecision == "split_decision"

ASSUME CandidatesAssumption ==
    Candidates \cap {NoBallot, Undecided, NoQuorumReached, SplitDecision} = {}

CommitteeTypeOK ==
    /\ opinion \in [Honest -> Candidates \cup {NoBallot}]
    /\ ballots \in [Collectors -> [Members -> Candidates \cup {NoBallot}]]
    /\ result \in [Collectors ->
           Candidates \cup {Undecided, NoQuorumReached, SplitDecision}]

CommitteeInit ==
    /\ opinion = [m \in Honest |-> NoBallot]
    /\ ballots = [c \in Collectors |-> [m \in Members |-> NoBallot]]
    /\ result = [c \in Collectors |-> Undecided]

(* A ballot reaches a collector that has not decided yet. *)
Vote(member, collector, candidate) ==
    /\ result[collector] \in {Undecided, NoQuorumReached}
    /\ ballots[collector][member] = NoBallot
    /\ member \in Honest => opinion[member] \in {NoBallot, candidate}
    /\ opinion' = [m \in Honest |-> IF m = member THEN candidate ELSE opinion[m]]
    /\ ballots' = [ballots EXCEPT ![collector][member] = candidate]
    /\ UNCHANGED result

Votes(votes) == {m \in Members : votes[m] # NoBallot}
Count(votes, candidate) == Cardinality({m \in Members : votes[m] = candidate})

(* Bug: a majority of the ballots in hand is enough. *)
PluralityWins(votes) ==
    IF Cardinality(Votes(votes)) < QuorumSize THEN {NoQuorumReached}
    ELSE LET reached == {c \in Candidates :
                            2 * Count(votes, c) > Cardinality(Votes(votes))}
         IN  IF reached = {} THEN {SplitDecision} ELSE reached

(* resolve_by_quorum: the outcomes it may return. The counts sit in a hash map,
   so of several candidates at the threshold any may be returned. *)
ResolveByQuorum(votes) ==
    IF Cardinality(Votes(votes)) < QuorumSize THEN {NoQuorumReached}
    ELSE LET reached == {c \in Candidates : Count(votes, c) >= Supermajority}
         IN  IF reached = {} THEN {SplitDecision} ELSE reached

(* A collector may try again after "no quorum" once it has more ballots. *)
Decide(collector) ==
    /\ result[collector] \in {Undecided, NoQuorumReached}
    /\ \E outcome \in ResolveByQuorum(ballots[collector]) :
          result' = [result EXCEPT ![collector] = outcome]
    /\ UNCHANGED <<opinion, ballots>>

CommitteeNext ==
    \E collector \in Collectors :
        \/ Decide(collector)
        \/ \E m \in Members, candidate \in Candidates : Vote(m, collector, candidate)

CommitteeSpec == CommitteeInit /\ [][CommitteeNext]_committeeVars

-----------------------------------------------------------------------------
(* No two devices resolve one conflict differently, whichever ballots reached
   them and whatever the Byzantine members told each of them; in particular no
   two candidates reach the threshold at one device, where hash order would
   pick between them. *)
CommitteeAgreement ==
    \A c, d \in Collectors :
        result[c] \in Candidates /\ result[d] \in Candidates => result[c] = result[d]
=============================================================================
