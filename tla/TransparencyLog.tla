--------------------------- MODULE TransparencyLog ---------------------------
(* The append-only Merkle log over settlement history of
   settlement/transparency_log.rs, an auditor who keeps an old root, and
   somebody who rewrites a stored entry before the log is loaded again.

   SHA-256 is taken to have no collisions: a hash is the tuple of what went in.
   The recursions of the code are recursive functions. *)
EXTENDS Integers, Sequences

CONSTANTS Rows,         \* contents of the history rows that are appended
          Forgeries,    \* contents an entry may be rewritten to
          MaxSize,      \* bound on the length of the log
          MaxRewrites   \* bound on the number of rewrites

ASSUME LogAssumption == MaxSize \in Nat /\ MaxRewrites \in Nat

VARIABLES
    log,       \* the entries, in order
    pinned,    \* what an auditor kept: a size and the root at that size
    original,  \* the entries the auditor's root was computed from
    rewrites   \* how often storage was rewritten

logVars == <<log, pinned, original, rewrites>>

Entries == Rows \cup Forgeries

EmptyHash == <<"empty">>
LeafHash(index, entry) == <<"leaf", index, entry>>
NodeHash(left, right) == <<"node", left, right>>

Leaves(entries) == [i \in DOMAIN entries |-> LeafHash(i - 1, entries[i])]

(* Bug: an unpaired last node is hashed with padding. *)
PaddedLevel(level) ==
    [k \in 1..((Len(level) + 1) \div 2) |->
        NodeHash(level[2 * k - 1],
                 IF 2 * k <= Len(level) THEN level[2 * k] ELSE EmptyHash)]

(* build_tree_levels: pair neighbours, promote an unpaired last node. *)
NextLevel(level) ==
    [k \in 1..((Len(level) + 1) \div 2) |->
        IF 2 * k <= Len(level) THEN NodeHash(level[2 * k - 1], level[2 * k])
                               ELSE level[2 * k - 1]]

(* Level h of the tree over some leaves; the root level and those above it
   have one node. *)
TreeLevel(leaves, height) ==
    LET level[h \in 0..height] ==
            IF h = 0 THEN leaves ELSE NextLevel(level[h - 1])
    IN  level[height]

(* The number of levels below the root. *)
Height(leaves) ==
    CHOOSE h \in 0..Len(leaves) :
        /\ Len(TreeLevel(leaves, h)) = 1
        /\ \A lower \in 0..(h - 1) : Len(TreeLevel(leaves, lower)) > 1

Root(leaves) ==
    IF leaves = <<>> THEN EmptyHash ELSE TreeLevel(leaves, Height(leaves))[1]

-----------------------------------------------------------------------------
(* Inclusion proofs. Positions count from zero, as in the code. *)

Sibling(position) == IF position % 2 = 0 THEN position + 1 ELSE position - 1

(* The position on the way up: every level halves it. *)
Position(index, height) ==
    LET at[h \in 0..height] == IF h = 0 THEN index ELSE at[h - 1] \div 2
    IN  at[height]

(* inclusion_proof_from_levels: the sibling at every level below the root, and
   whether it is on the right. A sibling past the end is the empty hash. *)
InclusionProof(leaves, index) ==
    [leafHash |-> leaves[index + 1],
     rootHash |-> Root(leaves),
     path |-> [step \in 1..Height(leaves) |->
        LET level == TreeLevel(leaves, step - 1)
            position == Position(index, step - 1)
        IN  [hash |-> IF Sibling(position) < Len(level)
                      THEN level[Sibling(position) + 1] ELSE EmptyHash,
             isRight |-> position % 2 = 0]]]

(* Bug: left and right siblings are hashed in the same order. *)
ClimbUnordered(proof) ==
    LET current[step \in 0..Len(proof.path)] ==
            IF step = 0 THEN proof.leafHash
            ELSE NodeHash(current[step - 1], proof.path[step].hash)
    IN  current[Len(proof.path)]

(* The root a proof's leaf and path hash to. *)
Climb(proof) ==
    LET current[step \in 0..Len(proof.path)] ==
            IF step = 0 THEN proof.leafHash
            ELSE IF proof.path[step].isRight
            THEN NodeHash(current[step - 1], proof.path[step].hash)
            ELSE NodeHash(proof.path[step].hash, current[step - 1])
    IN  current[Len(proof.path)]

VerifyInclusionProof(proof) == Climb(proof) = proof.rootHash

-----------------------------------------------------------------------------
(* Consistency proofs. *)

(* The largest power of two up to n: its binary digits after the first are
   dropped one by one and come back as zeros. *)
LargestPowerUpTo[n \in Nat \ {0}] ==
    IF n = 1 THEN 1 ELSE 2 * LargestPowerUpTo[n \div 2]

(* subtree_hash: split at the largest power of two below the length. *)
SubtreeHash(leaves, first, end) ==
    LET hash[range \in (first..(end - 1)) \X ((first + 1)..end)] ==
            LET a == range[1]
                b == range[2]
                mid == a + LargestPowerUpTo[b - a - 1]
            IN  IF b <= a + 1 THEN leaves[a + 1]
                ELSE NodeHash(hash[<<a, mid>>], hash[<<mid, b>>])
    IN  hash[<<first, end>>]

(* collect_subtree_hashes: [0, size) from left to right in the largest powers
   of two that fit. *)
CollectSubtreeHashes(leaves, size) ==
    LET from[start \in 0..size] ==
            IF start = size THEN <<>>
            ELSE LET piece == LargestPowerUpTo[size - start]
                 IN  <<SubtreeHash(leaves, start, start + piece)>>
                         \o from[start + piece]
    IN  from[0]

(* consistency_proof_for: from an old size to the log as it is. *)
ConsistencyProof(leaves, oldSize) ==
    [oldSize |-> oldSize,
     newSize |-> Len(leaves),
     oldRoot |-> Root(SubSeq(leaves, 1, oldSize)),
     newRoot |-> Root(leaves),
     hashes |-> IF oldSize = Len(leaves) THEN <<>>
                ELSE CollectSubtreeHashes(leaves, oldSize)]

(* The old root, chained from the rightmost piece to the left. *)
ChainRightToLeft(hashes) ==
    LET n == Len(hashes)
        chained[i \in 1..n] ==
            IF i = n THEN hashes[n] ELSE NodeHash(hashes[i], chained[i + 1])
    IN  chained[1]

(* verify_consistency_proof: the verifier has the leaves of the new log. *)
VerifyConsistencyProof(proof, leaves) ==
    /\ proof.oldSize > 0 /\ proof.oldSize <= proof.newSize
    /\ proof.newRoot = Root(leaves)
    /\ IF proof.oldSize = proof.newSize
       THEN proof.oldRoot = proof.newRoot
       ELSE ChainRightToLeft(proof.hashes) = proof.oldRoot

-----------------------------------------------------------------------------
NothingPinned == [size |-> 0, root |-> EmptyHash]

LogInit ==
    /\ log = <<>>
    /\ pinned = NothingPinned
    /\ original = <<>>
    /\ rewrites = 0

AppendEntry(entry) ==
    /\ Len(log) < MaxSize
    /\ log' = Append(log, entry)
    /\ UNCHANGED <<pinned, original, rewrites>>

(* An auditor fetches root_hash. *)
Pin ==
    /\ log # <<>>
    /\ pinned' = [size |-> Len(log), root |-> Root(Leaves(log))]
    /\ original' = log
    /\ UNCHANGED <<log, rewrites>>

(* Somebody rewrites an entry in storage, and from_entries computes every hash
   again from what storage holds. *)
RewriteAndReload(i, entry) ==
    /\ rewrites < MaxRewrites
    /\ rewrites' = rewrites + 1
    /\ entry # log[i]
    /\ log' = [log EXCEPT ![i] = entry]
    /\ UNCHANGED <<pinned, original>>

LogNext ==
    \/ \E entry \in Rows : AppendEntry(entry)
    \/ \E i \in DOMAIN log, entry \in Entries : RewriteAndReload(i, entry)
    \/ Pin

LogSpec == LogInit /\ [][LogNext]_logVars

-----------------------------------------------------------------------------
(* An auditor who kept a root accepts the consistency proof of every later log,
   whatever the two sizes are, exactly if the entries the root was computed
   from are still what the log begins with. *)
AuditorAcceptsHonestHistoryOnly ==
    pinned.size \in 1..Len(log) =>
        LET proof == ConsistencyProof(Leaves(log), pinned.size)
        IN  VerifyConsistencyProof(proof, Leaves(log)) /\ proof.oldRoot = pinned.root
                <=> SubSeq(log, 1, pinned.size) = original

(* A node that has no neighbour at some level is promoted, but its proof hashes
   it with the empty hash there. *)
PairedUpToRoot(leaves, index) ==
    \A h \in 0..(Height(leaves) - 1) :
        LET size == Len(TreeLevel(leaves, h))
        IN  ~(size % 2 = 1 /\ Position(index, h) = size - 1)

(* inclusion_proof proves an entry, and nothing else, in its place, as long as
   every node on the way to the root has a neighbour. For the others (the last
   entry of three, say) the code makes proofs it does not itself accept. *)
InclusionProvesPairedEntries ==
    LET leaves == Leaves(log)
    IN  \A i \in DOMAIN log, claimed \in Entries :
            LET proof == [InclusionProof(leaves, i - 1) EXCEPT
                              !.leafHash = LeafHash(i - 1, claimed)]
            IN  VerifyInclusionProof(proof)
                    <=> PairedUpToRoot(leaves, i - 1) /\ claimed = log[i]
=============================================================================
