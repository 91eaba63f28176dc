------------------------------ MODULE Spendable ------------------------------
(* What a wallet may still spend (queue/spendable.rs): it pays offline, from a
   balance it saw some time ago, what estimate_spendable leaves after the
   payments it has under way. Payments settle on chain before the wallet hears
   of it, are disputed, fail and are tried again.

   The estimate forgets a payment once it is Settled or Failed. The wallet of
   this module therefore reads the balance again in the step that marks a
   payment Settled, marks Failed only what the chain can no longer take, and
   asks for the estimate again before it retries. Amounts saturate at Largest,
   as they do at the end of an i64. *)
EXTENDS Settlement, Integers, FiniteSets, FiniteSetsExt

CONSTANTS Spendings,  \* the payments of the account
          Income,     \* the balance of the account at the start
          Largest     \* the largest amount an integer holds

ASSUME SpendableAssumption ==
    /\ IsFiniteSet(Spendings)
    /\ Income \in Nat /\ Largest \in Nat /\ Income <= Largest

VARIABLES
    balance,   \* what the account has on chain
    known,     \* the balance the wallet saw last
    spends,    \* amount and status of each payment (QueuedEnvelopeSpend)
    taken      \* the payments the chain has taken

spendableVars == <<balance, known, spends, taken>>

NoSpend == [amount |-> 0, status |-> NoStatus]

SpendableTypeOK ==
    /\ balance \in 0..Largest /\ known \in 0..Largest
    /\ spends \in [Spendings ->
           {NoSpend} \cup [amount : 0..Largest, status : Statuses]]
    /\ taken \subseteq Spendings

SpendableInit ==
    /\ balance = Income /\ known = Income
    /\ spends = [p \in Spendings |-> NoSpend]
    /\ taken = {}

SaturatingAdd(a, b) == IF a + b > Largest THEN Largest ELSE a + b

(* Bug: the funds of a disputed payment count as free. *)
ReservedUnlessDisputed ==
    {p \in Spendings : spends[p].status \in {"Queued", "Propagating"}}

(* The payments whose funds may still leave. *)
Reserved ==
    {p \in Spendings : spends[p].status \in {"Queued", "Propagating", "Disputed"}}

EstimateSpendable ==
    known - FoldSet(LAMBDA p, total : SaturatingAdd(total, spends[p].amount),
                    0, Reserved)

Mark(p, status) ==
    /\ CanTransition(spends[p].status, status)
    /\ spends' = [spends EXCEPT ![p].status = status]

(* The wallet queues a payment the estimate covers. *)
Pay(p, amount) ==
    /\ spends[p] = NoSpend
    /\ amount <= EstimateSpendable
    /\ spends' = [spends EXCEPT ![p] = [amount |-> amount, status |-> "Queued"]]
    /\ UNCHANGED <<balance, known, taken>>

(* It sends the payment, or hears of a dispute about it. *)
Progress(p) ==
    /\ spends[p].status # "Failed"
    /\ Mark(p, "Propagating") \/ Mark(p, "Disputed")
    /\ UNCHANGED <<balance, known, taken>>

(* A failed payment is tried again if the estimate still covers it. *)
RetryFailed(p) ==
    /\ spends[p].status = "Failed"
    /\ spends[p].amount <= EstimateSpendable
    /\ Mark(p, "Propagating")
    /\ UNCHANGED <<balance, known, taken>>

Fail(p) ==
    /\ p \notin taken
    /\ Mark(p, "Failed")
    /\ UNCHANGED <<balance, known, taken>>

(* The chain takes a payment that is under way; it would not overdraw. *)
Take(p) ==
    /\ spends[p].status \in {"Propagating", "Disputed"}
    /\ p \notin taken
    /\ spends[p].amount <= balance
    /\ balance' = balance - spends[p].amount
    /\ taken' = taken \cup {p}
    /\ UNCHANGED <<known, spends>>

(* The wallet learns of it, and of the balance that is left. *)
Settle(p) ==
    /\ p \in taken
    /\ Mark(p, "Settled")
    /\ known' = balance
    /\ UNCHANGED <<balance, taken>>

(* The wallet looks at the balance, not knowing what it already contains. *)
Observe ==
    /\ known' = balance
    /\ UNCHANGED <<balance, spends, taken>>

SpendableNext ==
    \/ \E p \in Spendings :
          \/ \E amount \in 0..Largest : Pay(p, amount)
          \/ Progress(p) \/ RetryFailed(p) \/ Fail(p) \/ Take(p) \/ Settle(p)
    \/ Observe

SpendableSpec == SpendableInit /\ [][SpendableNext]_spendableVars

-----------------------------------------------------------------------------
(* The chain can always take everything the wallet still has under way, however
   old the balance it knew when it paid: no offline payment is double-booked on
   funds that a queued, travelling or disputed payment will need. *)
UnderWayIsCovered ==
    LET underWay == {p \in Reserved : p \notin taken}
    IN  MapThenSumSet(LAMBDA p : spends[p].amount, underWay) <= balance
=============================================================================
