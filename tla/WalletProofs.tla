----------------------------- MODULE WalletProofs -----------------------------
(* What a wallet relies on: it signs each payment once, promotes only what
   enough weight has signed, and spends only what it has. *)
EXTENDS Signing, Multisig, Spendable, FiniteSetTheorems, TLAPS

-------------------------------------------------------------------------------
(* Signing offline against a chain that moves on, for every set of payments and
   every bound on sequence numbers and observations. *)
SigningTypes ==
    /\ manager \in [baseline : Nat, reserved : Nat]
    /\ signed \subseteq Transactions
    /\ chain \in Seq(Payments \cup {Elsewhere})
    /\ pending \in Nat
    /\ stale \in [Numbers -> Nat]

(* The manager never runs ahead of what it has seen, and hands a number to one
   transaction or keeps it pending. *)
NumbersInOrder ==
    /\ manager.baseline <= manager.reserved
    /\ manager.baseline <= Len(chain)
    /\ pending <= manager.reserved
    /\ \A tx \in signed : tx.sequence <= manager.reserved /\ tx.sequence # pending

(* Nothing beyond the baseline has been reported yet. *)
ReportsReachBaseline ==
    \A s \in Numbers : s > manager.baseline => stale[s] = 0

(* Every payment on chain is a signed transaction under that number. *)
ChainWasSigned ==
    \A i \in DOMAIN chain : chain[i] # Elsewhere =>
        \E tx \in signed : tx.payment = chain[i] /\ tx.sequence = i

(* Of the transactions of one payment at most one can still get on chain, and
   none once the payment is there. *)
OneLiveTransaction ==
    /\ \A tx, ty \in signed :
          /\ tx.payment = ty.payment
          /\ tx.sequence > Len(chain) /\ ty.sequence > Len(chain)
          => tx.sequence = ty.sequence
    /\ \A i \in DOMAIN chain, tx \in signed :
          chain[i] # Elsewhere /\ tx.payment = chain[i] => tx.sequence <= Len(chain)

SigningInv ==
    /\ SigningTypes /\ NumbersInOrder /\ ReportsReachBaseline
    /\ EveryStrandedPaymentIsReported
    /\ ChainWasSigned /\ OneLiveTransaction /\ PaidAtMostOnce

LEMMA SigningInvInit == SigningInit => SigningInv
<1> SUFFICES ASSUME SigningInit PROVE SigningInv
  OBVIOUS
<1>1. <<>> \in Seq(Payments \cup {Elsewhere}) /\ Len(<<>>) = 0 /\ DOMAIN <<>> = {}
  OBVIOUS
<1>2. SigningTypes
  BY <1>1 DEF SigningInit, SigningTypes, NoNumber
<1>3. NumbersInOrder /\ ReportsReachBaseline
  BY <1>1 DEF SigningInit, NumbersInOrder, ReportsReachBaseline, NoNumber
<1>4. EveryStrandedPaymentIsReported /\ OneLiveTransaction
  BY DEF SigningInit, EveryStrandedPaymentIsReported, OneLiveTransaction
<1>5. ChainWasSigned /\ PaidAtMostOnce
  BY <1>1 DEF SigningInit, ChainWasSigned, PaidAtMostOnce
<1> QED BY <1>2, <1>3, <1>4, <1>5 DEF SigningInv

(* The parts of the state as numbers. *)
LEMMA Parts ==
    ASSUME SigningTypes
    PROVE  /\ manager.baseline \in Nat /\ manager.reserved \in Nat /\ Len(chain) \in Nat
           /\ \A s \in Numbers : s \in Nat /\ s > 0 /\ stale[s] \in Nat
           /\ \A tx \in signed : tx.sequence \in Numbers /\ tx.payment \in Payments
           /\ DOMAIN chain = 1..Len(chain)
BY SigningAssumption DEF SigningTypes, Transactions, Numbers

(* Signing a payment under the next number, for the first time or again, when
   nothing of it can get on chain any more. *)
LEMMA SignKeepsInv ==
    ASSUME SigningInv, NEW p \in Payments, NEW new \in Transactions,
           new.payment = p, new.sequence = manager.reserved + 1,
           \A tx \in signed : tx.payment = p => tx.sequence <= Len(chain),
           \A i \in DOMAIN chain : chain[i] # Elsewhere => chain[i] # p,
           manager' = ReserveNext, signed' = signed \cup {new},
           UNCHANGED <<chain, pending, stale>>
    PROVE  SigningInv'
<1>0. /\ SigningTypes /\ NumbersInOrder /\ ReportsReachBaseline
      /\ EveryStrandedPaymentIsReported
      /\ ChainWasSigned /\ OneLiveTransaction /\ PaidAtMostOnce
  BY DEF SigningInv
<1>1. /\ manager.baseline \in Nat /\ manager.reserved \in Nat /\ Len(chain) \in Nat
      /\ pending \in Nat /\ new.sequence \in Numbers
      /\ \A tx \in signed : tx.sequence \in Nat
  BY <1>0, Parts DEF SigningTypes, Transactions, Numbers
<1>2. /\ manager'.baseline = manager.baseline
      /\ manager'.reserved = manager.reserved + 1
      /\ manager' \in [baseline : Nat, reserved : Nat]
  <2>1. manager \in [baseline : Nat, reserved : Nat]
    BY <1>0 DEF SigningTypes
  <2>2. manager' = [manager EXCEPT !.reserved = manager.reserved + 1]
    BY DEF ReserveNext
  <2> QED
    BY <2>1, <2>2
<1>3. SigningTypes'
  <2>1. signed' \subseteq Transactions
    BY <1>0 DEF SigningTypes
  <2>2. chain' = chain /\ pending' = pending /\ stale' = stale
    OBVIOUS
  <2> QED
    BY <1>0, <1>2, <2>1, <2>2 DEF SigningTypes
<1>4. NumbersInOrder'
  BY <1>0, <1>1, <1>2 DEF NumbersInOrder
<1>5. ReportsReachBaseline'
  BY <1>0, <1>2 DEF ReportsReachBaseline
<1>6. EveryStrandedPaymentIsReported'
  <2> SUFFICES ASSUME NEW tx \in signed'
               PROVE  stale[tx.sequence] = IF tx.sequence <= manager.baseline THEN 1 ELSE 0
    BY <1>2 DEF EveryStrandedPaymentIsReported
  <2>1. CASE tx \in signed
    BY <1>0, <2>1 DEF EveryStrandedPaymentIsReported
  <2>2. CASE tx = new
    BY <1>0, <1>1, <2>2 DEF ReportsReachBaseline, NumbersInOrder
  <2> QED BY <2>1, <2>2
<1>7. ChainWasSigned'
  BY <1>0 DEF ChainWasSigned
<1>8. OneLiveTransaction'
  <2>1. ASSUME NEW tx \in signed', NEW ty \in signed', tx.payment = ty.payment,
               tx.sequence > Len(chain), ty.sequence > Len(chain)
        PROVE  tx.sequence = ty.sequence
    <3>1. CASE tx \in signed /\ ty \in signed
      BY <1>0, <2>1, <3>1 DEF OneLiveTransaction
    <3>2. CASE tx = new /\ ty = new
      BY <3>2
    <3>3. CASE tx = new /\ ty \in signed
      BY <1>1, <2>1, <3>3
    <3>4. CASE tx \in signed /\ ty = new
      BY <1>1, <2>1, <3>4
    <3> QED BY <3>1, <3>2, <3>3, <3>4
  <2>2. ASSUME NEW i \in DOMAIN chain, NEW tx \in signed',
               chain[i] # Elsewhere, tx.payment = chain[i]
        PROVE  tx.sequence <= Len(chain)
    BY <1>0, <2>2 DEF OneLiveTransaction
  <2> QED BY <2>1, <2>2 DEF OneLiveTransaction
<1>9. PaidAtMostOnce'
  BY <1>0 DEF PaidAtMostOnce
<1> QED BY <1>3, <1>4, <1>5, <1>6, <1>7, <1>8, <1>9 DEF SigningInv

LEMMA BuildKeepsInv ==
    ASSUME SigningInv, NEW p \in Payments, BuildAndSign(p)
    PROVE  SigningInv'
<1> DEFINE new == [payment |-> p, sequence |-> manager.reserved + 1]
<1>1. SigningTypes /\ manager.reserved \in Nat /\ ReserveNext.reserved = manager.reserved + 1
  BY Parts DEF SigningInv, SigningTypes, ReserveNext
<1>2. new \in Transactions
  BY <1>1, SigningAssumption DEF BuildAndSign, Transactions, Numbers
<1>3. \A i \in DOMAIN chain : chain[i] # Elsewhere => chain[i] # p
  BY DEF SigningInv, ChainWasSigned, BuildAndSign
<1>4. \A tx \in signed : tx.payment = p => tx.sequence <= Len(chain)
  BY DEF BuildAndSign
<1>5. /\ manager' = ReserveNext /\ signed' = signed \cup {new}
      /\ UNCHANGED <<chain, pending, stale>>
  BY <1>1 DEF BuildAndSign
<1>6. new.payment = p /\ new.sequence = manager.reserved + 1
  OBVIOUS
<1> HIDE DEF new
<1> QED BY <1>2, <1>3, <1>4, <1>5, <1>6, SignKeepsInv

LEMMA ResequenceKeepsInv ==
    ASSUME SigningInv, NEW tx \in signed, Resequence(tx)
    PROVE  SigningInv'
<1> DEFINE new == [tx EXCEPT !.sequence = manager.reserved + 1]
<1>1. /\ SigningTypes /\ manager.reserved \in Nat /\ manager.baseline \in Nat /\ Len(chain) \in Nat
      /\ manager.baseline <= Len(chain)
      /\ ReserveNext.reserved = manager.reserved + 1
      /\ DOMAIN chain = 1..Len(chain)
      /\ \A other \in signed : other.sequence \in Nat /\ other.sequence > 0
  BY Parts DEF SigningInv, SigningTypes, ReserveNext, NumbersInOrder
<1>2. tx \in Transactions /\ tx.payment \in Payments
  BY <1>1 DEF SigningTypes, Transactions
<1>3. /\ new \in Transactions /\ new.payment = tx.payment
      /\ new.sequence = manager.reserved + 1
  BY <1>1, <1>2, SigningAssumption DEF Resequence, Transactions, Numbers
<1>4. \A other \in signed :
          other.payment = tx.payment => other.sequence <= manager.baseline
  BY <1>1 DEF SigningInv, EveryStrandedPaymentIsReported, Resequence
<1>5. \A other \in signed :
          other.payment = tx.payment => other.sequence <= Len(chain)
  BY <1>1, <1>4
<1>6. ASSUME NEW i \in DOMAIN chain, chain[i] # Elsewhere PROVE chain[i] # tx.payment
  <2> SUFFICES ASSUME chain[i] = tx.payment PROVE FALSE
    OBVIOUS
  <2>1. PICK other \in signed : other.payment = chain[i] /\ other.sequence = i
    BY <1>6 DEF SigningInv, ChainWasSigned
  <2>2. i \in 1..manager.baseline
    BY <1>1, <1>4, <2>1
  <2> QED BY <2>2 DEF Resequence, SettledOnChain
<1>7. /\ manager' = ReserveNext /\ signed' = signed \cup {new}
      /\ UNCHANGED <<chain, pending, stale>>
  BY <1>1 DEF Resequence, WithUpdatedSequence
<1> HIDE DEF new
<1> QED BY <1>2, <1>3, <1>5, <1>6, <1>7, SignKeepsInv

LEMMA ReserveKeepsInv == SigningInv /\ Reserve => SigningInv'
<1> SUFFICES ASSUME SigningInv, Reserve PROVE SigningInv'
  OBVIOUS
<1>0. /\ SigningTypes /\ NumbersInOrder /\ ReportsReachBaseline
      /\ EveryStrandedPaymentIsReported
      /\ ChainWasSigned /\ OneLiveTransaction /\ PaidAtMostOnce
  BY DEF SigningInv
<1>1. /\ manager.baseline \in Nat /\ manager.reserved \in Nat /\ Len(chain) \in Nat
      /\ \A tx \in signed : tx.sequence \in Nat
  BY <1>0, Parts DEF Numbers
<1>2. /\ manager'.baseline = manager.baseline
      /\ manager'.reserved = manager.reserved + 1
      /\ manager' \in [baseline : Nat, reserved : Nat]
      /\ pending' = manager.reserved + 1
      /\ UNCHANGED <<signed, chain, stale>>
  BY <1>0, <1>1 DEF Reserve, SigningTypes, ReserveNext
<1>3. SigningTypes'
  BY <1>0, <1>1, <1>2 DEF SigningTypes
<1>4. NumbersInOrder'
  BY <1>0, <1>1, <1>2 DEF NumbersInOrder
<1>5. ReportsReachBaseline' /\ EveryStrandedPaymentIsReported'
  BY <1>0, <1>2 DEF ReportsReachBaseline, EveryStrandedPaymentIsReported
<1>6. ChainWasSigned' /\ OneLiveTransaction' /\ PaidAtMostOnce'
  BY <1>0, <1>2 DEF ChainWasSigned, OneLiveTransaction, PaidAtMostOnce
<1> QED BY <1>3, <1>4, <1>5, <1>6 DEF SigningInv

LEMMA ReleaseKeepsInv == SigningInv /\ Release => SigningInv'
<1> SUFFICES ASSUME SigningInv, Release PROVE SigningInv'
  OBVIOUS
<1>0. /\ SigningTypes /\ NumbersInOrder /\ ReportsReachBaseline
      /\ EveryStrandedPaymentIsReported
      /\ ChainWasSigned /\ OneLiveTransaction /\ PaidAtMostOnce
  BY DEF SigningInv
<1>1. /\ manager.baseline \in Nat /\ manager.reserved \in Nat /\ Len(chain) \in Nat
      /\ pending \in Nat
      /\ \A tx \in signed : tx.sequence \in Nat /\ tx.sequence > 0
  BY <1>0, Parts DEF SigningTypes, Numbers
<1>2. pending' = 0 /\ UNCHANGED <<signed, chain, stale>>
  BY DEF Release, NoNumber
<1>3. CASE pending = manager.reserved /\ pending > manager.baseline
  <2>1. /\ manager'.baseline = manager.baseline
        /\ manager'.reserved = manager.reserved - 1
        /\ manager' \in [baseline : Nat, reserved : Nat]
    BY <1>0, <1>1, <1>3 DEF Release, SigningTypes, ReleaseLast
  <2>2. SigningTypes'
    BY <1>0, <1>2, <2>1 DEF SigningTypes
  <2>3. NumbersInOrder'
    BY <1>0, <1>1, <1>2, <1>3, <2>1 DEF NumbersInOrder
  <2>4. ReportsReachBaseline' /\ EveryStrandedPaymentIsReported'
    BY <1>0, <1>2, <2>1 DEF ReportsReachBaseline, EveryStrandedPaymentIsReported
  <2>5. ChainWasSigned' /\ OneLiveTransaction' /\ PaidAtMostOnce'
    BY <1>0, <1>2 DEF ChainWasSigned, OneLiveTransaction, PaidAtMostOnce
  <2> QED BY <2>2, <2>3, <2>4, <2>5 DEF SigningInv
<1>4. CASE ~(pending = manager.reserved /\ pending > manager.baseline)
  <2>1. manager' = manager
    BY <1>4 DEF Release
  <2>2. SigningTypes' /\ NumbersInOrder'
    BY <1>0, <1>1, <1>2, <2>1 DEF SigningTypes, NumbersInOrder
  <2>3. ReportsReachBaseline' /\ EveryStrandedPaymentIsReported'
    BY <1>0, <1>2, <2>1 DEF ReportsReachBaseline, EveryStrandedPaymentIsReported
  <2>4. ChainWasSigned' /\ OneLiveTransaction' /\ PaidAtMostOnce'
    BY <1>0, <1>2 DEF ChainWasSigned, OneLiveTransaction, PaidAtMostOnce
  <2> QED BY <2>2, <2>3, <2>4 DEF SigningInv
<1> QED BY <1>3, <1>4

LEMMA ReconcileKeepsInv ==
    ASSUME SigningInv, NEW observed \in Nat, Reconcile(observed)
    PROVE  SigningInv'
<1>0. /\ SigningTypes /\ NumbersInOrder /\ ReportsReachBaseline
      /\ EveryStrandedPaymentIsReported
      /\ ChainWasSigned /\ OneLiveTransaction /\ PaidAtMostOnce
  BY DEF SigningInv
<1>1. /\ manager.baseline \in Nat /\ manager.reserved \in Nat /\ Len(chain) \in Nat
      /\ pending \in Nat /\ observed <= Len(chain)
      /\ \A s \in Numbers : s \in Nat /\ stale[s] \in Nat
      /\ \A tx \in signed : tx.sequence \in Numbers
  BY <1>0, Parts DEF Reconcile, SigningTypes, Numbers
<1>2. UNCHANGED <<signed, chain, pending>>
  BY DEF Reconcile
<1>3. ChainWasSigned' /\ OneLiveTransaction' /\ PaidAtMostOnce'
  BY <1>0, <1>2 DEF ChainWasSigned, OneLiveTransaction, PaidAtMostOnce
<1>4. CASE observed <= manager.baseline
  <2>1. UNCHANGED <<manager, stale>>
    BY <1>4 DEF Reconcile
  <2>2. /\ SigningTypes' /\ NumbersInOrder' /\ ReportsReachBaseline'
        /\ EveryStrandedPaymentIsReported'
    BY <1>0, <1>2, <2>1
       DEF SigningTypes, NumbersInOrder, ReportsReachBaseline, EveryStrandedPaymentIsReported
  <2> QED BY <1>3, <2>2 DEF SigningInv
<1>5. CASE observed > manager.baseline
  <2>1. /\ manager'.baseline = observed
        /\ manager'.reserved >= manager.reserved /\ manager'.reserved >= observed
        /\ manager'.reserved \in Nat
        /\ manager' \in [baseline : Nat, reserved : Nat]
    BY <1>1, <1>5 DEF Reconcile
  <2>2. \A s \in Numbers : stale'[s] =
            IF manager.baseline < s /\ s <= observed /\ s <= manager.reserved
            THEN stale[s] + 1 ELSE stale[s]
    BY <1>1, <1>5 DEF Reconcile, StaleSequences
  <2>3. stale' \in [Numbers -> Nat]
    BY <1>1, <1>5 DEF Reconcile
  <2>4. SigningTypes'
    BY <1>0, <1>2, <2>1, <2>3 DEF SigningTypes
  <2>5. NumbersInOrder'
    BY <1>0, <1>1, <1>2, <2>1 DEF NumbersInOrder, Numbers
  <2>6. ReportsReachBaseline'
    BY <1>0, <1>1, <1>5, <2>1, <2>2 DEF ReportsReachBaseline
  <2>7. EveryStrandedPaymentIsReported'
    <3> SUFFICES ASSUME NEW tx \in signed
                 PROVE  stale'[tx.sequence] = IF tx.sequence <= observed THEN 1 ELSE 0
      BY <1>2, <2>1 DEF EveryStrandedPaymentIsReported
    <3>1. tx.sequence \in Numbers /\ tx.sequence \in Nat /\ tx.sequence <= manager.reserved
      BY <1>0, <1>1 DEF NumbersInOrder
    <3>2. stale[tx.sequence] = IF tx.sequence <= manager.baseline THEN 1 ELSE 0
      BY <1>0 DEF EveryStrandedPaymentIsReported
    <3> QED BY <1>1, <1>5, <2>2, <3>1, <3>2
  <2> QED BY <1>3, <2>4, <2>5, <2>6, <2>7 DEF SigningInv
<1> QED BY <1>1, <1>4, <1>5

(* The chain grows by a transaction whose payment it does not have. *)
LEMMA ChainGrows ==
    ASSUME SigningInv, NEW x \in Payments \cup {Elsewhere},
           chain' = Append(chain, x), UNCHANGED <<manager, signed, pending, stale>>,
           x # Elsewhere =>
               /\ \A i \in DOMAIN chain : chain[i] # x
               /\ \E tx \in signed : tx.payment = x /\ tx.sequence = Len(chain) + 1
               /\ \A tx \in signed : tx.payment = x => tx.sequence <= Len(chain) + 1
    PROVE  SigningInv'
<1>0. /\ SigningTypes /\ NumbersInOrder /\ ReportsReachBaseline
      /\ EveryStrandedPaymentIsReported
      /\ ChainWasSigned /\ OneLiveTransaction /\ PaidAtMostOnce
  BY DEF SigningInv
<1>1. /\ manager.baseline \in Nat /\ Len(chain) \in Nat
      /\ DOMAIN chain = 1..Len(chain)
      /\ \A tx \in signed : tx.sequence \in Nat
  BY <1>0, Parts DEF Numbers
<1>2. /\ chain' \in Seq(Payments \cup {Elsewhere})
      /\ Len(chain') = Len(chain) + 1 /\ DOMAIN chain' = 1..(Len(chain) + 1)
      /\ chain'[Len(chain) + 1] = x
      /\ \A i \in 1..Len(chain) : chain'[i] = chain[i]
  BY <1>0, <1>1 DEF SigningTypes
<1>3. SigningTypes' /\ NumbersInOrder'
  BY <1>0, <1>1, <1>2 DEF SigningTypes, NumbersInOrder
<1>4. ReportsReachBaseline' /\ EveryStrandedPaymentIsReported'
  BY <1>0 DEF ReportsReachBaseline, EveryStrandedPaymentIsReported
<1>5. ChainWasSigned'
  <2> SUFFICES ASSUME NEW i \in DOMAIN chain', chain'[i] # Elsewhere
               PROVE  \E tx \in signed : tx.payment = chain'[i] /\ tx.sequence = i
    BY DEF ChainWasSigned
  <2>1. CASE i = Len(chain) + 1
    BY <1>2, <2>1
  <2>2. CASE i \in 1..Len(chain)
    BY <1>0, <1>1, <1>2, <2>2 DEF ChainWasSigned
  <2> QED BY <1>1, <1>2, <2>1, <2>2
<1>6. OneLiveTransaction'
  <2>1. \A tx, ty \in signed :
            /\ tx.payment = ty.payment
            /\ tx.sequence > Len(chain) + 1 /\ ty.sequence > Len(chain) + 1
            => tx.sequence = ty.sequence
    BY <1>0, <1>1 DEF OneLiveTransaction
  <2>2. ASSUME NEW i \in DOMAIN chain', NEW tx \in signed,
               chain'[i] # Elsewhere, tx.payment = chain'[i]
        PROVE  tx.sequence <= Len(chain) + 1
    <3>1. CASE i = Len(chain) + 1
      BY <1>2, <2>2, <3>1
    <3>2. CASE i \in 1..Len(chain)
      <4>1. tx.sequence <= Len(chain)
        BY <1>0, <1>1, <1>2, <2>2, <3>2 DEF OneLiveTransaction
      <4> QED BY <1>1, <4>1
    <3> QED BY <1>1, <1>2, <3>1, <3>2
  <2> QED BY <1>2, <2>1, <2>2 DEF OneLiveTransaction
<1>7. PaidAtMostOnce'
  <2> SUFFICES ASSUME NEW i \in DOMAIN chain', NEW j \in DOMAIN chain', i # j,
                      chain'[i] = chain'[j], chain'[i] # Elsewhere
               PROVE  FALSE
    BY DEF PaidAtMostOnce
  <2>1. CASE i \in 1..Len(chain) /\ j \in 1..Len(chain)
    BY <1>0, <1>1, <1>2, <2>1 DEF PaidAtMostOnce
  <2>2. CASE i = Len(chain) + 1 /\ j \in 1..Len(chain)
    BY <1>1, <1>2, <2>2
  <2>3. CASE j = Len(chain) + 1 /\ i \in 1..Len(chain)
    BY <1>1, <1>2, <2>3
  <2> QED BY <1>1, <1>2, <2>1, <2>2, <2>3
<1> QED BY <1>3, <1>4, <1>5, <1>6, <1>7 DEF SigningInv

LEMMA SubmitKeepsInv ==
    ASSUME SigningInv, NEW tx \in signed, Submit(tx)
    PROVE  SigningInv'
<1>0. SigningTypes /\ OneLiveTransaction
  BY DEF SigningInv
<1>1. /\ Len(chain) \in Nat /\ tx.sequence = Len(chain) + 1
      /\ tx.payment \in Payments
      /\ \A ty \in signed : ty.sequence \in Nat
  BY <1>0, Parts DEF Submit, Numbers
<1>2. tx.payment # Elsewhere => \A i \in DOMAIN chain : chain[i] # tx.payment
  BY <1>0, <1>1 DEF OneLiveTransaction
<1>3. \A ty \in signed : ty.payment = tx.payment => ty.sequence <= Len(chain) + 1
  BY <1>0, <1>1 DEF OneLiveTransaction
<1>4. /\ chain' = Append(chain, tx.payment)
      /\ UNCHANGED <<manager, signed, pending, stale>>
  BY DEF Submit
<1>5. PICK x \in Payments \cup {Elsewhere} : x = tx.payment
  BY <1>1
<1> QED BY <1>1, <1>2, <1>3, <1>4, <1>5, ChainGrows

LEMMA SigningInvStep == SigningInv /\ [SigningNext]_signingVars => SigningInv'
<1> SUFFICES ASSUME SigningInv, [SigningNext]_signingVars PROVE SigningInv'
  OBVIOUS
<1>1. ASSUME NEW p \in Payments, BuildAndSign(p) PROVE SigningInv'
  BY <1>1, BuildKeepsInv
<1>2. ASSUME NEW tx \in signed, Resequence(tx) PROVE SigningInv'
  BY <1>2, ResequenceKeepsInv
<1>3. ASSUME NEW tx \in signed, Submit(tx) PROVE SigningInv'
  BY <1>3, SubmitKeepsInv
<1>4. ASSUME NEW observed \in 0..MaxSequence, Reconcile(observed) PROVE SigningInv'
  <2>1. observed \in Nat
    BY SigningAssumption
  <2> QED BY <1>4, <2>1, ReconcileKeepsInv
<1>5. CASE Reserve
  BY <1>5, ReserveKeepsInv
<1>6. CASE Release
  BY <1>6, ReleaseKeepsInv
<1>7. CASE SpendElsewhere
  <2>1. /\ chain' = Append(chain, Elsewhere)
        /\ UNCHANGED <<manager, signed, pending, stale>>
    BY <1>7 DEF SpendElsewhere
  <2> QED BY <2>1, ChainGrows
<1>8. CASE UNCHANGED signingVars
  BY <1>8 DEF signingVars, SigningInv, SigningTypes, NumbersInOrder, ReportsReachBaseline,
              EveryStrandedPaymentIsReported, ChainWasSigned, OneLiveTransaction,
              PaidAtMostOnce
<1> QED BY <1>1, <1>2, <1>3, <1>4, <1>5, <1>6, <1>7, <1>8 DEF SigningNext

(* SequenceReservationManager::reconcile tells of every signed transaction the
   chain has passed by, exactly once, in whatever order observations come and
   reservations are given back. *)
THEOREM StrandedPaymentsAreReported ==
    SigningSpec => []EveryStrandedPaymentIsReported
<1>1. SigningInv => EveryStrandedPaymentIsReported
  BY DEF SigningInv
<1> QED BY <1>1, SigningInvInit, SigningInvStep, PTL DEF SigningSpec

(* resequence_and_resign pays nobody twice when the wallet re-signs only what
   reconcile reported stale and the chain does not show: however the account's
   other devices, old observations and late submissions interleave. *)
THEOREM PaymentsAreMadeOnce == SigningSpec => []PaidAtMostOnce
<1>1. SigningInv => PaidAtMostOnce
  BY DEF SigningInv
<1> QED BY <1>1, SigningInvInit, SigningInvStep, PTL DEF SigningSpec

(* Sums over finite sets. The folds of the community modules take a member the
   prover knows nothing of from what is left; a sum does not depend on which. *)

\* A set of numbers has a least one.
LEMMA LeastOf ==
    ASSUME NEW S \in SUBSET Nat, S # {}
    PROVE  \E m \in S : \A n \in S : m =< n
<1> DEFINE R == OpToRel(<, Nat)
<1>1. \A x, y \in Nat : <<x, y>> \in R <=> x < y
  BY DEF OpToRel
<1>2. IsWellFoundedOn(R, Nat)
  BY NatLessThanWellFounded
<1> HIDE DEF R
<1>3. PICK m \in S : \A n \in S : ~(<<n, m>> \in R)
  BY <1>2, WFMin
<1>4. \A n \in S : ~(n < m) /\ n \in Nat /\ m \in Nat
  BY <1>1, <1>3
<1> QED
  BY <1>3, <1>4

\* Of the subsets of a finite set that have a property, one is smallest:
\* dropping a member of it leaves a set that does not have the property.
LEMMA SmallestSubset ==
    ASSUME NEW S, IsFiniteSet(S), NEW F \in SUBSET (SUBSET S), F # {}
    PROVE  \E U \in F : /\ IsFiniteSet(U)
                        /\ \A x \in U : U \ {x} \notin F
                        /\ \A x, y \in U : (U \ {x}) \ {y} \notin F
<1> DEFINE sizes == {Cardinality(U) : U \in F}
<1>1. \A U \in F : IsFiniteSet(U) /\ Cardinality(U) \in Nat
  BY FS_Subset, FS_CardinalityType
<1>2. PICK m \in sizes : \A n \in sizes : m =< n
  <2>1. sizes \in SUBSET Nat /\ sizes # {}
    BY <1>1
  <2> QED
    BY <2>1, LeastOf
<1>3. PICK U \in F : Cardinality(U) = m
  BY <1>2
<1>4. \A V \in F : Cardinality(U) =< Cardinality(V)
  BY <1>2, <1>3
<1>5. \A x \in U : IsFiniteSet(U \ {x}) /\ Cardinality(U \ {x}) = Cardinality(U) - 1
  BY <1>1, FS_RemoveElement
<1>6. \A x \in U : U \ {x} \notin F
  BY <1>1, <1>4, <1>5
<1>7. ASSUME NEW x \in U, NEW y \in U PROVE (U \ {x}) \ {y} \notin F
  <2>1. CASE y = x
    <3>1. (U \ {x}) \ {y} = U \ {x}
      BY <2>1
    <3> QED
      BY <1>6, <3>1
  <2>2. CASE y # x
    <3>1. y \in U \ {x}
      BY <2>2
    <3>2. Cardinality((U \ {x}) \ {y}) = Cardinality(U \ {x}) - 1
      BY <1>5, <3>1, FS_RemoveElement
    <3> QED
      BY <1>1, <1>4, <1>5, <3>2
  <2> QED
    BY <2>1, <2>2
<1> QED
  BY <1>1, <1>6, <1>7

\* g adds up the weights w over every subset of S.
IsSum(w, S, g) ==
    /\ g \in [SUBSET S -> Nat]
    /\ g[{}] = 0
    /\ \A U \in SUBSET S : \A x \in U : g[U] = w[x] + g[U \ {x}]

\* The recursion of the community modules' MapThenFoldSet.
Picked(U) == CHOOSE x \in U : TRUE
SumBody(w, S, g) ==
    [U \in SUBSET S |-> IF U = {} THEN 0 ELSE w[Picked(U)] + g[U \ {Picked(U)}]]

\* Weights are numbers.
Weighs(w, S) == \A x \in S : w[x] \in Nat

\* That recursion computes the sum.
LEMMA RecursionSums ==
    ASSUME NEW S, IsFiniteSet(S), NEW w, Weighs(w, S), NEW g, g = SumBody(w, S, g)
    PROVE  IsSum(w, S, g)
<1>1. DOMAIN g = SUBSET S /\ g[{}] = 0
  BY DEF SumBody
<1>2. \A U \in SUBSET S : U # {} =>
         Picked(U) \in U /\ g[U] = w[Picked(U)] + g[U \ {Picked(U)}]
  <2>1. \A U \in SUBSET S : U # {} => Picked(U) \in U
    BY DEF Picked
  <2>2. \A U \in SUBSET S : U # {} => g[U] = w[Picked(U)] + g[U \ {Picked(U)}]
    BY DEF SumBody
  <2> QED
    BY <2>1, <2>2
<1>3. \A U \in SUBSET S : g[U] \in Nat
  <2> DEFINE F == {U \in SUBSET S : g[U] \notin Nat}
  <2> SUFFICES ASSUME F # {} PROVE FALSE
    OBVIOUS
  <2>1. PICK U \in F : \A x \in U : U \ {x} \notin F
    BY SmallestSubset
  <2>2. U \in SUBSET S /\ U # {}
    BY <1>1, <2>1
  <2>3. Picked(U) \in U /\ g[U] = w[Picked(U)] + g[U \ {Picked(U)}]
    BY <1>2, <2>2
  <2>4. g[U \ {Picked(U)}] \in Nat
    BY <2>1, <2>2, <2>3
  <2>5. w[Picked(U)] \in Nat
    BY <2>2, <2>3 DEF Weighs
  <2> QED
    BY <2>1, <2>3, <2>4, <2>5
<1>4. \A U \in SUBSET S : \A x \in U : g[U] = w[x] + g[U \ {x}]
  <2> DEFINE F == {U \in SUBSET S : \E x \in U : g[U] # w[x] + g[U \ {x}]}
  <2> SUFFICES ASSUME F # {} PROVE FALSE
    OBVIOUS
  <2>1. PICK U \in F : \A x \in U : U \ {x} \notin F
    BY SmallestSubset
  <2>2. U \in SUBSET S /\ U # {}
    OBVIOUS
  <2>3. PICK x \in U : g[U] # w[x] + g[U \ {x}]
    OBVIOUS
  <2> DEFINE c == Picked(U)
  <2>4. c \in U /\ g[U] = w[c] + g[U \ {c}]
    BY <1>2, <2>2
  <2> HIDE DEF c
  <2>5. x # c
    BY <2>3, <2>4
  <2>6. g[U \ {c}] = w[x] + g[(U \ {c}) \ {x}]
    <3>1. x \in U \ {c} /\ U \ {c} \in SUBSET S
      BY <2>2, <2>5
    <3> QED
      BY <2>1, <2>4, <3>1
  <2>7. g[U \ {x}] = w[c] + g[(U \ {x}) \ {c}]
    <3>1. c \in U \ {x} /\ U \ {x} \in SUBSET S
      BY <2>2, <2>4, <2>5
    <3> QED
      BY <2>1, <2>3, <3>1
  <2> DEFINE rest == (U \ {x}) \ {c}
  <2>8. (U \ {c}) \ {x} = rest /\ g[rest] \in Nat
    BY <1>3, <2>2
  <2>9. w[x] \in Nat /\ w[c] \in Nat
    BY <2>2, <2>4 DEF Weighs
  <2>10. g[U \ {c}] = w[x] + g[rest] /\ g[U \ {x}] = w[c] + g[rest]
    BY <2>6, <2>7, <2>8
  <2> HIDE DEF rest, F
  <2>11. w[c] + g[U \ {c}] = w[x] + g[U \ {x}]
    BY <2>8, <2>9, <2>10
  <2> QED
    BY <2>3, <2>4, <2>11
<1>5. g \in [SUBSET S -> Nat]
  <2>1. g = [U \in SUBSET S |-> g[U]]
    BY DEF SumBody
  <2> QED
    BY <1>3, <2>1
<1> QED
  BY <1>1, <1>4, <1>5 DEF IsSum

\* That recursion has a solution: a sum over sets of up to n members extends
\* to those of n + 1.
LEMMA SumExists ==
    ASSUME NEW S, IsFiniteSet(S), NEW w, Weighs(w, S)
    PROVE  \E g : g = SumBody(w, S, g)
<1> DEFINE Small(n) == {U \in SUBSET S : Cardinality(U) =< n}
           Good(n, g) == \A U \in Small(n) :
              g[U] = IF U = {} THEN 0 ELSE w[Picked(U)] + g[U \ {Picked(U)}]
           Bad == {n \in Nat : ~\E g : Good(n, g)}
<1>1. \A U \in SUBSET S : IsFiniteSet(U) /\ Cardinality(U) \in Nat
                          /\ Cardinality(U) =< Cardinality(S)
  BY FS_Subset, FS_CardinalityType
<1>2. \A U \in SUBSET S : U # {} =>
         Picked(U) \in U /\ Cardinality(U \ {Picked(U)}) = Cardinality(U) - 1
  <2> SUFFICES ASSUME NEW U \in SUBSET S, U # {}
               PROVE  Picked(U) \in U /\ Cardinality(U \ {Picked(U)}) = Cardinality(U) - 1
    OBVIOUS
  <2>1. Picked(U) \in U
    BY DEF Picked
  <2> QED
    BY <1>1, <2>1, FS_RemoveElement
<1>3. Bad = {}
  <2> SUFFICES ASSUME Bad # {} PROVE FALSE
    OBVIOUS
  <2>1. PICK n \in Bad : \A k \in Bad : n =< k
    BY LeastOf
  <2>2. CASE n = 0
    <3> DEFINE g == [U \in SUBSET S |-> 0]
    <3>1. \A U \in Small(0) : U = {}
      <4> SUFFICES ASSUME NEW U \in Small(0) PROVE U = {}
        OBVIOUS
      <4>1. IsFiniteSet(U) /\ Cardinality(U) = 0
        BY <1>1
      <4> QED
        BY <4>1, FS_EmptySet
    <3>2. Good(0, g)
      BY <3>1
    <3> QED
      BY <2>1, <2>2, <3>2
  <2>3. CASE n # 0
    <3>1. n - 1 \in Nat /\ n - 1 \notin Bad
      <4>1. n \in Nat
        OBVIOUS
      <4>2. n - 1 \in Nat /\ ~(n =< n - 1)
        BY <2>3, <4>1
      <4> HIDE DEF Bad
      <4> QED
        BY <2>1, <4>2
    <3>2. PICK h : Good(n - 1, h)
      BY <3>1
    <3> DEFINE g == [U \in SUBSET S |->
              IF Cardinality(U) =< n - 1 THEN h[U]
              ELSE w[Picked(U)] + h[U \ {Picked(U)}]]
    <3>3. ASSUME NEW U \in Small(n)
          PROVE  g[U] = IF U = {} THEN 0 ELSE w[Picked(U)] + g[U \ {Picked(U)}]
      <4>1. U \in SUBSET S /\ Cardinality(U) \in Nat /\ n \in Nat
        BY <1>1
      <4>2. CASE U = {}
        <5>1. Cardinality(U) = 0
          BY <4>2, FS_EmptySet
        <5>2. U \in Small(n - 1)
          BY <3>1, <4>1, <5>1
        <5> QED
          BY <3>1, <3>2, <4>1, <4>2, <5>1, <5>2
      <4>3. CASE U # {}
        <5> DEFINE V == U \ {Picked(U)}
        <5>1. V \in SUBSET S /\ Cardinality(V) = Cardinality(U) - 1
          BY <1>2, <4>1, <4>3
        <5>2. Cardinality(V) =< n - 1
          BY <4>1, <5>1
        <5>3. g[V] = h[V]
          BY <5>1, <5>2
        <5>4. g[U] = w[Picked(U)] + h[V]
          <6>1. CASE Cardinality(U) =< n - 1
            <7>1. U \in Small(n - 1)
              BY <4>1, <6>1
            <7>2. h[U] = w[Picked(U)] + h[V]
              BY <3>2, <4>3, <7>1
            <7> QED
              BY <4>1, <6>1, <7>2
          <6>2. CASE ~(Cardinality(U) =< n - 1)
            BY <4>1, <6>2
          <6> QED
            BY <6>1, <6>2
        <5> HIDE DEF g
        <5> QED
          BY <4>3, <5>3, <5>4
      <4> QED
        BY <4>2, <4>3
    <3> HIDE DEF g
    <3>4. Good(n, g)
      BY <3>3
    <3> QED
      BY <2>1, <3>4
  <2> QED
    BY <2>2, <2>3
<1>4. PICK g : Good(Cardinality(S), g)
  <2>1. Cardinality(S) \in Nat
    BY FS_CardinalityType
  <2> QED
    BY <1>3, <2>1
<1> DEFINE f == [U \in SUBSET S |-> g[U]]
<1>5. \A U \in SUBSET S :
         f[U] = IF U = {} THEN 0 ELSE w[Picked(U)] + f[U \ {Picked(U)}]
  <2> SUFFICES ASSUME NEW U \in SUBSET S
               PROVE  f[U] = IF U = {} THEN 0 ELSE w[Picked(U)] + f[U \ {Picked(U)}]
    OBVIOUS
  <2>1. U \in Small(Cardinality(S)) /\ U \ {Picked(U)} \in SUBSET S
    BY <1>1
  <2> QED
    BY <1>4, <2>1
<1>6. f = SumBody(w, S, f)
  <2>1. f = [U \in SUBSET S |-> f[U]]
    OBVIOUS
  <2> HIDE DEF f
  <2> QED
    BY <1>5, <2>1 DEF SumBody
<1> QED
  BY <1>6

\* A sum over part of a set, of the same weights, is the part's sum.
LEMMA SumsAgree ==
    ASSUME NEW S, IsFiniteSet(S), NEW T \in SUBSET S, NEW w, NEW v, NEW g, NEW h,
           IsSum(w, S, g), IsSum(v, T, h), \A x \in T : v[x] = w[x]
    PROVE  \A U \in SUBSET T : h[U] = g[U]
<1> DEFINE F == {U \in SUBSET T : h[U] # g[U]}
<1> SUFFICES ASSUME F # {} PROVE FALSE
  OBVIOUS
<1>1. IsFiniteSet(T)
  BY FS_Subset
<1>2. PICK U \in F : \A x \in U : U \ {x} \notin F
  BY <1>1, SmallestSubset
<1>3. U \in SUBSET T /\ U \in SUBSET S
  OBVIOUS
<1>4. U # {}
  BY DEF IsSum
<1>5. PICK x : x \in U
  BY <1>4
<1>6. h[U] = v[x] + h[U \ {x}] /\ g[U] = w[x] + g[U \ {x}]
  BY <1>3, <1>5 DEF IsSum
<1>7. h[U \ {x}] = g[U \ {x}]
  BY <1>2, <1>3, <1>5
<1>8. v[x] = w[x]
  BY <1>3, <1>5
<1> QED
  BY <1>2, <1>6, <1>7, <1>8

\* Two parts that have nothing in common add up.
LEMMA SumSplits ==
    ASSUME NEW S, IsFiniteSet(S), NEW w, Weighs(w, S), NEW g, IsSum(w, S, g),
           NEW U \in SUBSET S, NEW V \in SUBSET S, U \cap V = {}
    PROVE  g[U \cup V] = g[U] + g[V]
<1> DEFINE F == {X \in SUBSET V : g[U \cup X] # g[U] + g[X]}
<1> SUFFICES ASSUME F # {} PROVE FALSE
  OBVIOUS
<1>1. IsFiniteSet(V)
  BY FS_Subset
<1>2. PICK X \in F : \A x \in X : X \ {x} \notin F
  <2>1. F \in SUBSET (SUBSET V)
    OBVIOUS
  <2> HIDE DEF F
  <2> QED
    BY <1>1, <2>1, SmallestSubset
<1>3. X \in SUBSET V /\ X \in SUBSET S
  OBVIOUS
<1>4. X # {}
  <2>1. g[{}] = 0 /\ g[U] \in Nat
    BY DEF IsSum
  <2>2. g[U \cup {}] = g[U]
    OBVIOUS
  <2>3. g[U \cup {}] = g[U] + g[{}]
    BY <2>1, <2>2
  <2>4. g[U \cup X] # g[U] + g[X]
    OBVIOUS
  <2> HIDE DEF F
  <2> QED
    BY <2>3, <2>4
<1>5. PICK x : x \in X
  BY <1>4
<1>6. /\ (U \cup X) \ {x} = U \cup (X \ {x})
      /\ U \cup X \in SUBSET S /\ x \in U \cup X
  BY <1>3, <1>5
<1>7. g[U \cup X] = w[x] + g[U \cup (X \ {x})] /\ g[X] = w[x] + g[X \ {x}]
  <2>1. g[U \cup X] = w[x] + g[(U \cup X) \ {x}]
    BY <1>6 DEF IsSum
  <2>2. g[X] = w[x] + g[X \ {x}]
    BY <1>3, <1>5 DEF IsSum
  <2> QED
    BY <1>6, <2>1, <2>2
<1>8. g[U \cup (X \ {x})] = g[U] + g[X \ {x}]
  BY <1>2, <1>3, <1>5
<1>9. w[x] \in Nat /\ g[U] \in Nat /\ g[X \ {x}] \in Nat
  <2>1. X \ {x} \in SUBSET S /\ x \in S
    BY <1>3, <1>5
  <2> QED
    BY <2>1 DEF IsSum, Weighs
<1> HIDE DEF F
<1>10. g[U \cup X] = g[U] + g[X]
  BY <1>7, <1>8, <1>9
<1> QED
  BY <1>2, <1>10 DEF F

\* A larger set weighs no less.
LEMMA SumGrows ==
    ASSUME NEW S, IsFiniteSet(S), NEW w, Weighs(w, S), NEW g, IsSum(w, S, g),
           NEW V \in SUBSET S, NEW U \in SUBSET V
    PROVE  g[U] =< g[V]
<1>1. V \ U \in SUBSET S /\ U \in SUBSET S /\ U \cap (V \ U) = {} /\ U \cup (V \ U) = V
  OBVIOUS
<1>2. g[V] = g[U] + g[V \ U]
  BY <1>1, SumSplits
<1>3. g[U] \in Nat /\ g[V \ U] \in Nat
  BY <1>1 DEF IsSum
<1> QED
  BY <1>2, <1>3

\* The sums of a finite set and of its subsets.
LEMMA SumOf ==
    ASSUME NEW S, IsFiniteSet(S), NEW w, Weighs(w, S)
    PROVE  \E g : IsSum(w, S, g) /\ g = SumBody(w, S, g)
BY SumExists, RecursionSums

\* MapThenSumSet adds up weights.
Sum(w, T) == MapThenSumSet(LAMBDA x : w[x], T)

LEMMA MapThenSum ==
    ASSUME NEW S, IsFiniteSet(S), NEW w, Weighs(w, S), NEW g, IsSum(w, S, g),
           NEW T \in SUBSET S
    PROVE  Sum(w, T) = g[T]
<1>1. IsFiniteSet(T) /\ Weighs(w, T)
  BY FS_Subset DEF Weighs
<1> DEFINE h == CHOOSE f : f = SumBody(w, T, f)
<1>2. Sum(w, T) = h[T]
  BY DEF Sum, MapThenSumSet, MapThenFoldSet, SumBody, Picked
<1>3. h = SumBody(w, T, h)
  BY <1>1, SumExists
<1> HIDE DEF h
<1>4. IsSum(w, T, h)
  BY <1>1, <1>3, RecursionSums
<1>5. h[T] = g[T]
  BY <1>4, SumsAgree
<1> QED
  BY <1>2, <1>5
-----------------------------------------------------------------------------
(* Multisig collection.                                                    *)

\* More contributors carry no less weight.
LEMMA MoreSignersWeighMore ==
    ASSUME NEW table \in Snapshots, NEW fewer, NEW more, fewer \subseteq more
    PROVE  /\ AccumulatedWeight(table, fewer) \in Nat
           /\ AccumulatedWeight(table, more) \in Nat
           /\ AccumulatedWeight(table, fewer) <= AccumulatedWeight(table, more)
<1> DEFINE S == DOMAIN table
           U == fewer \cap S
           V == more \cap S
<1>1. IsFiniteSet(S) /\ Weighs(table, S)
  BY MultisigAssumption DEF Weighs
<1>2. PICK g : IsSum(table, S, g)
  BY <1>1, SumOf
<1>3. U \in SUBSET S /\ V \in SUBSET S /\ U \in SUBSET V
  OBVIOUS
<1>4. AccumulatedWeight(table, fewer) = Sum(table, U)
  BY DEF AccumulatedWeight, Sum
<1>5. AccumulatedWeight(table, more) = Sum(table, V)
  BY DEF AccumulatedWeight, Sum
<1> HIDE DEF S, U, V
<1>6. Sum(table, U) = g[U]
  BY <1>1, <1>2, <1>3, MapThenSum
<1>7. Sum(table, V) = g[V]
  BY <1>1, <1>2, <1>3, MapThenSum
<1>8. g[U] \in Nat /\ g[V] \in Nat
  BY <1>2, <1>3 DEF IsSum
<1>9. g[U] <= g[V]
  BY <1>1, <1>2, <1>3, SumGrows
<1> QED
  BY <1>4, <1>5, <1>6, <1>7, <1>8, <1>9

\* Every contribution to the envelope is agreement to what it carries now.
ContributionsAgree ==
    \A s \in partial.contributions : s \in Signers /\ <<s, partial.tx>> \in authorized

MultisigInv == MultisigTypeOK /\ ContributionsAgree /\ PromotedWithAuthority

LEMMA MultisigInvInit == MultisigInit => MultisigInv
BY MultisigAssumption DEF MultisigInit, MultisigInv, MultisigTypeOK, ContributionsAgree,
   PromotedWithAuthority, NoEnvelope

\* Agreement is never withdrawn, so what was promoted stays justified.
LEMMA AuthorityStays ==
    ASSUME MultisigInv, authorized \subseteq authorized', NEW p \in promoted
    PROVE  LET agreed == {s \in Signers : <<s, p.tx>> \in authorized'}
           IN  AccumulatedWeight(p.known, agreed) >= Threshold
<1> DEFINE agreed(all) == {s \in Signers : <<s, p.tx>> \in all}
<1>1. p.known \in Snapshots
  BY DEF MultisigInv, MultisigTypeOK
<1>2. agreed(authorized) \subseteq agreed(authorized')
  OBVIOUS
<1>3. AccumulatedWeight(p.known, agreed(authorized)) >= Threshold
  BY DEF MultisigInv, PromotedWithAuthority
<1> HIDE DEF agreed
<1>4. /\ AccumulatedWeight(p.known, agreed(authorized)) \in Nat
      /\ AccumulatedWeight(p.known, agreed(authorized')) \in Nat
      /\ AccumulatedWeight(p.known, agreed(authorized))
            <= AccumulatedWeight(p.known, agreed(authorized'))
  BY <1>1, <1>2, MoreSignersWeighMore
<1>5. AccumulatedWeight(p.known, agreed(authorized')) >= Threshold
  BY <1>3, <1>4, MultisigAssumption
<1> QED
  BY <1>5 DEF agreed

LEMMA MultisigInvStep == MultisigInv /\ [MultisigNext]_multisigVars => MultisigInv'
<1> SUFFICES ASSUME MultisigInv, [MultisigNext]_multisigVars PROVE MultisigInv'
  OBVIOUS
<1>0. MultisigTypeOK /\ ContributionsAgree /\ PromotedWithAuthority
  BY DEF MultisigInv
<1>1. ASSUME NEW table \in Snapshots, Reseed(table) PROVE MultisigInv'
  <2>1. MultisigTypeOK'
    BY <1>0, <1>1, MultisigAssumption DEF Reseed, MultisigTypeOK
  <2>2. ContributionsAgree' /\ PromotedWithAuthority'
    BY <1>0, <1>1 DEF Reseed, ContributionsAgree, PromotedWithAuthority
  <2> QED
    BY <2>1, <2>2 DEF MultisigInv
<1>2. ASSUME NEW tx \in Payloads, Restart(tx) PROVE MultisigInv'
  <2>1. MultisigTypeOK'
    BY <1>0, <1>2 DEF Restart, MultisigTypeOK
  <2>2. ContributionsAgree' /\ PromotedWithAuthority'
    BY <1>0, <1>2 DEF Restart, ContributionsAgree, PromotedWithAuthority
  <2> QED
    BY <2>1, <2>2 DEF MultisigInv
<1>3. ASSUME NEW signer \in Signers, AddSignature(signer) PROVE MultisigInv'
  <2>1. partial \in [tx : Payloads, contributions : SUBSET Signers]
    BY <1>0, <1>3 DEF AddSignature, MultisigTypeOK
  <2>2. /\ partial' = [partial EXCEPT !.contributions = @ \cup {signer}]
        /\ authorized' = authorized \cup {<<signer, partial.tx>>}
        /\ UNCHANGED <<registry, promoted, reseeds>>
    BY <1>3 DEF AddSignature
  <2>3. /\ partial' \in [tx : Payloads, contributions : SUBSET Signers]
        /\ partial'.tx = partial.tx
        /\ partial'.contributions = partial.contributions \cup {signer}
    BY <2>1, <2>2
  <2>4. MultisigTypeOK'
    BY <1>0, <2>1, <2>2, <2>3 DEF MultisigTypeOK
  <2>5. ContributionsAgree'
    BY <1>0, <2>2, <2>3 DEF ContributionsAgree
  <2>6. PromotedWithAuthority'
    BY <2>2, AuthorityStays DEF PromotedWithAuthority
  <2> QED
    BY <2>4, <2>5, <2>6 DEF MultisigInv
<1>4. ASSUME TryPromote PROVE MultisigInv'
  <2>1. partial \in [tx : Payloads, contributions : SUBSET Signers]
    BY <1>0, <1>4 DEF TryPromote, MultisigTypeOK
  <2>2. registry \in Snapshots
        /\ AccumulatedWeight(registry, partial.contributions) >= Threshold
    BY <1>0, <1>4 DEF TryPromote, MultisigTypeOK, MeetsThreshold
  <2>3. /\ promoted' = promoted \cup {[tx |-> partial.tx, known |-> registry]}
        /\ UNCHANGED <<registry, partial, authorized, reseeds>>
    BY <1>4 DEF TryPromote
  <2>4. MultisigTypeOK'
    BY <1>0, <2>1, <2>2, <2>3 DEF MultisigTypeOK
  <2>5. ContributionsAgree'
    BY <1>0, <2>3 DEF ContributionsAgree
  <2> DEFINE agreed == {s \in Signers : <<s, partial.tx>> \in authorized}
  <2>6. partial.contributions \subseteq agreed
    BY <1>0 DEF ContributionsAgree
  <2>7. AccumulatedWeight(registry, agreed) >= Threshold
    <3> HIDE DEF agreed
    <3>1. /\ AccumulatedWeight(registry, partial.contributions) \in Nat
          /\ AccumulatedWeight(registry, agreed) \in Nat
          /\ AccumulatedWeight(registry, partial.contributions)
                <= AccumulatedWeight(registry, agreed)
      BY <2>2, <2>6, MoreSignersWeighMore
    <3> QED
      BY <2>2, <3>1, MultisigAssumption
  <2>8. ASSUME NEW p \in promoted'
        PROVE  LET all == {s \in Signers : <<s, p.tx>> \in authorized'}
               IN  AccumulatedWeight(p.known, all) >= Threshold
    <3>1. CASE p \in promoted
      BY <1>0, <2>3, <3>1 DEF PromotedWithAuthority
    <3>2. CASE p = [tx |-> partial.tx, known |-> registry]
      BY <2>3, <2>7, <3>2
    <3> QED
      BY <2>3, <3>1, <3>2
  <2>9. PromotedWithAuthority'
    BY <2>8 DEF PromotedWithAuthority
  <2> QED
    BY <2>4, <2>5, <2>9 DEF MultisigInv
<1>5. CASE UNCHANGED multisigVars
  BY <1>0, <1>5 DEF multisigVars, MultisigInv, MultisigTypeOK, ContributionsAgree,
                    PromotedWithAuthority
<1> QED
  BY <1>1, <1>2, <1>3, <1>4, <1>5 DEF MultisigNext

\* try_promote lets nothing through that signers of the threshold's weight did
\* not agree to, however often they contribute and whatever is re-seeded.
THEOREM PromotionsAreAuthorized == MultisigSpec => []PromotedWithAuthority
<1>1. MultisigInv => PromotedWithAuthority
  BY DEF MultisigInv
<1> QED
  BY <1>1, MultisigInvInit, MultisigInvStep, PTL DEF MultisigSpec
-----------------------------------------------------------------------------
(* The spendable estimate.                                                 *)

Spends == [Spendings -> {NoSpend} \cup [amount : 0..Largest, status : Statuses]]
Amounts(s) == [p \in Spendings |-> s[p].amount]

\* What the payments in T come to.
Total(s, T) == MapThenSumSet(LAMBDA p : s[p].amount, T)

SpendBody(s, T, g) ==
    [U \in SUBSET T |-> IF U = {} THEN 0
                        ELSE s[Picked(U)].amount + g[U \ {Picked(U)}]]

LEMMA AmountsAreNumbers ==
    ASSUME NEW s \in Spends
    PROVE  /\ \A p \in Spendings : s[p].amount \in Nat /\ s[p].amount <= Largest
           /\ IsFiniteSet(Spendings) /\ Weighs(Amounts(s), Spendings)
<1>1. \A p \in Spendings : s[p].amount \in 0..Largest
  BY SpendableAssumption DEF Spends, NoSpend
<1> QED
  BY <1>1, SpendableAssumption DEF Amounts, Weighs

LEMMA TotalIsSum ==
    ASSUME NEW s \in Spends, NEW T \in SUBSET Spendings, NEW g,
           IsSum(Amounts(s), Spendings, g)
    PROVE  Total(s, T) = g[T]
<1> DEFINE h == CHOOSE f : f = SpendBody(s, T, f)
           w == Amounts(s)
<1>1. IsFiniteSet(T) /\ Weighs(w, T)
  BY AmountsAreNumbers, FS_Subset DEF Weighs
<1>2. Total(s, T) = h[T]
  BY DEF Total, MapThenSumSet, MapThenFoldSet, SpendBody, Picked
<1>3. \A f : SpendBody(s, T, f) = SumBody(w, T, f)
  <2> SUFFICES ASSUME NEW f PROVE SpendBody(s, T, f) = SumBody(w, T, f)
    OBVIOUS
  <2>1. \A U \in SUBSET T : U # {} => w[Picked(U)] = s[Picked(U)].amount
    <3>1. \A U \in SUBSET T : U # {} => Picked(U) \in T
      BY DEF Picked
    <3> QED
      BY <3>1 DEF Amounts
  <2> HIDE DEF w
  <2> QED
    BY <2>1 DEF SpendBody, SumBody
<1> HIDE DEF w
<1>4. h = SpendBody(s, T, h)
  BY <1>1, <1>3, SumExists
<1> HIDE DEF h
<1>5. IsSum(w, T, h)
  BY <1>1, <1>3, <1>4, RecursionSums
<1>6. IsFiniteSet(Spendings)
  BY SpendableAssumption
<1>7. h[T] = g[T]
  BY <1>5, <1>6, SumsAgree DEF w
<1> QED
  BY <1>2, <1>7

\* Totals are numbers, add up, and depend on the amounts only.
LEMMA TotalsAdd ==
    ASSUME NEW s \in Spends, NEW T \in SUBSET Spendings, NEW U \in SUBSET Spendings
    PROVE  /\ Total(s, T) \in Nat
           /\ T \cap U = {} => Total(s, T \cup U) = Total(s, T) + Total(s, U)
           /\ T \subseteq U => Total(s, T) <= Total(s, U)
<1> DEFINE w == Amounts(s)
<1>1. IsFiniteSet(Spendings) /\ Weighs(w, Spendings)
  BY AmountsAreNumbers
<1> HIDE DEF w
<1>2. PICK g : IsSum(w, Spendings, g)
  BY <1>1, SumOf
<1>3. \A X \in SUBSET Spendings : Total(s, X) = g[X]
  BY <1>2, TotalIsSum DEF w
<1>4. g[T] \in Nat
  BY <1>2 DEF IsSum
<1>5. T \cap U = {} => g[T \cup U] = g[T] + g[U]
  BY <1>1, <1>2, SumSplits
<1>6. T \subseteq U => g[T] <= g[U]
  BY <1>1, <1>2, SumGrows
<1>7. T \cup U \in SUBSET Spendings
  OBVIOUS
<1> QED
  BY <1>3, <1>4, <1>5, <1>6, <1>7

\* Nothing adds up to zero: twice that is the same.
LEMMA NothingIsZero == \A s \in Spends : Total(s, {}) = 0
<1> TAKE s \in Spends
<1>1. PICK n \in Nat : n = Total(s, {})
  BY TotalsAdd
<1>2. Total(s, {} \cup {}) = Total(s, {}) + Total(s, {})
  <2>1. {} \in SUBSET Spendings /\ {} \cap {} = {}
    OBVIOUS
  <2> QED
    BY <2>1, TotalsAdd
<1>3. {} \cup {} = {}
  OBVIOUS
<1>4. n = n + n
  BY <1>1, <1>2, <1>3
<1>5. n = 0
  BY <1>4
<1> QED
  BY <1>1, <1>5

SameAmounts(s, t, T) == \A p \in T : s[p].amount = t[p].amount

LEMMA TotalsAgree ==
    ASSUME NEW s \in Spends, NEW t \in Spends, NEW T \in SUBSET Spendings,
           SameAmounts(s, t, T)
    PROVE  Total(s, T) = Total(t, T)
<1> DEFINE v == Amounts(s)
           w == Amounts(t)
<1>1. IsFiniteSet(Spendings) /\ Weighs(v, Spendings) /\ Weighs(w, Spendings)
  BY AmountsAreNumbers
<1>2. \A p \in T : v[p] = w[p]
  BY DEF Amounts, SameAmounts
<1>3. \A g : IsSum(v, Spendings, g) => Total(s, T) = g[T]
  BY TotalIsSum
<1>4. \A h : IsSum(w, Spendings, h) => Total(t, T) = h[T]
  BY TotalIsSum
<1> HIDE DEF v, w
<1>5. PICK g : IsSum(v, Spendings, g)
  BY <1>1, SumOf
<1>6. PICK h : IsSum(w, Spendings, h)
  BY <1>1, SumOf
<1>7. IsFiniteSet(T) /\ Weighs(v, T)
  BY <1>1, FS_Subset DEF Weighs
<1>8. PICK k : IsSum(v, T, k)
  BY <1>7, SumOf
<1>9. k[T] = g[T]
  BY <1>1, <1>5, <1>8, SumsAgree
<1>10. k[T] = h[T]
  BY <1>1, <1>2, <1>6, <1>8, SumsAgree
<1>11. Total(s, T) = g[T]
  BY <1>3, <1>5
<1>12. Total(t, T) = h[T]
  BY <1>4, <1>6
<1> QED
  BY <1>9, <1>10, <1>11, <1>12

\* A payment comes to its amount.
LEMMA TotalOfOne ==
    ASSUME NEW s \in Spends, NEW p \in Spendings
    PROVE  Total(s, {p}) = s[p].amount
<1> DEFINE w == Amounts(s)
<1>1. IsFiniteSet(Spendings) /\ Weighs(w, Spendings)
  BY AmountsAreNumbers
<1>2. w[p] = s[p].amount /\ s[p].amount \in Nat
  BY AmountsAreNumbers DEF Amounts
<1> HIDE DEF w
<1>3. PICK g : IsSum(w, Spendings, g)
  BY <1>1, SumOf
<1>4. Total(s, {p}) = g[{p}]
  BY <1>3, TotalIsSum DEF w
<1>5. g[{p}] = w[p] + g[{}] /\ g[{}] = 0
  <2>1. {p} \ {p} = {} /\ {p} \in SUBSET Spendings
    OBVIOUS
  <2>2. g[{p}] = w[p] + g[{p} \ {p}]
    BY <1>3, <2>1 DEF IsSum
  <2> QED
    BY <1>3, <2>1, <2>2 DEF IsSum
<1> QED
  BY <1>2, <1>4, <1>5

-----------------------------------------------------------------------------
\* saturating_add keeps the sum, up to the largest integer.
Saturated(n) == IF n > Largest THEN Largest ELSE n

FoldBody(s, T, g) ==
    [U \in SUBSET T |-> IF U = {} THEN 0
                        ELSE SaturatingAdd(g[U \ {Picked(U)}], s[Picked(U)].amount)]

LEMMA SaturationAdds ==
    ASSUME NEW n \in Nat, NEW a \in Nat
    PROVE  Saturated(a + n) = SaturatingAdd(Saturated(n), a)
BY SpendableAssumption DEF Saturated, SaturatingAdd

LEMMA EstimateIs ==
    ASSUME spends \in Spends
    PROVE  EstimateSpendable = known - Saturated(Total(spends, Reserved))
<1> DEFINE s == spends
           T == Reserved
           h == CHOOSE f : f = FoldBody(s, T, f)
           w == Amounts(s)
           k == [U \in SUBSET T |-> Saturated(Total(s, U))]
<1>1. EstimateSpendable = known - h[T]
  BY DEF EstimateSpendable, FoldSet, MapThenFoldSet, FoldBody, Picked
<1>2. T \in SUBSET Spendings /\ s \in Spends
  BY DEF Reserved
<1> HIDE DEF s, T
<1>3. IsFiniteSet(T)
  BY <1>2, SpendableAssumption, FS_Subset
<1>4. ASSUME NEW U \in SUBSET T, U # {}
      PROVE  /\ Picked(U) \in U
             /\ Saturated(Total(s, U)) =
                  SaturatingAdd(Saturated(Total(s, U \ {Picked(U)})), s[Picked(U)].amount)
  <2> DEFINE c == Picked(U)
             V == U \ {c}
  <2>1. c \in U
    BY <1>4 DEF Picked
  <2> HIDE DEF c
  <2>2. V \in SUBSET Spendings /\ {c} \in SUBSET Spendings /\ c \in Spendings
        /\ {c} \cap V = {} /\ {c} \cup V = U
    BY <1>2, <2>1
  <2> HIDE DEF V
  <2>3. Total(s, U) = Total(s, {c}) + Total(s, V)
    BY <1>2, <2>2, TotalsAdd
  <2>4. Total(s, {c}) = s[c].amount /\ s[c].amount \in Nat /\ Total(s, V) \in Nat
    BY <1>2, <2>2, TotalOfOne, AmountsAreNumbers, TotalsAdd
  <2>5. Saturated(Total(s, U)) = SaturatingAdd(Saturated(Total(s, V)), s[c].amount)
    BY <2>3, <2>4, SaturationAdds
  <2> QED
    BY <2>1, <2>5 DEF V, c
<1>5. Saturated(Total(s, {})) = 0
  <2>1. Total(s, {}) = 0
    BY <1>2, NothingIsZero
  <2> QED
    BY <2>1, SpendableAssumption DEF Saturated
<1>6. k = FoldBody(s, T, k)
  <2>1. \A U \in SUBSET T :
           k[U] = IF U = {} THEN 0
                  ELSE SaturatingAdd(k[U \ {Picked(U)}], s[Picked(U)].amount)
    <3> SUFFICES ASSUME NEW U \in SUBSET T
                 PROVE  k[U] = IF U = {} THEN 0
                               ELSE SaturatingAdd(k[U \ {Picked(U)}], s[Picked(U)].amount)
      OBVIOUS
    <3>1. CASE U = {}
      BY <1>5, <3>1
    <3>2. CASE U # {}
      <4>1. U \ {Picked(U)} \in SUBSET T
        OBVIOUS
      <4> QED
        BY <1>4, <3>2, <4>1
    <3> QED
      BY <3>1, <3>2
  <2>2. k = [U \in SUBSET T |-> k[U]]
    OBVIOUS
  <2> HIDE DEF k
  <2> QED
    BY <2>1, <2>2 DEF FoldBody
<1>7. h = FoldBody(s, T, h)
  BY <1>6
<1> HIDE DEF h
<1>8. \A U \in SUBSET T : h[U] = k[U]
  <2> DEFINE F == {U \in SUBSET T : h[U] # k[U]}
  <2> SUFFICES ASSUME F # {} PROVE FALSE
    OBVIOUS
  <2>1. PICK U \in F : \A x \in U : U \ {x} \notin F
    <3>1. F \in SUBSET (SUBSET T)
      OBVIOUS
    <3> HIDE DEF F
    <3> QED
      BY <1>3, <3>1, SmallestSubset
  <2>2. U \in SUBSET T
    OBVIOUS
  <2> DEFINE c == Picked(U)
  <2>3. h[U] = IF U = {} THEN 0 ELSE SaturatingAdd(h[U \ {c}], s[c].amount)
    BY <1>7, <2>2 DEF FoldBody
  <2> HIDE DEF k
  <2>4. k[U] = IF U = {} THEN 0 ELSE SaturatingAdd(k[U \ {c}], s[c].amount)
    BY <1>6, <2>2 DEF FoldBody
  <2>5. U # {} => c \in U
    BY DEF Picked
  <2> HIDE DEF c
  <2>6. U # {} => h[U \ {c}] = k[U \ {c}]
    BY <2>1, <2>2, <2>5
  <2>7. h[U] = k[U]
    BY <2>3, <2>4, <2>6
  <2> QED
    BY <2>1, <2>7
<1>9. h[T] = Saturated(Total(s, T))
  BY <1>8
<1> QED
  BY <1>1, <1>9 DEF s, T
-----------------------------------------------------------------------------
UnderWay == {p \in Reserved : p \notin taken}
Landed   == {p \in Reserved : p \in taken}

\* The wallet overestimates its balance by what the chain has taken since, and
\* that is part of what it still reserves.
KnowledgeIsReserved == known <= balance + Total(spends, Landed)

Covered == Total(spends, UnderWay) <= balance

SpendableInv == SpendableTypeOK /\ KnowledgeIsReserved /\ Covered

LEMMA SpendableParts ==
    ASSUME SpendableInv
    PROVE  /\ spends \in Spends
           /\ balance \in Nat /\ known \in Nat /\ balance <= Largest /\ known <= Largest
           /\ Largest \in Nat
           /\ Reserved \in SUBSET Spendings
           /\ UnderWay \in SUBSET Spendings /\ Landed \in SUBSET Spendings
           /\ Total(spends, UnderWay) \in Nat /\ Total(spends, Landed) \in Nat
           /\ Total(spends, Reserved) = Total(spends, UnderWay) + Total(spends, Landed)
<1>1. /\ spends \in Spends
      /\ balance \in Nat /\ known \in Nat /\ balance <= Largest /\ known <= Largest
      /\ Largest \in Nat
  BY SpendableAssumption DEF SpendableInv, SpendableTypeOK, Spends
<1>2. /\ Reserved \in SUBSET Spendings
      /\ UnderWay \in SUBSET Spendings /\ Landed \in SUBSET Spendings
      /\ UnderWay \cap Landed = {} /\ UnderWay \cup Landed = Reserved
  BY DEF Reserved, UnderWay, Landed
<1>3. /\ Total(spends, UnderWay) \in Nat /\ Total(spends, Landed) \in Nat
      /\ Total(spends, UnderWay \cup Landed) = Total(spends, UnderWay) + Total(spends, Landed)
  BY <1>1, <1>2, TotalsAdd
<1> QED
  BY <1>1, <1>2, <1>3

\* What the estimate leaves is free: nothing under way needs it.
LEMMA EstimateIsFree ==
    ASSUME SpendableInv, NEW a \in Nat, a <= EstimateSpendable
    PROVE  a + Total(spends, UnderWay) <= balance
<1> DEFINE r == Total(spends, Reserved)
           u == Total(spends, UnderWay)
           l == Total(spends, Landed)
<1>1. /\ balance \in Nat /\ known \in Nat /\ known <= Largest /\ Largest \in Nat
      /\ u \in Nat /\ l \in Nat /\ r = u + l
  BY SpendableParts
<1>2. a <= known - Saturated(r)
  BY SpendableParts, EstimateIs
<1>3. known <= balance + l /\ u <= balance
  BY DEF SpendableInv, KnowledgeIsReserved, Covered
<1> HIDE DEF r, u, l
<1>4. a + u <= balance
  <2>1. CASE r > Largest
    BY <1>1, <1>2, <1>3, <2>1 DEF Saturated
  <2>2. CASE ~(r > Largest)
    BY <1>1, <1>2, <1>3, <2>2 DEF Saturated
  <2> QED
    BY <2>1, <2>2
<1> QED
  BY <1>4 DEF u

LEMMA SpendableInvInit == SpendableInit => SpendableInv
<1> SUFFICES ASSUME SpendableInit PROVE SpendableInv
  OBVIOUS
<1>1. SpendableTypeOK
  BY SpendableAssumption DEF SpendableInit, SpendableTypeOK
<1>2. Reserved = {}
  BY DEF SpendableInit, Reserved, NoSpend, NoStatus
<1>3. UnderWay = {} /\ Landed = {}
  BY <1>2 DEF UnderWay, Landed
<1>4. spends \in Spends
  BY <1>1 DEF SpendableTypeOK, Spends
<1>5. Total(spends, {}) = 0
  BY <1>4, NothingIsZero
<1>6. balance \in Nat /\ known = balance
  BY SpendableAssumption DEF SpendableInit
<1> QED
  BY <1>1, <1>3, <1>5, <1>6 DEF SpendableInv, KnowledgeIsReserved, Covered

\* A payment goes out that the estimate covers: new, or tried again.
LEMMA BookingKeepsInv ==
    ASSUME SpendableInv, SpendableTypeOK', NEW p \in Spendings, p \notin Reserved,
           spends'[p].status \in {"Queued", "Propagating"},
           spends'[p].amount <= EstimateSpendable,
           \A q \in Spendings \ {p} : spends'[q] = spends[q],
           UNCHANGED <<balance, known, taken>>
    PROVE  SpendableInv'
<1>1. /\ spends \in Spends /\ spends' \in Spends
      /\ balance \in Nat /\ known \in Nat
      /\ UnderWay \in SUBSET Spendings /\ Landed \in SUBSET Spendings
      /\ Total(spends, UnderWay) \in Nat /\ Total(spends, Landed) \in Nat
  BY SpendableParts DEF SpendableTypeOK, Spends
<1>2. Reserved' = Reserved \cup {p}
  BY DEF Reserved
<1> DEFINE a == spends'[p].amount
<1>3. a \in Nat
  BY <1>1, AmountsAreNumbers
<1>4. a + Total(spends, UnderWay) <= balance
  BY <1>3, EstimateIsFree
<1>5. known <= balance + Total(spends, Landed) /\ Total(spends, UnderWay) <= balance
  BY DEF SpendableInv, KnowledgeIsReserved, Covered
<1>6. p \notin UnderWay /\ p \notin Landed
  BY DEF UnderWay, Landed
<1>7. /\ Total(spends', UnderWay) = Total(spends, UnderWay)
      /\ Total(spends', Landed) = Total(spends, Landed)
  <2>1. SameAmounts(spends', spends, UnderWay) /\ SameAmounts(spends', spends, Landed)
    BY <1>1, <1>6 DEF SameAmounts
  <2> QED
    BY <1>1, <2>1, TotalsAgree
<1>8. {p} \in SUBSET Spendings /\ Total(spends', {p}) = a
  BY <1>1, TotalOfOne
<1> HIDE DEF a
<1>9. CASE p \in taken
  <2>1. UnderWay' = UnderWay /\ Landed' = Landed \cup {p}
    BY <1>2, <1>9 DEF UnderWay, Landed
  <2>2. Total(spends', Landed \cup {p}) = Total(spends', Landed) + Total(spends', {p})
    BY <1>1, <1>6, <1>8, TotalsAdd
  <2>3. Total(spends', Landed') = Total(spends, Landed) + a
    BY <1>7, <1>8, <2>1, <2>2
  <2>4. Total(spends', UnderWay') = Total(spends, UnderWay)
    BY <1>7, <2>1
  <2>5. KnowledgeIsReserved'
    BY <1>1, <1>3, <1>5, <2>3 DEF KnowledgeIsReserved
  <2>6. Covered'
    BY <1>5, <2>4 DEF Covered
  <2> QED
    BY <2>5, <2>6 DEF SpendableInv
<1>10. CASE p \notin taken
  <2>1. UnderWay' = UnderWay \cup {p} /\ Landed' = Landed
    BY <1>2, <1>10 DEF UnderWay, Landed
  <2>2. Total(spends', UnderWay \cup {p}) = Total(spends', UnderWay) + Total(spends', {p})
    BY <1>1, <1>6, <1>8, TotalsAdd
  <2>3. Total(spends', UnderWay') = Total(spends, UnderWay) + a
    BY <1>7, <1>8, <2>1, <2>2
  <2>4. Total(spends', Landed') = Total(spends, Landed)
    BY <1>7, <2>1
  <2>5. KnowledgeIsReserved'
    BY <1>5, <2>4 DEF KnowledgeIsReserved
  <2>6. Covered'
    BY <1>1, <1>3, <1>4, <2>3 DEF Covered
  <2> QED
    BY <2>5, <2>6 DEF SpendableInv
<1> QED
  BY <1>9, <1>10

\* Marking a payment keeps every amount.
LEMMA MarkFacts ==
    ASSUME SpendableInv, NEW p \in Spendings, NEW status \in Statuses, Mark(p, status)
    PROVE  /\ spends' \in Spends
           /\ spends'[p].status = status /\ spends'[p].amount = spends[p].amount
           /\ \A q \in Spendings \ {p} : spends'[q] = spends[q]
           /\ \A T \in SUBSET Spendings : Total(spends', T) = Total(spends, T)
<1>1. spends \in Spends
  BY SpendableParts
<1>2. spends' = [spends EXCEPT ![p].status = status]
      /\ CanTransition(spends[p].status, status)
  BY DEF Mark
<1>3. spends[p] # NoSpend
  BY <1>2 DEF CanTransition, LegalTransitions, NoSpend, NoStatus
<1>4. spends[p] \in [amount : 0..Largest, status : Statuses]
  BY <1>1, <1>3 DEF Spends
<1>5. spends' = [spends EXCEPT ![p] = [@ EXCEPT !.status = status]]
  BY <1>2
<1>6. [spends[p] EXCEPT !.status = status] \in [amount : 0..Largest, status : Statuses]
      /\ [spends[p] EXCEPT !.status = status].amount = spends[p].amount
      /\ [spends[p] EXCEPT !.status = status].status = status
  BY <1>4
<1>7. /\ spends' \in Spends
      /\ spends'[p].status = status /\ spends'[p].amount = spends[p].amount
      /\ \A q \in Spendings \ {p} : spends'[q] = spends[q]
  BY <1>1, <1>5, <1>6 DEF Spends
<1>8. ASSUME NEW T \in SUBSET Spendings PROVE Total(spends', T) = Total(spends, T)
  <2>1. SameAmounts(spends', spends, T)
    BY <1>7 DEF SameAmounts
  <2> QED
    BY <1>1, <1>7, <2>1, TotalsAgree
<1> QED
  BY <1>7, <1>8

LEMMA SpendableInvStep == SpendableInv /\ [SpendableNext]_spendableVars => SpendableInv'
<1> SUFFICES ASSUME SpendableInv, [SpendableNext]_spendableVars PROVE SpendableInv'
  OBVIOUS
<1>0. /\ spends \in Spends
      /\ balance \in Nat /\ known \in Nat /\ balance <= Largest /\ known <= Largest
      /\ Largest \in Nat
      /\ Reserved \in SUBSET Spendings
      /\ UnderWay \in SUBSET Spendings /\ Landed \in SUBSET Spendings
      /\ Total(spends, UnderWay) \in Nat /\ Total(spends, Landed) \in Nat
      /\ SpendableTypeOK
      /\ known <= balance + Total(spends, Landed) /\ Total(spends, UnderWay) <= balance
  BY SpendableParts DEF SpendableInv, KnowledgeIsReserved, Covered
<1>1. ASSUME NEW p \in Spendings, NEW amount \in 0..Largest, Pay(p, amount)
      PROVE  SpendableInv'
  <2>1. /\ spends[p] = NoSpend /\ amount <= EstimateSpendable
        /\ spends' = [spends EXCEPT ![p] = [amount |-> amount, status |-> "Queued"]]
        /\ UNCHANGED <<balance, known, taken>>
    BY <1>1 DEF Pay
  <2>2. /\ spends'[p] = [amount |-> amount, status |-> "Queued"]
        /\ \A q \in Spendings \ {p} : spends'[q] = spends[q]
        /\ spends' \in Spends
    BY <1>0, <2>1 DEF Spends, Statuses
  <2>3. SpendableTypeOK'
    BY <1>0, <2>1, <2>2 DEF SpendableTypeOK, Spends
  <2>4. p \notin Reserved
    BY <2>1 DEF Reserved, NoSpend, NoStatus
  <2>5. spends'[p].status = "Queued" /\ spends'[p].amount = amount
    BY <2>2
  <2> QED
    BY <2>1, <2>2, <2>3, <2>4, <2>5, BookingKeepsInv
<1>2. ASSUME NEW p \in Spendings, RetryFailed(p) PROVE SpendableInv'
  <2>1. /\ spends[p].status = "Failed" /\ spends[p].amount <= EstimateSpendable
        /\ Mark(p, "Propagating")
        /\ UNCHANGED <<balance, known, taken>>
    BY <1>2 DEF RetryFailed
  <2>2. "Propagating" \in Statuses
    BY DEF Statuses
  <2>3. /\ spends' \in Spends
        /\ spends'[p].status = "Propagating" /\ spends'[p].amount = spends[p].amount
        /\ \A q \in Spendings \ {p} : spends'[q] = spends[q]
    BY <2>1, <2>2, MarkFacts
  <2>4. SpendableTypeOK'
    BY <1>0, <2>1, <2>3 DEF SpendableTypeOK, Spends
  <2>5. p \notin Reserved
    BY <2>1 DEF Reserved
  <2> QED
    BY <2>1, <2>3, <2>4, <2>5, BookingKeepsInv
<1>3. ASSUME NEW p \in Spendings, Progress(p) PROVE SpendableInv'
  <2>1. PICK status \in {"Propagating", "Disputed"} : Mark(p, status)
    BY <1>3 DEF Progress
  <2>2. spends[p].status # "Failed" /\ UNCHANGED <<balance, known, taken>>
    BY <1>3 DEF Progress
  <2>3. status \in Statuses
    BY DEF Statuses
  <2>4. /\ spends' \in Spends /\ spends'[p].status = status
        /\ \A q \in Spendings \ {p} : spends'[q] = spends[q]
        /\ \A T \in SUBSET Spendings : Total(spends', T) = Total(spends, T)
    BY <2>1, <2>3, MarkFacts
  <2>5. spends[p].status \in {"Queued", "Propagating", "Disputed"}
    BY <2>1, <2>2 DEF Mark, CanTransition, LegalTransitions
  <2>6. Reserved' = Reserved
    BY <2>4, <2>5 DEF Reserved
  <2>7. UnderWay' = UnderWay /\ Landed' = Landed
    BY <2>2, <2>6 DEF UnderWay, Landed
  <2>8. SpendableTypeOK'
    BY <1>0, <2>2, <2>4 DEF SpendableTypeOK, Spends
  <2>9. Total(spends', UnderWay') = Total(spends, UnderWay)
        /\ Total(spends', Landed') = Total(spends, Landed)
    BY <1>0, <2>4, <2>7
  <2> QED
    BY <1>0, <2>2, <2>8, <2>9 DEF SpendableInv, KnowledgeIsReserved, Covered
<1>4. ASSUME NEW p \in Spendings, Fail(p) PROVE SpendableInv'
  <2>1. p \notin taken /\ Mark(p, "Failed") /\ UNCHANGED <<balance, known, taken>>
    BY <1>4 DEF Fail
  <2>2. "Failed" \in Statuses
    BY DEF Statuses
  <2>3. /\ spends' \in Spends /\ spends'[p].status = "Failed"
        /\ \A q \in Spendings \ {p} : spends'[q] = spends[q]
        /\ \A T \in SUBSET Spendings : Total(spends', T) = Total(spends, T)
    BY <2>1, <2>2, MarkFacts
  <2>4. Reserved' = Reserved \ {p}
    BY <2>3 DEF Reserved
  <2>5. UnderWay' \subseteq UnderWay /\ Landed' = Landed
    BY <2>1, <2>4 DEF UnderWay, Landed
  <2>6. SpendableTypeOK'
    BY <1>0, <2>1, <2>3 DEF SpendableTypeOK, Spends
  <2>7. UnderWay' \in SUBSET Spendings
    BY <1>0, <2>5
  <2>8. Total(spends, UnderWay') \in Nat
        /\ Total(spends, UnderWay') <= Total(spends, UnderWay)
    BY <1>0, <2>5, <2>7, TotalsAdd
  <2>9. Total(spends', UnderWay') = Total(spends, UnderWay')
        /\ Total(spends', Landed') = Total(spends, Landed)
    BY <1>0, <2>3, <2>5, <2>7
  <2>10. Covered'
    BY <1>0, <2>1, <2>8, <2>9 DEF Covered
  <2>11. KnowledgeIsReserved'
    BY <1>0, <2>1, <2>9 DEF KnowledgeIsReserved
  <2> QED
    BY <2>6, <2>10, <2>11 DEF SpendableInv
<1>5. ASSUME NEW p \in Spendings, Take(p) PROVE SpendableInv'
  <2>1. /\ spends[p].status \in {"Propagating", "Disputed"} /\ p \notin taken
        /\ spends[p].amount <= balance
        /\ balance' = balance - spends[p].amount
        /\ taken' = taken \cup {p}
        /\ UNCHANGED <<known, spends>>
    BY <1>5 DEF Take
  <2>2. p \in UnderWay /\ p \notin Landed /\ Reserved' = Reserved
    BY <2>1 DEF Reserved, UnderWay, Landed
  <2>3. UnderWay' = UnderWay \ {p} /\ Landed' = Landed \cup {p}
    BY <2>1, <2>2 DEF UnderWay, Landed
  <2> DEFINE rest == UnderWay \ {p}
             a == spends[p].amount
  <2>4. /\ rest \in SUBSET Spendings /\ {p} \in SUBSET Spendings
        /\ rest \cap {p} = {} /\ rest \cup {p} = UnderWay
        /\ Landed \cap {p} = {}
    BY <1>0, <2>2
  <2>5. a \in Nat /\ Total(spends, {p}) = a
    BY <1>0, AmountsAreNumbers, TotalOfOne
  <2>6. UnderWay' = rest
    BY <2>3
  <2> HIDE DEF rest
  <2>7. Total(spends, UnderWay) = Total(spends, rest) + Total(spends, {p})
        /\ Total(spends, rest) \in Nat
    BY <1>0, <2>4, TotalsAdd
  <2>8. Total(spends, Landed \cup {p}) = Total(spends, Landed) + Total(spends, {p})
    BY <1>0, <2>4, TotalsAdd
  <2>9. a <= balance /\ balance' = balance - a
    BY <2>1
  <2>10. spends' = spends /\ known' = known
    BY <2>1
  <2> HIDE DEF a
  <2>11. Covered'
    BY <1>0, <2>5, <2>6, <2>7, <2>9, <2>10 DEF Covered
  <2>12. KnowledgeIsReserved'
    BY <1>0, <2>3, <2>5, <2>8, <2>9, <2>10 DEF KnowledgeIsReserved
  <2>13. balance' \in 0..Largest
    BY <1>0, <2>5, <2>9
  <2>14. SpendableTypeOK'
    BY <1>0, <2>1, <2>13 DEF SpendableTypeOK
  <2> QED
    BY <2>11, <2>12, <2>14 DEF SpendableInv
<1>6. ASSUME NEW p \in Spendings, Settle(p) PROVE SpendableInv'
  <2>1. /\ p \in taken /\ Mark(p, "Settled")
        /\ known' = balance /\ UNCHANGED <<balance, taken>>
    BY <1>6 DEF Settle
  <2>2. "Settled" \in Statuses
    BY DEF Statuses
  <2>3. /\ spends' \in Spends /\ spends'[p].status = "Settled"
        /\ \A q \in Spendings \ {p} : spends'[q] = spends[q]
        /\ \A T \in SUBSET Spendings : Total(spends', T) = Total(spends, T)
    BY <2>1, <2>2, MarkFacts
  <2>4. Reserved' = Reserved \ {p}
    BY <2>3 DEF Reserved
  <2>5. UnderWay' = UnderWay /\ Landed' \subseteq Landed
    BY <2>1, <2>4 DEF UnderWay, Landed
  <2>6. SpendableTypeOK'
    BY <1>0, <2>1, <2>3 DEF SpendableTypeOK, Spends
  <2>7. Landed' \in SUBSET Spendings
    BY <1>0, <2>5
  <2>8. Total(spends', Landed') \in Nat
    BY <2>3, <2>7, TotalsAdd
  <2>9. Total(spends', UnderWay') = Total(spends, UnderWay)
    BY <1>0, <2>3, <2>5
  <2>10. Covered'
    BY <1>0, <2>1, <2>9 DEF Covered
  <2>11. KnowledgeIsReserved'
    BY <1>0, <2>1, <2>8 DEF KnowledgeIsReserved
  <2> QED
    BY <2>6, <2>10, <2>11 DEF SpendableInv
<1>7. CASE Observe
  <2>1. known' = balance /\ balance' = balance /\ spends' = spends /\ taken' = taken
    BY <1>7 DEF Observe
  <2>2. UnderWay' = UnderWay /\ Landed' = Landed
    BY <2>1 DEF UnderWay, Landed, Reserved
  <2>3. SpendableTypeOK'
    BY <1>0, <2>1 DEF SpendableTypeOK
  <2>4. Covered' /\ KnowledgeIsReserved'
    BY <1>0, <2>1, <2>2 DEF Covered, KnowledgeIsReserved
  <2> QED
    BY <2>3, <2>4 DEF SpendableInv
<1>8. CASE UNCHANGED spendableVars
  <2>1. known' = known /\ balance' = balance /\ spends' = spends /\ taken' = taken
    BY <1>8 DEF spendableVars
  <2>2. UnderWay' = UnderWay /\ Landed' = Landed
    BY <2>1 DEF UnderWay, Landed, Reserved
  <2>3. SpendableTypeOK'
    BY <1>0, <2>1 DEF SpendableTypeOK
  <2>4. Covered' /\ KnowledgeIsReserved'
    BY <1>0, <2>1, <2>2 DEF Covered, KnowledgeIsReserved
  <2> QED
    BY <2>3, <2>4 DEF SpendableInv
<1> QED
  BY <1>1, <1>2, <1>3, <1>4, <1>5, <1>6, <1>7, <1>8 DEF SpendableNext

\* A wallet that pays what estimate_spendable leaves, and reads its balance
\* when a payment settles, never double-books its funds.
THEOREM OfflinePaymentsAreCovered == SpendableSpec => []UnderWayIsCovered
<1>1. SpendableInv => UnderWayIsCovered
  BY DEF SpendableInv, Covered, UnderWay, Total, UnderWayIsCovered
<1> QED
  BY <1>1, SpendableInvInit, SpendableInvStep, PTL DEF SpendableSpec

===============================================================================
