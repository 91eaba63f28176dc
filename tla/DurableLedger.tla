--------------------------- MODULE DurableLedger ---------------------------
(***************************************************************************)
(* What the engine promises a wallet about its payments, with no crash, no *)
(* cache and no call in progress to be seen: an envelope is admitted into  *)
(* a sequence slot nobody else holds, its status only makes legal moves,   *)
(* and it is handed to the mesh at most once, when its status says so.     *)
(* SyncEngine is shown to implement this (see MCSyncEngine).               *)
(***************************************************************************)
EXTENDS Settlement

CONSTANTS Envelopes,          \* every envelope the wallet may ever sign
          SlotOf              \* its source account and sequence number

VARIABLES status,             \* durable status of every envelope
          handedOver          \* the envelopes the mesh was given

vars == <<status, handedOver>>

TypeOK == /\ status \in [Envelopes -> Statuses \cup {NoStatus}]
          /\ handedOver \subseteq Envelopes

Init == /\ status = [e \in Envelopes |-> NoStatus]
        /\ handedOver = {}

Admit(e) ==
    /\ \A f \in Envelopes : SlotOf[f] = SlotOf[e] => status[f] = NoStatus
    /\ status' = [status EXCEPT ![e] = "Queued"]
    /\ UNCHANGED handedOver

Advance(e) ==
    \E s \in Statuses :
        /\ CanTransition(status[e], s)
        /\ status' = [status EXCEPT ![e] = s]
        /\ UNCHANGED handedOver

HandOver(e) ==
    /\ status[e] = "Propagating"
    /\ e \notin handedOver
    /\ handedOver' = handedOver \cup {e}
    /\ UNCHANGED status

Next == \E e \in Envelopes : Admit(e) \/ Advance(e) \/ HandOver(e)

Spec == Init /\ [][Next]_vars
=============================================================================
