----------------------------- MODULE DonationLane -----------------------------
(***************************************************************************)
(* The spend predicate of the donation lane (tools/donation_lane.py,       *)
(* §18h).  A receipt is a record                                           *)
(*     [payment, evidence, witnesses, validUntil, snapshot, linked,        *)
(*      contradicted]                                                      *)
(* payment a [settled, tx, key], evidence a [delivered, readable, key, at] *)
(* (delivery_hash present, readability "ok", the idempotency key it names, *)
(* when it was fetched), witnesses a set of [id, declared, floor], the     *)
(* independence of a quorum as declared and as observed.                   *)
(***************************************************************************)
EXTENDS Naturals

CONSTANT Null       \* a field that is absent

Paid(receipt) == receipt.payment.settled /\ receipt.payment.tx # Null

Arrived(receipt) == receipt.evidence.delivered /\ receipt.evidence.readable

\* Mutant: only an artifact that names no quote is refused.
Replayed_Unnamed(receipt) ==
    receipt.payment.key # Null /\ receipt.evidence.key = Null
\* Evidence bound to another quote; a quote without a key binds none.
Replayed(receipt) ==
    receipt.payment.key # Null /\ receipt.evidence.key # receipt.payment.key

Expired(receipt) ==
    /\ receipt.validUntil # Null /\ receipt.evidence.at # Null
    /\ receipt.evidence.at > receipt.validUntil

\* Mutant: one witness without a gap speaks for all.
Gapped_Every(receipt) ==
    receipt.witnesses # {} /\ \A w \in receipt.witnesses : w.declared > w.floor
Gapped(receipt) == \E w \in receipt.witnesses : w.declared > w.floor

Alert(receipt) ==
    IF receipt.witnesses = {} THEN "no_witness"
    ELSE IF Gapped(receipt) THEN "persistent_gap" ELSE "none"

NoSend == [state |-> "no_send", alert |-> "none"]

\* The gates in their order.  A paid receipt that nothing readable answers pages
\* as persistent_gap whenever there are witnesses, gapped or not.
Decide(receipt) ==
    IF receipt.contradicted THEN NoSend
    ELSE IF Paid(receipt) /\ ~Arrived(receipt)
    THEN [state |-> "paid_unreadable",
          alert |-> IF receipt.witnesses = {} THEN "no_witness" ELSE "persistent_gap"]
    ELSE IF receipt.evidence.delivered /\ (Replayed(receipt) \/ Expired(receipt))
    THEN NoSend
    ELSE [state |->
            IF Paid(receipt) THEN "settled_tx"
            ELSE IF Alert(receipt) # "none" THEN "monitor"
            ELSE IF receipt.snapshot /\ receipt.linked THEN "eligible_small_test"
            ELSE "no_send",
          alert |-> Alert(receipt)]
===============================================================================
