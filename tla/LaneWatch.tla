------------------------------ MODULE LaneWatch ------------------------------
(***************************************************************************)
(* A donation lane over its spend epochs.  Each epoch opens with a quote;  *)
(* the lane spends when the predicate of DonationLane lets it, the payment *)
(* is confirmed later, the recipient delivers for what was paid, or not,   *)
(* and whoever is asked for the delivery serves any artifact there is.     *)
(* Witnesses report on the quorum behind the campaign and revise what they *)
(* reported, reviews come in after the money left, and what the predicate  *)
(* calls settled is filed as an account.                                   *)
(***************************************************************************)
EXTENDS DonationLane, FiniteSets

(***************************************************************************)
(* The lanes considered, one of which holds throughout a behaviour: keyed  *)
(* (quotes carry an idempotency key), stamped (fetches carry their time),  *)
(* window (how long a quote is valid, or Null), witnesses (ids), reports   *)
(* (what a witness may report, as [declared, floor]), and two bounds:      *)
(* maxEpochs and maxClock.                                                 *)
(***************************************************************************)
CONSTANT Lanes

ASSUME LanesAssumption ==
    /\ Null \notin Nat
    /\ \A l \in Lanes :
        /\ {l.keyed, l.stamped} \subseteq BOOLEAN
        /\ l.window \in Nat \cup {Null}
        /\ l.reports \subseteq [declared : Nat, floor : Nat]
        /\ l.maxEpochs \in Nat /\ l.maxClock \in Nat

VARIABLES
    lane,       \* the lane considered
    clock,
    epoch,      \* the spend epoch, counted by quotes; 0 before the first
    receipt,    \* the receipt of the epoch
    sent,       \* the epochs the lane sent money in
    artifacts,  \* what the recipient delivered, by epoch
    served,     \* the epoch and time of the artifact in the receipt's evidence
    accounts    \* the epochs filed as settled, with what was served then

vars == <<lane, clock, epoch, receipt, sent, artifacts, served, accounts>>

Epochs == 1 .. lane.maxEpochs
Times == 0 .. lane.maxClock

\* The key of an epoch's quote, which its artifacts name.
Key(e) == IF lane.keyed THEN e ELSE Null

NoPayment == [settled |-> FALSE, tx |-> Null, key |-> Null]
NoEvidence == [delivered |-> FALSE, readable |-> FALSE, key |-> Null, at |-> Null]
Nothing == [epoch |-> Null, at |-> Null]

Payment == [settled : BOOLEAN, tx : Epochs \cup {Null}, key : Epochs \cup {Null}]
Evidence == [delivered : BOOLEAN, readable : BOOLEAN, key : Epochs \cup {Null},
             at : Times \cup {Null}]
Witness == [id : lane.witnesses, declared : Nat, floor : Nat]
Receipt == [payment : Payment, evidence : Evidence, witnesses : SUBSET Witness,
            validUntil : Nat \cup {Null}, snapshot : BOOLEAN, linked : BOOLEAN,
            contradicted : BOOLEAN]

TypeOK ==
    /\ lane \in Lanes
    /\ clock \in Times /\ epoch \in 0 .. lane.maxEpochs
    /\ receipt \in Receipt
    /\ sent \subseteq Epochs
    /\ artifacts \subseteq [epoch : Epochs, readable : BOOLEAN]
    /\ served \in [epoch : Epochs \cup {Null}, at : Times \cup {Null}]
    /\ accounts \subseteq [epoch : Epochs, by : Epochs \cup {Null},
                           at : Times \cup {Null}, until : Nat \cup {Null}]

Init ==
    /\ lane \in Lanes
    /\ clock = 0 /\ epoch = 0
    /\ receipt = [payment |-> NoPayment, evidence |-> NoEvidence, witnesses |-> {},
                  validUntil |-> Null, snapshot |-> FALSE, linked |-> FALSE,
                  contradicted |-> FALSE]
    /\ sent = {} /\ artifacts = {} /\ served = Nothing /\ accounts = {}

-------------------------------------------------------------------------------
(* Around the lane. *)

Tick ==
    /\ clock < lane.maxClock
    /\ clock' = clock + 1
    /\ UNCHANGED <<lane, epoch, receipt, sent, artifacts, served, accounts>>

\* A new epoch: a fresh quote and campaign snapshot; evidence, witnesses and
\* reviews stay on the receipt until somebody brings others.
Quote ==
    /\ epoch < lane.maxEpochs
    /\ epoch' = epoch + 1
    /\ receipt' = [receipt EXCEPT
            !.payment = [NoPayment EXCEPT !.key = Key(epoch + 1)],
            !.validUntil = IF lane.window = Null THEN Null ELSE clock + lane.window,
            !.snapshot = TRUE]
    /\ UNCHANGED <<lane, clock, sent, artifacts, served, accounts>>

Link ==
    /\ receipt' = [receipt EXCEPT !.linked = ~@]
    /\ UNCHANGED <<lane, clock, epoch, sent, artifacts, served, accounts>>

\* A witness reports, or revises its report.
Report(w, r) ==
    /\ receipt' = [receipt EXCEPT !.witnesses =
            {x \in @ : x.id # w} \cup {[id |-> w, declared |-> r.declared, floor |-> r.floor]}]
    /\ UNCHANGED <<lane, clock, epoch, sent, artifacts, served, accounts>>

Deliver(e, readable) ==
    /\ artifacts' = artifacts \cup {[epoch |-> e, readable |-> readable]}
    /\ UNCHANGED <<lane, clock, epoch, receipt, sent, served, accounts>>

\* The delivery is asked for, and any artifact comes back.
Fetch(a) ==
    /\ receipt' = [receipt EXCEPT !.evidence =
            [delivered |-> TRUE, readable |-> a.readable, key |-> Key(a.epoch),
             at |-> IF lane.stamped THEN clock ELSE Null]]
    /\ served' = [epoch |-> a.epoch, at |-> clock]
    /\ UNCHANGED <<lane, clock, epoch, sent, artifacts, accounts>>

\* Or none does.
FetchNothing ==
    /\ receipt' = [receipt EXCEPT !.evidence = NoEvidence]
    /\ served' = Nothing
    /\ UNCHANGED <<lane, clock, epoch, sent, artifacts, accounts>>

\* A review after the money left.
Contradict ==
    /\ sent # {}
    /\ receipt' = [receipt EXCEPT !.contradicted = TRUE]
    /\ UNCHANGED <<lane, clock, epoch, sent, artifacts, served, accounts>>

-------------------------------------------------------------------------------
(* The lane. *)

State == Decide(receipt).state

Send ==
    /\ State = "eligible_small_test"
    /\ sent' = sent \cup {epoch}
    /\ UNCHANGED <<lane, clock, epoch, receipt, artifacts, served, accounts>>

\* The transfer is reported settled, its hash with it or only later.
Confirm(tx) ==
    /\ epoch \in sent
    /\ receipt' = [receipt EXCEPT !.payment.settled = TRUE, !.payment.tx = tx]
    /\ UNCHANGED <<lane, clock, epoch, sent, artifacts, served, accounts>>

Account ==
    /\ State = "settled_tx"
    /\ accounts' = accounts \cup {[epoch |-> epoch, by |-> served.epoch, at |-> served.at,
                                   until |-> receipt.validUntil]}
    /\ UNCHANGED <<lane, clock, epoch, receipt, sent, artifacts, served>>

Next ==
    \/ Tick
    \/ Quote
    \/ Link
    \/ \E w \in lane.witnesses, r \in lane.reports : Report(w, r)
    \/ \E e \in sent, readable \in BOOLEAN : Deliver(e, readable)
    \/ \E a \in artifacts : Fetch(a)
    \/ FetchNothing
    \/ Contradict
    \/ Send
    \/ \E tx \in {epoch, Null} : Confirm(tx)
    \/ Account

Spec == Init /\ [][Next]_vars

-------------------------------------------------------------------------------
(* Properties. *)

(* The replay wrinkle (donation_lane.py:26): over all epochs of a lane     *)
(* whose quotes carry keys, no delivery settles two of them: what is filed *)
(* as settled was paid for in that epoch, delivered readable for it, and,  *)
(* when fetches are stamped, fetched before its quote ran out, however old *)
(* artifacts are served again.                                             *)
OneDeliveryOneEpoch ==
    \A a \in accounts :
        /\ a.epoch \in sent
        /\ lane.keyed =>
            a.by = a.epoch /\ [epoch |-> a.by, readable |-> TRUE] \in artifacts
        /\ (lane.stamped /\ a.until # Null) => a.at <= a.until

\* Some witness holds that the quorum is fewer than it declares.
Opposed == \E w \in receipt.witnesses : w.declared > w.floor

(* "It can never promote" (§18h): while a witness reports a gap no money   *)
(* leaves, whoever else reports what; and from a contradiction on none     *)
(* leaves again and nothing more is filed as settled, in any later epoch,  *)
(* while what was filed stays.                                             *)
OppositionHolds ==
    [][ /\ Opposed => UNCHANGED sent
        /\ receipt.contradicted => UNCHANGED <<sent, accounts>>
        /\ accounts \subseteq accounts' ]_vars
===============================================================================
