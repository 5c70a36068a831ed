------------------------------ MODULE LaneProofs ------------------------------
(***************************************************************************)
(* Theorems about LaneWatch, for every set of lanes: however many epochs,  *)
(* witnesses and reports there are and whatever windows quotes have.       *)
(***************************************************************************)
EXTENDS LaneWatch, TLAPS

-------------------------------------------------------------------------------
(* Types. *)

\* What a lane's constants say of it.
LEMMA LaneFacts ==
  ASSUME NEW l \in Lanes
  PROVE  /\ l.window \in Nat \cup {Null}
         /\ l.reports \subseteq [declared : Nat, floor : Nat]
         /\ l.maxEpochs \in Nat /\ l.maxClock \in Nat
BY LanesAssumption

\* The sets a lane's state is drawn from do not change while the lane does not.
LEMMA SameLaneSameTypes ==
  lane' = lane => /\ Epochs' = Epochs /\ Times' = Times /\ Receipt' = Receipt
                  /\ Payment' = Payment /\ Evidence' = Evidence
BY DEF Epochs, Times, Receipt, Payment, Evidence, Witness

\* What links the receipt to what happened: money was sent in the epoch of a
\* settled payment, and the evidence is what was served.
Books ==
  /\ receipt.snapshot => epoch \in Epochs
  /\ receipt.payment.settled => epoch \in sent
  /\ epoch \in Epochs => receipt.payment.key = Key(epoch)
  /\ receipt.evidence.delivered =>
        /\ [epoch |-> served.epoch, readable |-> receipt.evidence.readable] \in artifacts
        /\ receipt.evidence.key = Key(served.epoch)
        /\ lane.stamped => receipt.evidence.at = served.at /\ served.at \in Times

\* The lane spends only in an epoch whose campaign it holds a snapshot of.
LEMMA EligibleIsOpen == Books /\ State = "eligible_small_test" => epoch \in Epochs
BY DEF Books, State, Decide, NoSend

\* What the predicate calls settled was paid for in this epoch, and its evidence
\* is readable, of this quote and in its time.
LEMMA SettledIsBooked ==
  State = "settled_tx" =>
    /\ receipt.payment.settled
    /\ receipt.evidence.delivered /\ receipt.evidence.readable
    /\ ~Replayed(receipt) /\ ~Expired(receipt)
    /\ ~receipt.contradicted
BY DEF State, Decide, NoSend, Paid, Arrived

\* Types are kept by every step of a lane whose books are in order.
LEMMA LaneTypesStep == TypeOK /\ Books /\ [Next]_vars => TypeOK'
<1> SUFFICES ASSUME TypeOK, Books, [Next]_vars PROVE TypeOK'
  OBVIOUS
<1>0. /\ lane.window \in Nat \cup {Null}
      /\ lane.reports \subseteq [declared : Nat, floor : Nat]
      /\ lane.maxEpochs \in Nat /\ lane.maxClock \in Nat
  BY LaneFacts DEF TypeOK
<1>1. CASE Tick
  BY <1>1, <1>0, SameLaneSameTypes DEF Tick, TypeOK, Times
<1>2. CASE Quote
  <2>1. epoch' \in Epochs
    BY <1>2, <1>0 DEF Quote, TypeOK, Epochs
  <2>2. [NoPayment EXCEPT !.key = Key(epoch + 1)] \in Payment
    BY <1>2, <2>1 DEF Quote, NoPayment, Payment, Key
  <2>3. (IF lane.window = Null THEN Null ELSE clock + lane.window) \in Nat \cup {Null}
    BY <1>0 DEF TypeOK, Times
  <2>4. receipt' \in Receipt
    BY <1>2, <2>2, <2>3 DEF Quote, TypeOK, Receipt
  <2> QED
    BY <1>2, <2>1, <2>4, SameLaneSameTypes DEF Quote, TypeOK, Epochs
<1>3. CASE Link
  <2>1. receipt' \in Receipt
    BY <1>3 DEF Link, TypeOK, Receipt
  <2> QED
    BY <1>3, <2>1, SameLaneSameTypes DEF Link, TypeOK
<1>4. ASSUME NEW w \in lane.witnesses, NEW r \in lane.reports, Report(w, r)
      PROVE  TypeOK'
  <2>1. [id |-> w, declared |-> r.declared, floor |-> r.floor] \in Witness
    BY <1>0 DEF Witness
  <2>2. receipt' \in Receipt
    BY <1>4, <2>1 DEF Report, TypeOK, Receipt
  <2> QED
    BY <1>4, <2>2, SameLaneSameTypes DEF Report, TypeOK
<1>5. ASSUME NEW e \in sent, NEW readable \in BOOLEAN, Deliver(e, readable)
      PROVE  TypeOK'
  BY <1>5, SameLaneSameTypes DEF Deliver, TypeOK
<1>6. ASSUME NEW a \in artifacts, Fetch(a) PROVE TypeOK'
  <2>1. a \in [epoch : Epochs, readable : BOOLEAN]
    BY DEF TypeOK
  <2>2. [delivered |-> TRUE, readable |-> a.readable, key |-> Key(a.epoch),
         at |-> IF lane.stamped THEN clock ELSE Null] \in Evidence
    BY <2>1 DEF Evidence, Key, TypeOK
  <2>3. receipt' \in Receipt
    BY <1>6, <2>2 DEF Fetch, TypeOK, Receipt
  <2>4. served' \in [epoch : Epochs \cup {Null}, at : Times \cup {Null}]
    BY <1>6, <2>1 DEF Fetch, TypeOK
  <2> QED
    BY <1>6, <2>3, <2>4, SameLaneSameTypes DEF Fetch, TypeOK
<1>7. CASE FetchNothing
  <2>1. NoEvidence \in Evidence
    BY DEF NoEvidence, Evidence
  <2>2. receipt' \in Receipt
    BY <1>7, <2>1 DEF FetchNothing, TypeOK, Receipt
  <2>3. Nothing \in [epoch : Epochs \cup {Null}, at : Times \cup {Null}]
    BY DEF Nothing
  <2> QED
    BY <1>7, <2>2, <2>3, SameLaneSameTypes DEF FetchNothing, TypeOK
<1>8. CASE Contradict
  <2>1. receipt' \in Receipt
    BY <1>8 DEF Contradict, TypeOK, Receipt
  <2> QED
    BY <1>8, <2>1, SameLaneSameTypes DEF Contradict, TypeOK
<1>9. CASE Send
  <2>1. epoch \in Epochs
    BY <1>9, EligibleIsOpen DEF Send
  <2> QED
    BY <1>9, <2>1, SameLaneSameTypes DEF Send, TypeOK
<1>10. ASSUME NEW tx \in {epoch, Null}, Confirm(tx) PROVE TypeOK'
  <2>1. tx \in Epochs \cup {Null}
    BY <1>10 DEF Confirm, TypeOK
  <2>2. [receipt.payment EXCEPT !.settled = TRUE, !.tx = tx] \in Payment
    BY <2>1 DEF TypeOK, Receipt, Payment
  <2>3. receipt' \in Receipt
    BY <1>10, <2>2 DEF Confirm, TypeOK, Receipt
  <2> QED
    BY <1>10, <2>3, SameLaneSameTypes DEF Confirm, TypeOK
<1>11. CASE Account
  <2>1. epoch \in Epochs
    BY <1>11, SettledIsBooked DEF Account, Books, TypeOK
  <2>2. [epoch |-> epoch, by |-> served.epoch, at |-> served.at,
         until |-> receipt.validUntil]
          \in [epoch : Epochs, by : Epochs \cup {Null}, at : Times \cup {Null},
               until : Nat \cup {Null}]
    BY <2>1 DEF TypeOK, Receipt
  <2> QED
    BY <1>11, <2>2, SameLaneSameTypes DEF Account, TypeOK
<1>12. CASE UNCHANGED vars
  BY <1>12, SameLaneSameTypes DEF vars, TypeOK
<1> QED
  BY <1>1, <1>2, <1>3, <1>4, <1>5, <1>6, <1>7, <1>8, <1>9, <1>10, <1>11, <1>12 DEF Next

-------------------------------------------------------------------------------
(* The books. *)

\* Every step keeps them.
LEMMA BooksStep == TypeOK /\ Books /\ [Next]_vars => Books'
<1> SUFFICES ASSUME TypeOK, Books, [Next]_vars PROVE Books'
  OBVIOUS
<1>0. lane' = lane /\ Epochs' = Epochs /\ Times' = Times
  BY SameLaneSameTypes
  DEF Next, vars, Tick, Quote, Link, Report, Deliver, Fetch, FetchNothing, Contradict,
      Send, Confirm, Account
<1>1. CASE Tick
  BY <1>1, <1>0 DEF Tick, Books, Key
<1>2. CASE Quote
  <2>1. epoch' \in Epochs
    BY <1>2, LaneFacts DEF Quote, TypeOK, Epochs
  <2>2. /\ receipt'.payment = [settled |-> FALSE, tx |-> Null, key |-> Key(epoch')]
        /\ receipt'.evidence = receipt.evidence
    BY <1>2 DEF Quote, NoPayment, TypeOK, Receipt
  <2> QED
    BY <1>2, <1>0, <2>1, <2>2 DEF Quote, Books, Key
<1>3. CASE Link
  <2>1. /\ receipt'.payment = receipt.payment /\ receipt'.evidence = receipt.evidence
        /\ receipt'.snapshot = receipt.snapshot
    BY <1>3 DEF Link, TypeOK, Receipt
  <2> QED
    BY <1>3, <1>0, <2>1 DEF Link, Books, Key
<1>4. ASSUME NEW w \in lane.witnesses, NEW r \in lane.reports, Report(w, r)
      PROVE  Books'
  <2>1. /\ receipt'.payment = receipt.payment /\ receipt'.evidence = receipt.evidence
        /\ receipt'.snapshot = receipt.snapshot
    BY <1>4 DEF Report, TypeOK, Receipt
  <2> QED
    BY <1>4, <1>0, <2>1 DEF Report, Books, Key
<1>5. ASSUME NEW e \in sent, NEW readable \in BOOLEAN, Deliver(e, readable)
      PROVE  Books'
  BY <1>5, <1>0 DEF Deliver, Books, Key
<1>6. ASSUME NEW a \in artifacts, Fetch(a) PROVE Books'
  <2>1. /\ receipt'.payment = receipt.payment /\ receipt'.snapshot = receipt.snapshot
        /\ receipt'.evidence = [delivered |-> TRUE, readable |-> a.readable,
                key |-> Key(a.epoch), at |-> IF lane.stamped THEN clock ELSE Null]
    BY <1>6 DEF Fetch, TypeOK, Receipt
  <2>2. served' = [epoch |-> a.epoch, at |-> clock] /\ clock \in Times
    BY <1>6 DEF Fetch, TypeOK
  <2>3. a = [epoch |-> a.epoch, readable |-> a.readable]
    BY DEF TypeOK
  <2> QED
    BY <1>6, <1>0, <2>1, <2>2, <2>3 DEF Fetch, Books, Key
<1>7. CASE FetchNothing
  <2>1. /\ receipt'.payment = receipt.payment /\ receipt'.snapshot = receipt.snapshot
        /\ ~receipt'.evidence.delivered
    BY <1>7 DEF FetchNothing, NoEvidence, TypeOK, Receipt
  <2> QED
    BY <1>7, <1>0, <2>1 DEF FetchNothing, Books, Key
<1>8. CASE Contradict
  <2>1. /\ receipt'.payment = receipt.payment /\ receipt'.evidence = receipt.evidence
        /\ receipt'.snapshot = receipt.snapshot
    BY <1>8 DEF Contradict, TypeOK, Receipt
  <2> QED
    BY <1>8, <1>0, <2>1 DEF Contradict, Books, Key
<1>9. CASE Send
  BY <1>9, <1>0 DEF Send, Books, Key
<1>10. ASSUME NEW tx \in {epoch, Null}, Confirm(tx) PROVE Books'
  <2>1. /\ receipt'.payment.key = receipt.payment.key
        /\ receipt'.evidence = receipt.evidence /\ receipt'.snapshot = receipt.snapshot
    BY <1>10 DEF Confirm, TypeOK, Receipt, Payment
  <2> QED
    BY <1>10, <1>0, <2>1 DEF Confirm, Books, Key
<1>11. CASE Account
  BY <1>11, <1>0 DEF Account, Books, Key
<1>12. CASE UNCHANGED vars
  BY <1>12, <1>0 DEF vars, Books, Key
<1> QED
  BY <1>1, <1>2, <1>3, <1>4, <1>5, <1>6, <1>7, <1>8, <1>9, <1>10, <1>11, <1>12 DEF Next

\* A lane opens with its books in order.
LEMMA LaneOpens == Init => TypeOK /\ Books /\ OneDeliveryOneEpoch
<1> SUFFICES ASSUME Init PROVE TypeOK /\ Books /\ OneDeliveryOneEpoch
  OBVIOUS
<1>1. receipt \in Receipt
  BY DEF Init, Receipt, Payment, Evidence, NoPayment, NoEvidence
<1>2. TypeOK
  BY <1>1, LaneFacts DEF Init, TypeOK, Nothing, Times
<1>3. epoch \notin Epochs
  BY LaneFacts DEF Init, Epochs
<1>4. Books /\ OneDeliveryOneEpoch
  BY <1>3 DEF Init, Books, OneDeliveryOneEpoch, NoPayment, NoEvidence
<1> QED
  BY <1>2, <1>4

(* Type correctness of the donation lane: every reachable receipt is one   *)
(* the predicate is defined on.                                            *)
THEOREM LaneTypes == Spec => []TypeOK
<1>1. Init => TypeOK /\ Books
  BY LaneOpens
<1>2. TypeOK /\ Books /\ [Next]_vars => (TypeOK /\ Books)'
  BY LaneTypesStep, BooksStep
<1> QED
  BY <1>1, <1>2, PTL DEF Spec

-------------------------------------------------------------------------------
(* Safety. *)

\* A step that files an account files one backed by a delivery.
LEMMA OneDeliveryStep ==
  TypeOK /\ Books /\ OneDeliveryOneEpoch /\ [Next]_vars => OneDeliveryOneEpoch'
<1> SUFFICES ASSUME TypeOK, Books, OneDeliveryOneEpoch, [Next]_vars
             PROVE  OneDeliveryOneEpoch'
  OBVIOUS
<1>1. lane' = lane
  BY DEF Next, vars, Tick, Quote, Link, Report, Deliver, Fetch, FetchNothing, Contradict,
      Send, Confirm, Account
<1>2. sent \subseteq sent' /\ artifacts \subseteq artifacts'
  BY DEF Next, vars, Tick, Quote, Link, Report, Deliver, Fetch, FetchNothing, Contradict,
      Send, Confirm, Account
<1>3. CASE accounts' = accounts
  BY <1>1, <1>2, <1>3 DEF OneDeliveryOneEpoch
<1>4. CASE Account
  <2> DEFINE new == [epoch |-> epoch, by |-> served.epoch, at |-> served.at,
                     until |-> receipt.validUntil]
  <2>1. /\ receipt.payment.settled /\ receipt.evidence.delivered
        /\ receipt.evidence.readable /\ ~Replayed(receipt) /\ ~Expired(receipt)
    BY <1>4, SettledIsBooked DEF Account
  <2>2. epoch \in sent /\ epoch \in Epochs /\ receipt.payment.key = Key(epoch)
    BY <2>1 DEF Books, TypeOK
  <2>3. /\ [epoch |-> served.epoch, readable |-> TRUE] \in artifacts
        /\ receipt.evidence.key = Key(served.epoch)
    BY <2>1 DEF Books, TypeOK, Receipt, Evidence
  <2>4. lane.keyed => served.epoch = epoch
    <3>1. epoch # Null
      BY <2>2, LanesAssumption, LaneFacts DEF TypeOK, Epochs
    <3> QED
      BY <2>1, <2>2, <2>3, <3>1 DEF Replayed, Key
  <2>5. (lane.stamped /\ receipt.validUntil # Null) => served.at <= receipt.validUntil
    <3>1. ASSUME lane.stamped, receipt.validUntil # Null
          PROVE  served.at <= receipt.validUntil
      <4>1. receipt.evidence.at = served.at /\ served.at \in Times
        BY <2>1, <3>1 DEF Books
      <4>2. served.at \in Nat /\ receipt.validUntil \in Nat /\ served.at # Null
        BY <3>1, <4>1, LanesAssumption, LaneFacts DEF TypeOK, Times, Receipt
      <4>3. ~(served.at > receipt.validUntil)
        BY <2>1, <3>1, <4>1, <4>2 DEF Expired
      <4> QED
        BY <4>2, <4>3
    <3> QED
      BY <3>1
  <2>6. accounts' = accounts \cup {new}
    BY <1>4 DEF Account
  <2>7. ASSUME NEW a \in accounts'
        PROVE  /\ a.epoch \in sent'
               /\ lane'.keyed =>
                    a.by = a.epoch /\ [epoch |-> a.by, readable |-> TRUE] \in artifacts'
               /\ (lane'.stamped /\ a.until # Null) => a.at <= a.until
    <3>1. CASE a \in accounts
      BY <3>1, <1>1, <1>2 DEF OneDeliveryOneEpoch
    <3>2. CASE a = new
      BY <3>2, <1>1, <1>2, <2>2, <2>3, <2>4, <2>5
    <3> QED
      BY <2>6, <3>1, <3>2
  <2> QED
    BY <2>7 DEF OneDeliveryOneEpoch
<1>5. accounts' = accounts \/ Account
  BY DEF Next, vars, Tick, Quote, Link, Report, Deliver, Fetch, FetchNothing, Contradict,
      Send, Confirm
<1> QED
  BY <1>3, <1>4, <1>5

(* What is filed as settled was paid for in its epoch and, under keyed     *)
(* quotes, rests on a readable delivery made for that epoch, fetched in    *)
(* the time of its quote: over any number of epochs and replays.           *)
THEOREM LaneOneDelivery == Spec => []OneDeliveryOneEpoch
<1>1. Init => TypeOK /\ Books /\ OneDeliveryOneEpoch
  BY LaneOpens
<1>2. TypeOK /\ Books /\ OneDeliveryOneEpoch /\ [Next]_vars
        => (TypeOK /\ Books /\ OneDeliveryOneEpoch)'
  BY LaneTypesStep, BooksStep, OneDeliveryStep
<1> QED
  BY <1>1, <1>2, PTL DEF Spec

(* A gap that any witness reports, and a contradiction, keep the money in: *)
(* whatever the number of witnesses and whatever the others report.        *)
THEOREM LaneOppositionHolds == Spec => OppositionHolds
<1>1. [Next]_vars => [ /\ Opposed => UNCHANGED sent
                       /\ receipt.contradicted => UNCHANGED <<sent, accounts>>
                       /\ accounts \subseteq accounts' ]_vars
  <2> SUFFICES ASSUME [Next]_vars
               PROVE  /\ Opposed => UNCHANGED sent
                      /\ receipt.contradicted => UNCHANGED <<sent, accounts>>
                      /\ accounts \subseteq accounts'
    OBVIOUS
  <2>1. sent' = sent \/ Send
    BY DEF Next, vars, Tick, Quote, Link, Report, Deliver, Fetch, FetchNothing, Contradict,
        Confirm, Account
  <2>2. accounts' = accounts \/ Account
    BY DEF Next, vars, Tick, Quote, Link, Report, Deliver, Fetch, FetchNothing, Contradict,
        Send, Confirm
  <2>3. Send => ~Opposed /\ ~receipt.contradicted
    BY DEF Send, State, Decide, NoSend, Alert, Gapped, Opposed
  <2>4. Account => ~receipt.contradicted /\ accounts \subseteq accounts'
    BY SettledIsBooked DEF Account
  <2> QED
    BY <2>1, <2>2, <2>3, <2>4
<1> QED
  BY <1>1, PTL DEF Spec, OppositionHolds
===============================================================================
