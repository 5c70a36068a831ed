----------------------------- MODULE MCLaneWatch -----------------------------
(* Instances of LaneWatch for TLC. *)
EXTENDS LaneWatch

CONSTANTS w1, w2        \* witnesses

Reports == {[declared |-> 2, floor |-> 2], [declared |-> 2, floor |-> 1]}

\* Two witnesses, and a quote that runs out.
Bound == [keyed |-> TRUE, stamped |-> TRUE, window |-> 1, witnesses |-> {w1, w2},
          reports |-> Reports, maxEpochs |-> 2, maxClock |-> 2]

\* Nothing but the key binds a delivery to its epoch.
KeyedOnly == [Bound EXCEPT !.stamped = FALSE, !.window = Null, !.maxClock = 0]

\* Nothing but time does.
StampedOnly == [Bound EXCEPT !.keyed = FALSE, !.witnesses = {w1}]

AllLanes == {Bound, KeyedOnly, StampedOnly}
===============================================================================
