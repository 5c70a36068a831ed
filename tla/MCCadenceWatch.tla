---------------------------- MODULE MCCadenceWatch ----------------------------
(* Instances of CadenceWatch for TLC. *)
EXTENDS CadenceWatch

Promise(step, from, until) ==
    [sig |-> TRUE, step |-> step, from |-> from, until |-> until]

\* A promise for each round, one for every other round, one without an end,
\* one that has not started, one whose signature fails, one with no step, none.
SomePromises ==
    {Promise(1, 0, 2), Promise(2, 1, 3), Promise(1, 1, Null), Promise(2, 0, 3),
     [Promise(1, 0, 2) EXCEPT !.sig = FALSE], Promise(0, 0, 2), Null}

\* A relay that only loses, delays and reorders.
Lossy == [promises |-> SomePromises, offCadence |-> FALSE, hostile |-> FALSE,
          maxRound |-> 5, maxFiled |-> 6]

\* One that also relabels and forges, and a party that speaks more often than
\* it promised: a promise for every other round.
Hostile == [promises |-> {Promise(2, 0, 3)},
            offCadence |-> TRUE, hostile |-> TRUE, maxRound |-> 2, maxFiled |-> 3]

LossyOrHostile == {Lossy, Hostile}
===============================================================================
