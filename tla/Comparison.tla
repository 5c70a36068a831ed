------------------------------ MODULE Comparison ------------------------------
(***************************************************************************)
(* When arms may be ranked, and on what (tools/comparison.py, §18j).       *)
(* Arms are a function from their ids to [committed, results]; a result is *)
(*     [probe, settled, signed, refuted]                                   *)
(***************************************************************************)
EXTENDS Naturals, FiniteSets

SettledProbes(arm) == {r.probe : r \in {x \in arm.results : x.settled /\ x.signed}}

\* An arm that never committed to the battery is not lowered but left out.
Rankable(arms) == {a \in DOMAIN arms : arms[a].committed}

\* Mutant: a probe that some arm answered is drawn for all.
CommonDraw_Any(arms) == UNION {SettledProbes(arms[a]) : a \in Rankable(arms)}
CommonDraw(arms) ==
    {p \in UNION {SettledProbes(arms[a]) : a \in Rankable(arms)} :
        \A a \in Rankable(arms) : p \in SettledProbes(arms[a])}

ComparisonState(arms) ==
    IF Cardinality(Rankable(arms)) >= 2 /\ CommonDraw(arms) # {}
    THEN "ranked" ELSE "incomparable"

\* A refuted row on a common probe counts whether or not it is itself signed.
RefutedOnCommon(arms, a) ==
    {r.probe : r \in {x \in arms[a].results : x.refuted /\ x.probe \in CommonDraw(arms)}}

\* The ranking orders arms by this number; refused, it ranks none.
Ranked(arms) ==
    [a \in {x \in Rankable(arms) : ComparisonState(arms) = "ranked"} |->
        Cardinality(RefutedOnCommon(arms, a))]
===============================================================================
