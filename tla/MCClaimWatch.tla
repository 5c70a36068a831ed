----------------------------- MODULE MCClaimWatch -----------------------------
(* Instances of ClaimWatch for TLC. *)
EXTENDS ClaimWatch

CONSTANTS h1, k1,           \* an honest and another key
          p1, p2, junk,     \* probes, the last one unsettleable
          yes, no,          \* answers
          a1, a2            \* arms

MCTruth(p) == IF p = p1 THEN yes ELSE no

\* Round 2 draws another probe than round 1, and a longer battery others.
MCDigest(round, head) == 3 * round + Len(head)

Idle == [offers |-> {p1, p2}, count |-> 2, arms |-> {}, rounds |-> 2, maxEntries |-> 0,
         maxAnswers |-> 0, maxSurvival |-> 0, maxFilings |-> 0, maxRows |-> 0]

\* Answers to a battery that grows under them.
Answering == [Idle EXCEPT !.offers = {p1, p2, junk}, !.maxEntries = 3, !.maxAnswers = 2]

\* Survival entered for claims that declare the count of the battery, or less.
Covering == {[Idle EXCEPT !.maxEntries = 2, !.maxAnswers = 2, !.maxSurvival = 2, !.count = n] :
                n \in {1, 2}}

\* Reports and forks filed against a claim with a survival.
Attacked == [Idle EXCEPT !.rounds = 1, !.maxEntries = 2, !.maxAnswers = 2, !.maxSurvival = 1,
                         !.maxFilings = 1]

\* Two arms, two probes, up to two rows each.
Compared == [Idle EXCEPT !.arms = {a1, a2}, !.maxRows = 2]

AllSituations == {Answering, Attacked, Compared} \cup Covering
OnlyCompared == {Compared}
===============================================================================
