---------------------------- MODULE MCStandingRead ----------------------------
(* Instances of StandingRead for TLC. *)
EXTENDS StandingRead, TLC

CONSTANTS
    r1, r2,     \* recorders
    p0, p1, p2  \* payload hashes

\* One recorder for both legs: the contest feed is the one fetched first.
Issuer == [recorder |-> r1, withholds |-> FALSE, payloads |-> {p0}, maxContests |-> 2,
           maxCheckpoints |-> 3, maxClock |-> 2]

\* A contest recorder of its own, which may leave contests out or spoil them.
Withholding == [recorder |-> r2, withholds |-> TRUE, payloads |-> {p1, p2},
                maxContests |-> 2, maxCheckpoints |-> 2, maxClock |-> 0]

IssuerOrWithholding == {Issuer, Withholding}

PayloadSymmetry == Permutations({p1, p2})

\* A contest recorder of its own that hides nothing.
Separate == {[recorder |-> r2, withholds |-> FALSE, payloads |-> {p0},
              maxContests |-> 1, maxCheckpoints |-> 2, maxClock |-> 1]}
===============================================================================
