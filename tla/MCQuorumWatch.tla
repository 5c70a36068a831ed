---------------------------- MODULE MCQuorumWatch ----------------------------
(* Instances of QuorumWatch for TLC. *)
EXTENDS QuorumWatch, TLC

CONSTANTS k1, k2, k3,       \* keys
          x, y, z           \* origins

Bare == [candidates |-> {}, origins |-> {x, y, z}, evidence |-> Null, manifest |-> Null,
         domain |-> [k \in {k1} |-> "d1"], merges |-> {}, window |-> Null, minEpochs |-> 2,
         maxSeats |-> 0, maxEpochs |-> 0, maxCaptures |-> 0, maxSigned |-> 0]

Seat(k, origins, grade) == [key |-> k, origins |-> origins, grade |-> grade]

\* Four seats with any origins of three, in any order.
Roster == [Bare EXCEPT !.maxSeats = 4,
    !.candidates = {Seat(k1, o, "named") : o \in SUBSET {x, y, z}}]

\* Three seats, with or without a birth attestor who is accountable.
Graded == [Bare EXCEPT !.maxSeats = 3,
    !.candidates = {Seat(k1, o, g) : o \in SUBSET {x, y, z}, g \in {"self", "named"}}]

\* An envelope: three signers refer to any of its evidence, a third party names
\* origins; the manifest lacks z, or lists what is there, or one more.
Evidence == <<x, Null, y, z>>
Signer(refs) == [key |-> k1, refs |-> refs, grade |-> "beacon_drawn"]
Envelope(evidence, manifest) == [Bare EXCEPT !.maxSeats = 3, !.evidence = evidence,
    !.manifest = manifest, !.candidates = {Signer(r) : r \in {s \in SUBSET (1 .. 4) : Cardinality(s) <= 2}}]
Envelopes == {Envelope(Evidence, {x, y}), Envelope(<<x, Null, y>>, {x, y}),
              Envelope(<<x, x, y>>, {x, y, z})}

\* Two keys of one domain and a third, which declare disjoint origins.
Watched == [Bare EXCEPT !.maxSeats = 3, !.maxEpochs = 3,
    !.candidates = {Seat(k1, {x}, "self"), Seat(k2, {y}, "self"), Seat(k3, {z}, "self")},
    !.domain = (k1 :> "d1" @@ k2 :> "d1" @@ k3 :> "d3")]

\* The third key's seat bridges the clusters of the other two.
Bridged == [Watched EXCEPT !.maxEpochs = 2, !.minEpochs = 1,
    !.candidates = {Seat(k1, {x}, "self"), Seat(k2, {y}, "self"), Seat(k3, {x, y}, "self")}]

\* Two domains, one of which may be captured; the last two epochs count.
Windowed == [Bare EXCEPT !.maxSeats = 2, !.maxEpochs = 5, !.maxCaptures = 1, !.window = 2,
    !.candidates = {Seat(k1, {x}, "self"), Seat(k2, {y}, "self")},
    !.domain = (k1 :> "d1" @@ k2 :> "d2")]

\* Every merge of two or three keys, under two sets of terms.
Confessing == [Bare EXCEPT !.maxSigned = 3, !.domain = [k \in {k1, k2, k3} |-> k],
    !.merges = {S \in SUBSET {k1, k2, k3} : Cardinality(S) >= 2} \X {"t1", "t2"}]

AllQuorums == {Roster, Graded, Watched, Bridged, Windowed, Confessing} \cup Envelopes
===============================================================================
