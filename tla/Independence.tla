----------------------------- MODULE Independence -----------------------------
(***************************************************************************)
(* Effective-independent counting (tools/independence.py, §8-§11).  Seats  *)
(* of a quorum, or signers of an envelope, are a sequence of records       *)
(*     [key, origins, grade]                                               *)
(* origins being the content hashes a seat declares to have derived from.  *)
(* The union-find over shared origins is a fold that keeps the blocks of   *)
(* seats instead of parent pointers: a seat is joined to the block of the  *)
(* first owner of each of its origins, and to nothing else.                *)
(***************************************************************************)
EXTENDS Naturals, Sequences, FiniteSets, FiniteSetsExt

CONSTANT Null

-------------------------------------------------------------------------------
(* The fold. *)

\* A seat that declares no usable origin earns nothing.
Disclosed(seats) == {i \in DOMAIN seats : seats[i].origins # {}}

\* origin_owner: set by the first seat that has the origin, never changed.
Owner(seats, o) == Min({i \in Disclosed(seats) : o \in seats[i].origins})

\* Mutant: a seat is joined to the owner of one of its origins.
OwnersOf_One(seats, n) == {Min({Owner(seats, o) : o \in seats[n].origins})}
OwnersOf(seats, n) == {Owner(seats, o) : o \in seats[n].origins}

\* The blocks that meet touched, and touched itself, become one block.
Merge(blocks, touched) ==
    LET met == {b \in blocks : b \cap touched # {}}
    IN  (blocks \ met) \cup {touched \cup UNION met}

Clusters(seats) ==
    LET after[n \in 0 .. Len(seats)] ==
            IF n = 0 THEN {}
            ELSE IF n \notin Disclosed(seats) THEN after[n - 1]
            ELSE Merge(after[n - 1], {n} \cup OwnersOf(seats, n))
    IN  after[Len(seats)]

Effective(seats) == Cardinality(Clusters(seats))

\* The clusters with a member of the one grade that earns: "beacon_drawn" for
\* the signers of an envelope (§9), "named" for the seats of a quorum (§11).
Earning(seats, grade) ==
    {b \in Clusters(seats) : \E i \in b : seats[i].grade = grade}

\* Two seats or more that are worth one at most.
CapturedQuorum(seats) == Len(seats) >= 2 /\ Effective(seats) <= 1

\* Mutant: the candidate is weighed alone, not against the incumbents.
Admits_Alone(seats, candidate) == Effective(<<candidate>>) > 0
Admits(seats, candidate) == Effective(Append(seats, candidate)) > Effective(seats)

-------------------------------------------------------------------------------
(* Envelopes: §8 witnesses and §10 origin coverage. *)

\* evidence: a sequence of content hashes, Null where an entry has none.
\* A reference out of range or to such an entry contributes nothing.
Origins(refs, evidence) ==
    {evidence[i] : i \in refs \cap DOMAIN evidence} \ {Null}

\* The signers of a sigchain, [key, refs, grade], as seats.
Signers(chain, evidence) ==
    [i \in DOMAIN chain |-> [key |-> chain[i].key, grade |-> chain[i].grade,
                             origins |-> Origins(chain[i].refs, evidence)]]

Witnesses(chain, evidence) == Effective(Signers(chain, evidence))

EvidenceOrigins(evidence) == {evidence[i] : i \in DOMAIN evidence} \ {Null}

\* manifest: Null, or the committed set of origins.
\* Mutant: only what third parties name is held against the manifest.
CoverageState_FiredOnly(evidence, manifest, fired) ==
    CASE manifest = Null -> "origins_unenumerated"
      [] manifest # Null /\ fired \ manifest # {} -> "fired"
      [] OTHER -> "origins_enumerated"
CoverageState(evidence, manifest, fired) ==
    CASE manifest = Null -> "origins_unenumerated"
      [] manifest # Null /\ EvidenceOrigins(evidence) \ manifest # {} -> "manifest_incomplete"
      [] manifest # Null /\ EvidenceOrigins(evidence) \subseteq manifest
            /\ fired \ manifest # {} -> "fired"
      [] OTHER -> "origins_enumerated"
===============================================================================
