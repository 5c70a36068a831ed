----------------------------- MODULE ReceiptGossip -----------------------------
(***************************************************************************)
(* Reliers collecting receipts.  The repository holds the verifier and     *)
(* says of the rest: "a fork is only caught by a party holding BOTH        *)
(* conflicting receipts", and delivery belongs to "a gossip / publication  *)
(* layer".  Here the emitters sign receipts, which reach the holders in any *)
(* order, some of them or none.  Every holder grades its own list with     *)
(* Ordering.                                                               *)
(***************************************************************************)
EXTENDS Ordering, Functions

CONSTANTS
    Holder,         \* parties that hold a receipt list and grade it
    Honest,         \* subjects whose emitter chains every receipt it signs
    Duplicates,     \* TRUE: a receipt can reach a list twice
    MaxIssued       \* bound: receipts signed in one behaviour

ASSUME GossipAssumption ==
    Honest \subseteq Subject /\ Duplicates \in BOOLEAN /\ MaxIssued \in Nat

VARIABLES
    issued,     \* the receipts the emitters have signed
    held        \* held[h]: the receipt list of holder h, in arrival order

vars == <<issued, held>>

IssuedOver(s) == {r \in issued : r.subject = s}

TypeOK ==
    /\ issued \subseteq Receipt
    /\ held \in [Holder -> Seq(Receipt)]

Init ==
    /\ issued = {}
    /\ held = [h \in Holder |-> <<>>]

\* An id is a hash of the receipt, so a new receipt has a new id.
FreshId(r) == \A q \in issued : q.id # r.id

Sign(r) ==
    /\ FreshId(r)
    /\ Cardinality(issued) < MaxIssued
    /\ issued' = issued \cup {r}
    /\ UNCHANGED held

\* A receipt that no receipt over its subject follows yet.
Heads(s) == {q \in IssuedOver(s) : \A r \in IssuedOver(s) : r.prev # q.id}

\* The honest emitter: prev = id(prior receipt over S), a later round.
Extends(r) ==
    IF IssuedOver(r.subject) = {}
    THEN r.prev = Null
    ELSE \E q \in Heads(r.subject) :
            r.prev = q.id /\ RoundKey[q.round] < RoundKey[r.round]

EmitHonest(r) == r.subject \in Honest /\ Extends(r) /\ Sign(r)

\* Any other emitter signs what it likes: a prev already in use, one that
\* names nothing, a round that does not advance.
EmitRogue(r) == r.subject \notin Honest /\ Sign(r)

\* A receipt reaches a holder, from its emitter or from whoever holds it.
Deliver(h, r) ==
    /\ r \in issued
    /\ Duplicates \/ r \notin Range(held[h])
    /\ Len(held[h]) < MaxIssued
    /\ held' = [held EXCEPT ![h] = Append(@, r)]
    /\ UNCHANGED issued

Next ==
    \/ \E r \in Receipt : EmitHonest(r) \/ EmitRogue(r)
    \/ \E h \in Holder, r \in issued : Deliver(h, r)

Spec == Init /\ [][Next]_vars

-------------------------------------------------------------------------------
(* What a holder may conclude from its list. *)

State(h, s) == SubjectState(held[h], s)

\* The receipts over s in rs are one chain: no two share a rank, and each
\* follows the receipt of the rank just below its own.
Chained(rs, s) ==
    LET B == BySubject(rs, s) IN
    /\ \A i, j \in B : i # j => Key(rs, i) # Key(rs, j)
    /\ \A i \in B :
        \/ rs[i].prev = Null /\ \A j \in B : Key(rs, i) <= Key(rs, j)
        \/ \E p \in B : /\ rs[p].id = rs[i].prev
                        /\ Key(rs, p) < Key(rs, i)
                        /\ \A j \in B : Key(rs, j) < Key(rs, i)
                                          => Key(rs, j) <= Key(rs, p)

\* check_ordering tests links one at a time; "ordered" must mean that the
\* receipts in hand leave the emitter no choice of order, the same-round
\* reordering that docs/ordering.md sets out to close included.
OrderedMeansChain ==
    \A h \in Holder, s \in Subject :
        State(h, s) = "ordered" => Chained(held[h], s)

\* The lists that hold each receipt of T once.
Listings(T) == Bijection(1 .. Cardinality(T), T)

\* What two holders have between them once they have compared lists.
Merged(h, g) == Range(held[h]) \cup Range(held[g])

Over(h, s) == {r \in Range(held[h]) : r.subject = s}

\* Two holders who each read "ordered" and compare lists learn everything: put
\* together in any order, their receipts are ordered exactly when one of them
\* was merely behind, and any disagreement is a fork, never a backdate or a
\* broken link.
ExchangeExposesEquivocation ==
    \A h, g \in Holder, s \in Subject :
        State(h, s) = "ordered" /\ State(g, s) = "ordered"
        => \A ms \in Listings(Merged(h, g)) :
            SubjectState(ms, s) =
                IF Over(h, s) \subseteq Over(g, s) \/ Over(g, s) \subseteq Over(h, s)
                THEN "ordered" ELSE "forked"

\* An emitter that always chains is never accused, whatever is lost, late or
\* reordered: its receipts read "broken" while one is missing below a held
\* one, and "ordered" otherwise.
HonestVerdict ==
    \A h \in Holder, s \in Honest :
        State(h, s) =
            IF \A r \in Over(h, s) : \A q \in IssuedOver(s) :
                RoundKey[q.round] < RoundKey[r.round] => q \in Over(h, s)
            THEN "ordered" ELSE "broken"

\* The verdict depends on the receipts held, not on the order they came in,
\* although by_id and the children lists are filled in that order.
SameReceiptsSameVerdict ==
    \A h, g \in Holder, s \in Subject :
        Over(h, s) = Over(g, s) => State(h, s) = State(g, s)

\* No later receipt talks a relier out of a fork, and a backdate can be
\* overtaken by a worse verdict but never returns to "ordered".
GuiltNeverClears ==
    [][\A h \in Holder, s \in Subject :
        /\ State(h, s) = "forked" => State(h, s)' = "forked"
        /\ State(h, s) = "backdated" => State(h, s)' # "ordered"]_vars

\* A relier who reads the rolled-up verdict only is never lulled: with a fork
\* over any subject in hand, no receipt over that or another subject makes the
\* roll-up milder than the top severity, which forked shares with broken.
RolledGuiltStays ==
    [][\A h \in Holder :
        (\E s \in Subject : State(h, s) = "forked")
        => RolledState(held[h])' \in {"forked", "broken"}]_vars

\* The list-folding verdicts implement the evidence rule of ForkEvidence.
Evidence == INSTANCE ForkEvidence WITH
    seen      <- [h \in Holder |-> Range(held[h])],
    convicted <- [h \in Holder |-> {s \in Subject : State(h, s) = "forked"}]

\* A holder convicts an emitter of equivocation at the very step that gives it
\* the second of two conflicting receipts, and at no other.
ForksAreEvidence == Evidence!Spec
===============================================================================
