-------------------------------- MODULE Cadence --------------------------------
(***************************************************************************)
(* tools/signed_cadence.py (section 18f): grading a party's silence        *)
(* against the promise it signed.  A heartbeat's signature covers its      *)
(* round and its prev, not its id; sig says whether it verifies.           *)
(***************************************************************************)
EXTENDS Integers, Sequences, FiniteSetsExt

CONSTANT Null       \* an absent field

Rounds == Nat
Ids == Nat          \* tests label the heartbeat of round r "h<r>"

Heartbeat ==
    [round: Rounds, prev: Ids \cup {Null}, id: Ids \cup {Null}, sig: BOOLEAN]

ASSUME NullAssumption == Null \notin Nat /\ Null \notin Heartbeat

\* A commitment: sig says that it verifies under its did and domain.
Commitment ==
    [sig: BOOLEAN, step: Nat, from: Rounds, until: Rounds \cup {Null}]

States == {"unpriceable", "pending", "live", "broken", "refuted"}

\* `until_round or now_round`: an absent bound is open, and so is round 0.
Until(c, now) == IF c.until \in {Null, 0} THEN now ELSE c.until

\* Mutant: the end of the promise is ignored.
Expected_Unbounded(c, now) ==
    {r \in c.from .. now : (r - c.from) % c.step = 0}

\* range(start, min(until, now) + 1, step): the rounds that have come due.
Expected(c, now) ==
    {r \in c.from .. Min({Until(c, now), now}) : (r - c.from) % c.step = 0}

Filings(hbs, r) == {i \in DOMAIN hbs : hbs[i].round = r}

\* by_round keeps the last heartbeat filed for a round, whatever it is.
ByRound(hbs, r) ==
    IF Filings(hbs, r) = {} THEN Null ELSE hbs[Max(Filings(hbs, r))]

\* Mutant: the signature is not looked at.
Accepts_Unsigned(h, prev) == h # Null /\ h.prev = prev

\* Mutant: the first heartbeat that counts may name any prev.
Accepts_FirstFree(h, prev) ==
    h # Null /\ h.sig /\ (prev = Null \/ h.prev = prev)

\* A heartbeat counts when its signature verifies and it names the heartbeat
\* accepted before it.
Accepts(h, prev) == h # Null /\ h.sig /\ h.prev = prev

\* Mutant: the chain moves on to the prev of the accepted heartbeat.
NextPrev_Behind(h, prev) == IF ~Accepts(h, prev) THEN prev ELSE h.prev

\* Mutant: a round without a heartbeat starts the chain over.
NextPrev_Reset(h, prev) ==
    IF h = Null THEN Null
    ELSE IF ~Accepts(h, prev) THEN prev ELSE IF h.id # Null THEN h.id ELSE h.prev

\* The id later heartbeats must name: `h.id or h.prev` of the last accepted.
NextPrev(h, prev) ==
    IF ~Accepts(h, prev) THEN prev ELSE IF h.id # Null THEN h.id ELSE h.prev

\* The walk over the rounds that are due, in order: the prev each of them must
\* name (walk[k] stands after the k-th round from the start).
Prevs(c, hbs, due) ==
    LET walk[k \in 0 .. Cardinality(due)] ==
            IF k = 0 THEN Null
            ELSE NextPrev(ByRound(hbs, c.from + (k - 1) * c.step), walk[k - 1])
    IN  [r \in due |-> walk[(r - c.from) \div c.step]]

Present(c, hbs, now) ==
    LET prevs == Prevs(c, hbs, Expected(c, now))
    IN  {r \in Expected(c, now) : Accepts(ByRound(hbs, r), prevs[r])}

Missing(c, hbs, now) == Expected(c, now) \ Present(c, hbs, now)

\* Promised rounds that have a heartbeat on file which does not count.
Rejected(c, hbs, now) ==
    {r \in Missing(c, hbs, now) : ByRound(hbs, r) # Null}

\* Mutant: only the most recent silence can be answered.
Refutes_Latest(cr, missing) == cr.round = Max(missing) /\ cr.sig

\* A valid signature from inside the silence.
Refutes(cr, missing) == cr.round \in missing /\ cr.sig

\* check_cadence: promise c (Null: none), heartbeats on file, counter-receipts.
CheckCadence(c, hbs, counters, now) ==
    IF c = Null \/ ~c.sig \/ c.step <= 0 THEN "unpriceable"
    ELSE IF Expected(c, now) = {} THEN "pending"
    ELSE IF Missing(c, hbs, now) = {} THEN "live"
    ELSE IF \E cr \in counters : Refutes(cr, Missing(c, hbs, now)) THEN "refuted"
    ELSE "broken"
===============================================================================
