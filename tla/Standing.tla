------------------------------- MODULE Standing -------------------------------
(***************************************************************************)
(* The two standing readers (section 12.3), as functions of what they      *)
(* fetched: tools/standing_anchor.py folds one recorder feed;              *)
(* tools/touchstone_live.py folds a feed, an inclusion proof and a contest *)
(* response fetched separately.  Hashes are abstract: an object says       *)
(* whether it folds to the root it names.                                  *)
(***************************************************************************)
EXTENDS Integers, Sequences, FiniteSetsExt

CONSTANTS
    MaxLag,     \* max_checkpoint_lag_s (Null: not declared)
    Null

\* A checkpoint of a feed has an id, the status of its OTS anchor and the block
\* time of that anchor.  "pending" stands for every anchor that gives no bound:
\* none, one over another digest, one not confirmed, one without a height.

\* A contest has an entry hash (its seq stands for it) and a payload hash, which
\* other entries may share; it says whose key signed it, whether it folds to its
\* checkpoint and whether the server calls that checkpoint anchored.
Signatures == {"bound", "self-asserted", "bad", "none"}

NoBound == [id |-> 0, time |-> Null]

\* Mutant: an anchor that is still pending gives a bound.
LowerBound_Pending(cp) ==
    IF cp.status \in {"confirmed", "pending"}
    THEN [id |-> cp.id, time |-> cp.time] ELSE NoBound

\* anchor_lower_bound: a bound only from a confirmed anchor over this head.
LowerBound(cp) ==
    IF cp.status = "confirmed" THEN [id |-> cp.id, time |-> cp.time] ELSE NoBound

\* anchor_from_feed: the feed's checkpoint of that id, if it lists one.
AnchorFromFeed(feed, id) ==
    IF \E cp \in feed : cp.id = id
    THEN LowerBound(CHOOSE cp \in feed : cp.id = id)
    ELSE NoBound

\* Mutant: the age is taken the wrong way round.
Stale_Swapped(bound, now) == MaxLag # Null /\ bound.time - now > MaxLag

Stale(bound, now) == MaxLag # Null /\ now - bound.time > MaxLag

\* verify_contest: the grade the reader gives a contest by itself.
Grade(c) ==
    CASE c.sig = "bound" -> "verified"
      [] c.sig = "self-asserted" -> "claimed"
      [] c.sig = "bad" -> "sig_invalid"
      [] c.sig = "none" -> "server-attested"

\* Mutant: the signature grade is not looked at.
Counts_AnyGrade(c) == c.folds /\ c.anchored

\* Mutant: a contest whose key is not bound is let pass.
Counts_BoundOnly(c) ==
    c.folds /\ c.anchored /\ Grade(c) \in {"verified", "server-attested"}

\* A contest counts when it folds, is anchored and is not badly signed.
Counts(c) ==
    /\ c.folds /\ c.anchored
    /\ Grade(c) \in {"verified", "claimed", "server-attested"}

\* touchstone_live.check_contest_channel, on a response and a feed.
ContestChannel(resp, feed, now) ==
    LET through == AnchorFromFeed(feed, resp.latest)
    IN  [through |-> through,
         state |->
            IF through = NoBound THEN "undeclared"
            ELSE IF \E c \in resp.contests : Counts(c) THEN "contested"
            ELSE IF Stale(through, now) THEN "stale"
            ELSE "clear"]

\* standing_anchor.check_contest_leg, on one feed of checkpoints and entries
\* (Null: no channel declared, or the feed was unreachable; offline, none is
\* read).  A contest entry disputes the standing by being listed.
ContestLeg(feed, now) ==
    LET bounds == {LowerBound(cp) : cp \in feed.checkpoints} \ {NoBound}
        through == CHOOSE b \in bounds : \A a \in bounds : a.time <= b.time
    IN  IF feed = Null \/ bounds = {}
        THEN [through |-> NoBound, state |-> "undeclared"]
        ELSE [through |-> through,
              state |-> IF feed.contests # {} THEN "contested"
                        ELSE IF Stale(through, now) THEN "stale"
                        ELSE "clear"]

\* Mutant: the state of the contest leg is passed through.
StandingState_Raw(attested, cstate) ==
    IF ~attested THEN "unanchored" ELSE cstate

\* The joint state of both readers.
StandingState(attested, cstate) ==
    IF ~attested THEN "unanchored"
    ELSE IF cstate \in {"contested", "stale"} THEN cstate
    ELSE "anchored"

\* Mutant: any contest in the response is taken for the author's.
SignedButAbsent_AnyShown(c, resp) ==
    IF c.sig = "none" THEN "not-signed"
    ELSE IF c.sig = "bad" THEN "sig-invalid"
    ELSE IF resp.contests # {} THEN "present"
    ELSE "SIGNED_BUT_ABSENT"

\* touchstone_live.signed_but_absent, for a contest its author kept: whatever the
\* response lists under its entry hash or its payload hash, counting or not, is
\* taken for it.
SignedButAbsent(c, resp) ==
    IF c.sig = "none" THEN "not-signed"
    ELSE IF c.sig = "bad" THEN "sig-invalid"
    ELSE IF \E d \in resp.contests : d.seq = c.seq \/ d.payload = c.payload
         THEN "present"
    ELSE "SIGNED_BUT_ABSENT"
===============================================================================
