----------------------------- MODULE EnvelopeRead -----------------------------
(***************************************************************************)
(* verify (tools/verify.py) over an envelope while the world it asks moves *)
(* on: the issuer revokes and publishes coverage, evidence is edited, time *)
(* passes and the network answers, serves an error page or is unreachable. *)
(* Each online check is a fetch of its own, in the order of the code; the  *)
(* offline checks fetch nothing and are one step.  Signatures are the      *)
(* matter of Sigchain: here the chain verifies.                            *)
(***************************************************************************)
EXTENDS Naturals, FiniteSets

CONSTANTS
    Envelopes,      \* the envelopes considered
    Null,           \* an optional block that is absent
    MaxClock,       \* bound: the clock
    MaxChanges      \* bound: revocations, publications and edits

ClaimType == {"artifact_published", "state_transition"}
Must == {"state_transition"}
Pointer == {1, 2}

\* inline is coverage.covered_claim_types, pinned the pointers with a
\* content_hash, until the end of the contest window and others the number of
\* contesters beside the issuer.
Envelope ==
    [model: {"time_bounded", "perpetual", "revocation_checked"},
     notBefore: Nat, notAfter: Nat, claim: ClaimType, inline: (SUBSET ClaimType) \cup {Null},
     pinned: SUBSET Pointer,
     standing: [until: Nat, others: Nat] \cup {Null}]

ASSUME EnvelopeAssumption ==
    /\ Envelopes \subseteq Envelope
    /\ MaxClock \in Nat /\ MaxChanges \in Nat

VARIABLES
    env,        \* the envelope
    clock,
    revoked,    \* what revocation_uri says
    published,  \* what coverage_uri lists
    intact,     \* the pointers that still serve what was hashed
    changes,    \* changes of the world so far
    read,       \* the verification in progress, or the last one
    past        \* what was there to be seen since it began (no check looks at it)

world == <<clock, revoked, published, intact, changes>>
vars == <<env, clock, revoked, published, intact, changes, read, past>>

Answer == {"answered", "error_page", "unreachable"}

TypeOK ==
    /\ env \in Envelopes
    /\ clock \in 0 .. MaxClock /\ changes \in 0 .. MaxChanges
    /\ revoked \in BOOLEAN
    /\ published \subseteq ClaimType /\ intact \subseteq Pointer
    /\ read \in [pc: {"idle", "validity", "evidence1", "evidence2", "coverage",
                      "standing", "done", "offline"},
                 valid: BOOLEAN, drifted: BOOLEAN, coverage: {"ok", "warn", "fail"},
                 standing: {"contestable", "monument", "n/a"}, accept: BOOLEAN]
    /\ past \in [since: 0 .. MaxClock, revoked: BOOLEAN, published: SUBSET SUBSET ClaimType,
                 good: SUBSET Pointer, lost: BOOLEAN]

NoRead == [pc |-> "idle", valid |-> FALSE, drifted |-> FALSE, coverage |-> "warn",
           standing |-> "n/a", accept |-> FALSE]
NoPast == [since |-> 0, revoked |-> FALSE, published |-> {}, good |-> {},
           lost |-> FALSE]

Init ==
    /\ env \in Envelopes
    /\ clock = 0 /\ revoked = FALSE /\ changes = 0
    /\ published \in SUBSET ClaimType
    /\ intact = Pointer
    /\ read = NoRead /\ past = NoPast

-------------------------------------------------------------------------------
(* The checks, each on what its fetch returned. *)

InWindow == env.notBefore <= clock /\ clock <= env.notAfter

\* Mutant: an unreachable endpoint is no revocation.
CheckValidity_SoftFail(answer) ==
    IF env.model = "time_bounded" THEN InWindow
    ELSE IF env.model = "perpetual" THEN TRUE
    ELSE answer = "answered" => ~revoked

\* check_validity online: only a 200 that says revoked revokes; only an
\* exception fails closed.
CheckValidity(answer) ==
    CASE env.model = "time_bounded" -> InWindow
      [] env.model = "perpetual" -> TRUE
      [] env.model = "revocation_checked" ->
            /\ answer # "unreachable"
            /\ ~(answer = "answered" /\ revoked)

\* check_evidence, one pointer: a mismatch of pinned content.
Drifts(p, answer) == answer = "answered" /\ p \in env.pinned /\ p \notin intact

\* Mutant: an unreachable commitment is only a warning.
CheckCoverage_SoftFail(answer) ==
    IF env.inline = Null
    THEN IF env.claim \in Must THEN "fail" ELSE "warn"
    ELSE IF answer # "answered" THEN "warn"
    ELSE IF ~(env.inline \subseteq published) THEN "fail"
    ELSE IF env.claim \in published THEN "ok"
    ELSE IF env.claim \in Must THEN "fail" ELSE "warn"

\* check_coverage online.
CheckCoverage(answer) ==
    LET uncovered == IF env.claim \in Must THEN "fail" ELSE "warn" IN
    IF env.inline = Null \/ answer # "answered" THEN uncovered
    ELSE IF ~(env.inline \subseteq published) THEN "fail"
    ELSE IF env.claim \in published THEN "ok" ELSE uncovered

\* Mutant: the window is not looked at.
CheckStanding_NoWindow ==
    IF env.standing = Null
    THEN IF env.model = "perpetual" THEN "monument" ELSE "n/a"
    ELSE IF env.standing.others = 0 THEN "monument" ELSE "contestable"

\* check_standing; the liveness of the contest channel is a note only.
CheckStanding ==
    IF env.standing = Null
    THEN IF env.model = "perpetual" THEN "monument" ELSE "n/a"
    ELSE IF env.standing.others = 0 \/ clock > env.standing.until
    THEN "monument" ELSE "contestable"

\* The same checks with every fetch skipped.
OfflineValidity == env.model = "time_bounded" => InWindow
OfflineCoverage ==
    IF env.inline # Null /\ env.claim \in env.inline THEN "ok"
    ELSE IF env.claim \in Must THEN "fail" ELSE "warn"
OfflineAccept == OfflineValidity /\ OfflineCoverage # "fail"

-------------------------------------------------------------------------------
(* The world. *)

Served == [past EXCEPT !.published = @ \cup {published'}, !.good = @ \cup intact']

Change ==
    /\ changes < MaxChanges
    /\ changes' = changes + 1
    /\ past' = Served
    /\ UNCHANGED <<env, clock, read>>

Revoke == ~revoked /\ revoked' = TRUE /\ UNCHANGED <<published, intact>> /\ Change
Publish(types) == published' = types /\ UNCHANGED <<revoked, intact>> /\ Change
Edit(p) ==
    /\ intact' = (IF p \in intact THEN intact \ {p} ELSE intact \cup {p})
    /\ UNCHANGED <<revoked, published>>
    /\ Change

Tick ==
    /\ clock < MaxClock
    /\ clock' = clock + 1
    /\ UNCHANGED <<env, revoked, published, intact, changes, read, past>>

-------------------------------------------------------------------------------
(* verify. *)

Begin ==
    /\ read.pc \in {"idle", "done", "offline"}
    /\ read' = [NoRead EXCEPT !.pc = "validity"]
    /\ past' = [since |-> clock, revoked |-> revoked, published |-> {published},
                good |-> intact, lost |-> FALSE]
    /\ UNCHANGED <<env, world>>

Validity(answer) ==
    /\ read.pc = "validity"
    /\ read' = [read EXCEPT !.pc = "evidence1", !.valid = CheckValidity(answer)]
    /\ past' = [past EXCEPT !.lost = answer = "error_page"]
    /\ UNCHANGED <<env, world>>

\* Mutants: an unreachable pointer starts the verification over; the verdict on
\* the last pointer stands for all.
Evidence_Restart(p, answer) ==
    /\ read.pc = (IF p = 1 THEN "evidence1" ELSE "evidence2")
    /\ read' = [read EXCEPT !.pc = IF answer = "unreachable" THEN "validity"
                                   ELSE IF p = 1 THEN "evidence2" ELSE "coverage",
                            !.drifted = @ \/ Drifts(p, answer)]
    /\ UNCHANGED <<env, world, past>>
Evidence_Last(p, answer) ==
    /\ read.pc = (IF p = 1 THEN "evidence1" ELSE "evidence2")
    /\ read' = [read EXCEPT !.pc = IF p = 1 THEN "evidence2" ELSE "coverage",
                            !.drifted = Drifts(p, answer)]
    /\ past' = [past EXCEPT !.good = IF answer = "answered" THEN @ ELSE @ \cup {p}]
    /\ UNCHANGED <<env, world>>

\* The pointers in order; an unreachable one is only noted.
Evidence(p, answer) ==
    /\ read.pc = (IF p = 1 THEN "evidence1" ELSE "evidence2")
    /\ read' = [read EXCEPT !.pc = IF p = 1 THEN "evidence2" ELSE "coverage",
                            !.drifted = @ \/ Drifts(p, answer)]
    /\ past' = [past EXCEPT !.good = IF answer = "answered" THEN @ ELSE @ \cup {p}]
    /\ UNCHANGED <<env, world>>

Coverage(answer) ==
    /\ read.pc = "coverage"
    /\ read' = [read EXCEPT !.pc = "standing", !.coverage = CheckCoverage(answer)]
    /\ UNCHANGED <<env, world, past>>

Standing ==
    /\ read.pc = "standing"
    /\ read' = [read EXCEPT !.pc = "done", !.standing = CheckStanding,
            !.accept = read.valid /\ ~read.drifted /\ read.coverage # "fail"]
    /\ UNCHANGED <<env, world, past>>

Offline ==
    /\ read.pc \in {"idle", "done", "offline"}
    /\ read' = [NoRead EXCEPT !.pc = "offline", !.valid = OfflineValidity,
            !.coverage = OfflineCoverage, !.standing = CheckStanding,
            !.accept = OfflineAccept]
    /\ past' = [NoPast EXCEPT !.since = clock]
    /\ UNCHANGED <<env, world>>

\* The next check of the verification in progress.
Continue ==
    \/ \E answer \in Answer :
        \/ Validity(answer)
        \/ \E p \in Pointer : Evidence(p, answer)
        \/ Coverage(answer)
    \/ Standing

Next ==
    \/ Revoke
    \/ \E types \in SUBSET ClaimType : Publish(types)
    \/ \E p \in Pointer : Edit(p)
    \/ Tick
    \/ Begin
    \/ Continue
    \/ Offline

Spec == Init /\ [][Next]_vars

\* A verification that was begun runs on: it is one call, and each of its fetches
\* returns, fails or times out.  Nobody has to begin one, and the world owes it
\* nothing.
FairSpec == Spec /\ WF_vars(Continue)

-------------------------------------------------------------------------------
(* What a relier may conclude. *)

Accepted == read.pc = "done" /\ read.accept

\* An envelope revoked before the verification began is not accepted, however
\* the rest of the world moves, unless its registry served an error page.
RevocationHolds ==
    Accepted /\ env.model = "revocation_checked" /\ past.revoked => past.lost

\* "MUST": an accepted state claim was covered by the issuer's own commitment at
\* some instant of the verification, and the inline list had not been padded at
\* that same instant, whichever answers were lost.
MustWasCovered ==
    Accepted /\ env.claim \in Must
    => /\ env.inline # Null
       /\ \E types \in past.published : env.inline \cup {env.claim} \subseteq types

\* Pointer drift: evidence that was edited before the verification began, stayed
\* edited and was reachable is never accepted; one good pointer does not make up
\* for a bad one.
DriftIsCaught ==
    Accepted => env.pinned \subseteq past.good

\* "Signed-once, true-forever" is flagged: a perpetual claim that is accepted
\* without the monument flag still had somebody to contest it when the
\* verification began.
ForeverIsContestable ==
    read.pc \in {"done", "offline"} /\ read.accept /\ env.model = "perpetual"
        /\ read.standing # "monument"
    => /\ env.standing # Null
       /\ env.standing.others > 0 /\ past.since <= env.standing.until

\* Every verification that was begun comes to a verdict, whatever answers are
\* lost and however often the world changes under it.
EveryReadEnds ==
    read.pc \in {"validity", "evidence1", "evidence2", "coverage", "standing"}
        ~> read.pc = "done"

-------------------------------------------------------------------------------
(* What the code says of itself. *)

\* tools/verify.py, check_validity: "fail-closed": an acceptance is not based on
\* a registry that could not answer.
RevocationFailsClosed ==
    Accepted /\ env.model = "revocation_checked" => ~past.revoked
===============================================================================
