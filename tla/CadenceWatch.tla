----------------------------- MODULE CadenceWatch -----------------------------
(***************************************************************************)
(* A party that promised to be audible, the relay between it and a         *)
(* counterparty, and the document the counterparty grades with Cadence as  *)
(* beacon rounds go by.  The party may fall silent for a round and come    *)
(* back.  The relay may withhold, delay and reorder heartbeats; a hostile  *)
(* one also relabels them and forges its own.                              *)
(***************************************************************************)
EXTENDS Cadence

(***************************************************************************)
(* The situations considered, one of which holds throughout a behaviour:   *)
(* promises (the commitments; Null is none), offCadence (the party also    *)
(* speaks in rounds it did not promise), hostile (the relay alters and     *)
(* forges), and two bounds: maxRound, the last beacon round, and maxFiled, *)
(* heartbeats filed with the counterparty.                                 *)
(***************************************************************************)
CONSTANT Scenes

ASSUME WatchAssumption ==
    Scenes \subseteq [promises: SUBSET (Commitment \cup {Null}),
                      offCadence: BOOLEAN, hostile: BOOLEAN,
                      maxRound: Nat, maxFiled: Nat]

VARIABLES
    scene,      \* the situation
    promise,    \* doc.commitment, signed before the silence
    now,        \* now_round
    spoken,     \* the heartbeats the party has signed
    filed,      \* doc.heartbeats, in the order they were filed
    surfaced    \* doc.counter_receipts

vars == <<scene, promise, now, spoken, filed, surfaced>>

TypeOK ==
    /\ scene \in Scenes /\ promise \in scene.promises
    /\ now \in 0 .. scene.maxRound
    /\ spoken \subseteq Heartbeat
    /\ filed \in Seq(Heartbeat)
    /\ surfaced \subseteq Heartbeat

Init ==
    /\ scene \in Scenes /\ promise \in scene.promises
    /\ now = 0
    /\ spoken = {} /\ filed = <<>> /\ surfaced = {}

Promised == promise # Null /\ promise.sig /\ promise.step > 0

Due(r) == Promised /\ r \in Expected(promise, r)

SpokenRounds == {h.round : h \in spoken}

LastSpoken == IF spoken = {} THEN Null ELSE Max(SpokenRounds)

\* The party signs the heartbeat of this round, chained to its last one.
Speak ==
    /\ now \notin SpokenRounds
    /\ scene.offCadence \/ Due(now)
    /\ spoken' = spoken \cup
            {[round |-> now, prev |-> LastSpoken, id |-> now, sig |-> TRUE]}
    /\ UNCHANGED <<scene, promise, now, filed, surfaced>>

\* The beacon moves on, whether or not the party spoke.
Tick ==
    /\ now < scene.maxRound
    /\ now' = now + 1
    /\ UNCHANGED <<scene, promise, spoken, filed, surfaced>>

\* What a hostile relay can make: a genuine heartbeat under another id, and a
\* heartbeat whose signature does not verify.
Altered ==
    {[h EXCEPT !.id = i] : h \in spoken, i \in {Null, scene.maxRound + 1}}
        \cup [round: 0 .. now, prev: {Null, LastSpoken}, id: {now}, sig: {FALSE}]

Deliverable == spoken \cup (IF scene.hostile THEN Altered ELSE {})

\* A heartbeat reaches the counterparty's document.
File(h) ==
    /\ h \in Deliverable
    /\ h \notin Range(filed)
    /\ Len(filed) < scene.maxFiled
    /\ filed' = Append(filed, h)
    /\ UNCHANGED <<scene, promise, now, spoken, surfaced>>

\* A heartbeat surfaces later, as a counter-receipt.
Surface(h) ==
    /\ h \in Deliverable
    /\ surfaced = {}
    /\ surfaced' = {h}
    /\ UNCHANGED <<scene, promise, now, spoken, filed>>

Next ==
    \/ Speak
    \/ Tick
    \/ \E h \in Deliverable : File(h) \/ Surface(h)

Spec == Init /\ [][Next]_vars

-------------------------------------------------------------------------------
(* What the counterparty reads. *)

Verdict == CheckCadence(promise, filed, surfaced, now)
Gaps == Missing(promise, filed, now)

\* A party that keeps to its promised rounds behind a relay that alters nothing.
Plain == ~scene.hostile /\ ~scene.offCadence

\* With every heartbeat on file, in whatever order and with whatever rounds
\* skipped, the missing rounds are exactly the promised rounds the party was
\* silent in: the order of arrival and an earlier gap cost it nothing.
SilenceIsExact ==
    Promised /\ Plain /\ spoken \subseteq Range(filed)
    => Gaps = Expected(promise, now) \ SpokenRounds

\* A heartbeat on file that does not count betrays a relay: the party signed an
\* earlier one that was withheld.  A party that was merely silent is never
\* rejected for the rounds in which it spoke.
RejectionMeansWithheld ==
    Promised /\ Plain => \A r \in Rejected(promise, filed, now) :
        \E h \in spoken \ Range(filed) : h.round < r

\* Filing one more genuine heartbeat, or none, never turns a present round into a gap.
FilingNeverHurts ==
    [][Promised /\ ~scene.hostile /\ now' = now => Gaps' \subseteq Gaps]_vars

\* A promise that has run out and was kept stays kept as rounds go by.
KeptPromiseStaysKept ==
    [][Promised /\ promise.until \in Nat \ {0} /\ now >= promise.until
        /\ Verdict = "live" /\ filed' = filed => Verdict' = "live"]_vars

\* A relay cannot manufacture speech: a round that counts as present is one the
\* party signed a heartbeat for, and an absence is defeated only by a heartbeat
\* it signed inside the silence, whatever was relabelled or forged.
NoManufacturedSpeech ==
    /\ Promised => Present(promise, filed, now) \subseteq SpokenRounds
    /\ Verdict = "refuted" => Gaps \cap SpokenRounds # {}

\* "A manufactured silence is a loan": once an absence is refuted neither time
\* nor any forged filing restores it; only filling the gap ends the dispute.
RefutationOutlivesTime ==
    [][Verdict = "refuted" /\ Gaps \subseteq Gaps' => Verdict' = "refuted"]_vars
===============================================================================
