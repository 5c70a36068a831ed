---------------------------- MODULE MCEnvelopeRead ----------------------------
(* The envelopes of the EnvelopeRead runs. *)
EXTENDS EnvelopeRead

Standings == {Null} \cup [until: {0, 1}, others: {0, 1}]

\* Whether it holds: every model, every standing.
Timed ==
    [model: {"time_bounded", "perpetual", "revocation_checked"},
     notBefore: {0, 1}, notAfter: {1},
     claim: {"artifact_published"}, inline: {Null}, pinned: {{}},
     standing: Standings]

\* What it rests on: every coverage block and every choice of pinned evidence.
Backed ==
    [model: {"perpetual"}, notBefore: {0}, notAfter: {0}, claim: ClaimType,
     inline: (SUBSET ClaimType) \cup {Null}, pinned: SUBSET Pointer,
     standing: {Null}]

TimedOrBacked == Timed \cup Backed
===============================================================================
