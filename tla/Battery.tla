-------------------------------- MODULE Battery --------------------------------
(***************************************************************************)
(* The probe battery (tools/probe_battery.py, §18g) and divergence over it *)
(* (tools/portable_divergence.py, §18b).  A battery is the sequence of its *)
(* probes; as a hash chain its head is the whole sequence.  A signature is *)
(*     [key, over]                                                         *)
(* over being the message signed; a certificate is                         *)
(*     [round, head, count, index, responses, truth]                       *)
(* with responses [did, answer, sig].  Index 0 is the battery's first      *)
(* probe, as in the code.                                                  *)
(***************************************************************************)
EXTENDS Naturals, Sequences, FiniteSets

CONSTANTS
    Null,
    Unsettleable,       \* contributions without question or settlement
    Digest(_, _)        \* the hash of a beacon round and a head, as a number

-------------------------------------------------------------------------------
(* Battery. *)

\* Whoever contributes: a probe enters once, at the end, if it can be settled.
BuildBattery(entries) ==
    LET after[n \in 0 .. Len(entries)] ==
            IF n = 0 THEN <<>>
            ELSE IF entries[n] \in Unsettleable
                    \/ \E i \in DOMAIN after[n - 1] : after[n - 1][i] = entries[n]
            THEN after[n - 1]
            ELSE Append(after[n - 1], entries[n])
    IN  after[Len(entries)]

\* verify_append_only: the old chain is a prefix of the new one.
AppendOnly(old, new) == Len(old) <= Len(new) /\ SubSeq(new, 1, Len(old)) = old

\* The probe that is scored; defined for a count above zero.
ChallengeIndex(round, head, count) == Digest(round, head) % count

-------------------------------------------------------------------------------
(* Divergence. *)

\* Mutant: the signature does not name the challenge.
SignedMessage_AnyChallenge(cert, answer) ==
    [round |-> cert.round, head |-> cert.head, index |-> Null, answer |-> answer]
SignedMessage(cert, answer) ==
    [round |-> cert.round, head |-> cert.head, index |-> cert.index, answer |-> answer]

Verifies(did, sig, message) == sig.key = did /\ sig.over = message

Supported(cert) == cert.head # <<>> /\ cert.count \in Nat \ {0}
Drawn(cert) == cert.index = ChallengeIndex(cert.round, cert.head, cert.count)

\* The answers that count: given, and signed over the challenge.
ValidResponses(cert) ==
    {r \in cert.responses :
        r.answer # Null /\ Verifies(r.did, r.sig, SignedMessage(cert, r.answer))}

\* Two valid responses with different answers, as the set of their dids: one
\* did alone if a key answered twice.
Splits(cert) ==
    {{pair[1].did, pair[2].did} : pair \in
        {p \in ValidResponses(cert) \X ValidResponses(cert) : p[1].answer # p[2].answer}}

DivergenceState(cert) ==
    CASE ~Supported(cert) -> "unsupported"
      [] Supported(cert) /\ ~Drawn(cert) -> "invalid"
      [] Supported(cert) /\ Drawn(cert) /\ Splits(cert) # {} -> "diverged"
      [] OTHER -> "no-divergence"

\* The signers of an answer other than the settled one: what the split cost.
Wrong(cert) == {r.did : r \in {v \in ValidResponses(cert) : v.answer # cert.truth}}
===============================================================================
