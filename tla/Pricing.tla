-------------------------------- MODULE Pricing --------------------------------
(***************************************************************************)
(* The price of a claim under attack (tools/refutation_pricing.py, §18c).  *)
(* A claim is a record                                                     *)
(*     [head, count, truths, survival, refutations, attempts]              *)
(* truths giving the settled answer by index (Null where none is settled), *)
(* survival a set of [did, round, index, answer, sig], and refutations a   *)
(* set of [type, certificate].                                             *)
(***************************************************************************)
EXTENDS Battery

\* Mutant: what an observer reports is upheld as well.
Upheld_Reports(claim) ==
    {r \in claim.refutations :
        \/ r.type = "report"
        \/ r.type = "fork" /\ DivergenceState(r.certificate) = "diverged"}
\* Only artifacts a stranger can check again; of what they speak is not asked.
Upheld(claim) ==
    {r \in claim.refutations :
        r.type = "fork" /\ DivergenceState(r.certificate) = "diverged"}

\* The certificate an answer of a claim is checked as.
AsCertificate(claim, s) ==
    [round |-> s.round, head |-> claim.head, count |-> claim.count, index |-> s.index]

\* Mutant: the prover's index is taken as drawn.
Credited_AnyProbe(claim, s) ==
    /\ claim.count \in Nat \ {0}
    /\ s.index < claim.count
    /\ Verifies(s.did, s.sig, SignedMessage(AsCertificate(claim, s), s.answer))
    /\ claim.truths[s.index] # Null
    /\ s.answer = claim.truths[s.index]
\* An answer to the probe the beacon drew, signed, settled and right.
Credited(claim, s) ==
    /\ claim.count \in Nat \ {0}
    /\ s.index = ChallengeIndex(s.round, claim.head, claim.count)
    /\ Verifies(s.did, s.sig, SignedMessage(AsCertificate(claim, s), s.answer))
    /\ claim.truths[s.index] # Null
    /\ s.answer = claim.truths[s.index]

\* Distinct probes: a replayed answer covers nothing twice.
Covered(claim) == {s.index : s \in {t \in claim.survival : Credited(claim, t)}}

\* The coverage is covered out of the probe count; attempts earn nothing.
PriceClaim(claim) ==
    IF Upheld(claim) # {}
    THEN [state |-> "refuted", covered |-> {}, outOf |-> claim.count]
    ELSE [state |-> IF Covered(claim) # {} THEN "unrefuted" ELSE "untested",
          covered |-> Covered(claim), outOf |-> claim.count]
===============================================================================
