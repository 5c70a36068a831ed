-------------------------------- MODULE Lineage --------------------------------
(***************************************************************************)
(* The lineage verifier (tools/verify_lineage.py).  A bundle is a sequence *)
(* of generations, the subject first; a generation is                      *)
(*     [cert, revoked, advisory]                                           *)
(* cert a certificate [birth, child, parents, until, genuine] or Null,     *)
(* revoked the flag and advisory the verdict (or Null) the server wrote    *)
(* next to it.  child is the content hash of the newborn's memory (Null    *)
(* for a claim that has none) and parents the hashes in its evidence.      *)
(***************************************************************************)
EXTENDS Naturals, Sequences

CONSTANT Null

\* verify(env, offline=True): the signatures hold and the window is not over.
Verifies(cert, now) == cert.genuine /\ (cert.until = Null \/ now <= cert.until)

\* The generations that carry an envelope.
Certified(bundle) == {i \in DOMAIN bundle : bundle[i].cert # Null}

\* One set for the whole bundle.
ParentHashes(bundle) == UNION {bundle[i].cert.parents : i \in Certified(bundle)}

\* Mutant: one linked ancestor speaks for all.
Unlinked_All(bundle) ==
    IF \E i \in Certified(bundle) \ {1} : bundle[i].cert.child \in ParentHashes(bundle)
    THEN {} ELSE Certified(bundle) \ {1}
\* The ancestors with a hash that nobody's evidence names.
Unlinked(bundle) ==
    {i \in Certified(bundle) \ {1} :
        bundle[i].cert.child \notin ParentHashes(bundle) \cup {Null}}

\* The server said one thing and the signatures another.
Divergent(bundle, now) ==
    {i \in Certified(bundle) :
        bundle[i].advisory # Null /\ bundle[i].advisory # Verifies(bundle[i].cert, now)}

Flagged(bundle) == {i \in Certified(bundle) : bundle[i].revoked}

VerifyBundle(bundle, now) ==
    /\ bundle # <<>>
    /\ \A i \in DOMAIN bundle : bundle[i].cert # Null /\ Verifies(bundle[i].cert, now)
    /\ Divergent(bundle, now) = {}
    /\ Flagged(bundle) = {}
    /\ Unlinked(bundle) = {}
===============================================================================
