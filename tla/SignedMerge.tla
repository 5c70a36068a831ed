------------------------------ MODULE SignedMerge ------------------------------
(***************************************************************************)
(* Self-collapse (tools/signed_merge.py, §18i).  A signature is the pair   *)
(* of its key and the merge its holder read, <<collapses, terms>>; it      *)
(* verifies over whatever has the same message.                            *)
(* A merge is a record                                                     *)
(*     [collapses, terms, signatures]                                      *)
(* terms standing for reason and beacon round, and each entry of           *)
(* signatures being [did, sig]: the did it is filed under, and a signature.*)
(***************************************************************************)
EXTENDS Naturals, FiniteSets

\* Mutant: the set of keys is not among the signed bytes.
MergeMessage_Terms(collapses, terms) == [terms |-> terms]
MergeMessage(collapses, terms) == [collapses |-> collapses, terms |-> terms]

\* A signature counts if its signer is in the set and it verifies under it.
SignedBy(merge) ==
    {e.did : e \in {x \in merge.signatures :
        /\ x.did \in merge.collapses
        /\ x.sig.key = x.did
        /\ MergeMessage(x.sig.read[1], x.sig.read[2])
              = MergeMessage(merge.collapses, merge.terms)}}

MissingSignatures(merge) == merge.collapses \ SignedBy(merge)

MergeState(merge) ==
    CASE Cardinality(merge.collapses) < 2 -> "unsupported"
      [] Cardinality(merge.collapses) >= 2 /\ MissingSignatures(merge) = {} -> "collapsed"
      [] Cardinality(merge.collapses) >= 2 /\ MissingSignatures(merge) # {}
            /\ SignedBy(merge) # {} -> "attack"
      [] OTHER -> "incomplete"

\* verify_merge_monotone: a merged set can grow and never shrinks.
MergeMonotone(old, new) == old \subseteq new
===============================================================================
