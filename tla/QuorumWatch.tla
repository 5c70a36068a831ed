------------------------------ MODULE QuorumWatch ------------------------------
(***************************************************************************)
(* A quorum over time.  Seats are admitted one by one and declare where    *)
(* they derive from; the keys behind them belong to failure domains nobody *)
(* declares, and an operator may capture a key on the way; observers note  *)
(* epochs in which some keys answered and others failed; third parties     *)
(* name origins the committed manifest lacks; keys sign confessions, which *)
(* an assembler mixes into merges, and a relier accepts some.  What is     *)
(* read of all this is Independence, Reconcile and SignedMerge.            *)
(***************************************************************************)
EXTENDS Reconcile, SignedMerge

(***************************************************************************)
(* The quorums considered, one of which holds throughout a behaviour:      *)
(* candidates (seats, or signers with references into evidence), origins   *)
(* (all there are), evidence (of an envelope; Null for a bare quorum),     *)
(* manifest (its committed origins, or Null), domain (each key's failure   *)
(* domain), merges (pairs of a set of keys and terms that anyone may sign  *)
(* for), window and minEpochs (of reconcile), and four bounds: maxSeats,   *)
(* maxEpochs, maxCaptures and maxSigned.                                   *)
(***************************************************************************)
CONSTANT Quorums

ASSUME QuorumsAssumption ==
    /\ Null \notin Nat
    /\ \A q \in Quorums :
        /\ {q.maxSeats, q.maxEpochs, q.maxCaptures, q.maxSigned} \subseteq Nat
        /\ q.minEpochs \in Nat \ {0}
        /\ q.window \in Nat \cup {Null}
        /\ q.manifest # Null => IsFiniteSet(q.manifest)
        /\ \A m \in q.merges : m = <<m[1], m[2]>>

VARIABLES
    quorum,     \* the quorum considered
    seats,      \* the seats admitted, or the signers of the envelope
    fired,      \* the origins third parties have named
    domain,     \* the failure domain of each key
    settled,    \* the number of epochs recorded when a key was last captured
    ledger,     \* the epochs recorded
    signed,     \* the merge signatures in existence
    merged      \* the keys the relier knows to be one

vars == <<quorum, seats, fired, domain, settled, ledger, signed, merged>>

Keys == DOMAIN quorum.domain

\* The seats as independence counting sees them.
Seats == IF quorum.evidence = Null THEN seats ELSE Signers(seats, quorum.evidence)

TypeOK ==
    /\ quorum \in Quorums
    /\ seats \in Seq(quorum.candidates)
    /\ DOMAIN domain = Keys
    /\ ledger \in Seq(UNION {[S -> BOOLEAN] : S \in SUBSET Keys})
    /\ settled \in 0 .. Len(ledger)
    /\ signed \subseteq [key : Keys, read : quorum.merges]
    /\ merged \subseteq Keys

Init ==
    /\ quorum \in Quorums
    /\ seats = <<>> /\ ledger = <<>> /\ settled = 0
    /\ domain = quorum.domain
    /\ fired = {} /\ signed = {} /\ merged = {}

-------------------------------------------------------------------------------
(* Seats, origins and observation. *)

Join(c) ==
    /\ Len(seats) < quorum.maxSeats
    /\ seats' = Append(seats, c)
    /\ UNCHANGED <<quorum, fired, domain, settled, ledger, signed, merged>>

Fire(o) ==
    /\ quorum.manifest # Null
    /\ fired' = fired \cup {o}
    /\ UNCHANGED <<quorum, seats, domain, settled, ledger, signed, merged>>

\* Key k moves into the failure domain of another key.
Capture(k, other) ==
    /\ Cardinality({x \in Keys : domain[x] # quorum.domain[x]}) < quorum.maxCaptures
    /\ domain[k] # domain[other]
    /\ domain' = [domain EXCEPT ![k] = domain[other]]
    /\ settled' = Len(ledger)
    /\ UNCHANGED <<quorum, seats, fired, ledger, signed, merged>>

\* An epoch in which the domains in down fail, and some keys are looked at.
Record(observed, down) ==
    /\ Len(ledger) < quorum.maxEpochs
    /\ ledger' = Append(ledger, [k \in observed |-> domain[k] \in down])
    /\ UNCHANGED <<quorum, seats, fired, domain, settled, signed, merged>>

-------------------------------------------------------------------------------
(* Self-collapse. *)

Confess(k, m) ==
    /\ Cardinality(signed) < quorum.maxSigned
    /\ signed' = signed \cup {[key |-> k, read |-> m]}
    /\ UNCHANGED <<quorum, seats, fired, domain, settled, ledger, merged>>

\* A merge put together from signatures in existence, each filed under a did
\* its assembler chooses.
Assembled(m, label) ==
    [collapses |-> m[1], terms |-> m[2],
     signatures |-> {[did |-> label[s], sig |-> s] : s \in DOMAIN label}]

Accept(merge) ==
    /\ MergeState(merge) = "collapsed"
    /\ MergeMonotone(merged, merge.collapses)
    /\ merged' = merge.collapses
    /\ UNCHANGED <<quorum, seats, fired, domain, settled, ledger, signed>>

Next ==
    \/ \E c \in quorum.candidates : Join(c)
    \/ \E o \in quorum.origins : Fire(o)
    \/ \E k, other \in Keys : Capture(k, other)
    \/ \E observed \in SUBSET Keys, down \in SUBSET {domain[k] : k \in Keys} :
          /\ Cardinality(observed) >= 2
          /\ Record(observed, down)
    \/ \E k \in Keys, m \in quorum.merges : Confess(k, m)
    \/ \E m \in quorum.merges, label \in [signed -> Keys] : Accept(Assembled(m, label))

Spec == Init /\ [][Next]_vars

-------------------------------------------------------------------------------
(* Properties. *)

\* The components of the graph "shares an origin", without order or union.
Sharing(i, j) == Seats[i].origins \cap Seats[j].origins # {}
Closed(S) == \A i \in S, j \in Disclosed(Seats) : Sharing(i, j) => j \in S
Components ==
    {S \in (SUBSET Disclosed(Seats)) \ {{}} :
        Closed(S) /\ \A T \in SUBSET S : Closed(T) => T \in {{}, S}}

(* The union-find, which meets the seats one by one and looks at the first *)
(* owner of each origin only, finds the connected components of the        *)
(* sharing graph, whatever the order and however seats bridge clusters.    *)
CountIsComponents == Clusters(Seats) = Components

(* admits_independence (§11): the count rises exactly for a candidate that *)
(* discloses and shares no origin with any incumbent; a bridging candidate *)
(* never pays.  And nobody whose birth no accountable party attests raises *)
(* the accountable count, whatever clusters they join.                     *)
AdmissionPays ==
    quorum.evidence = Null =>
        \A c \in quorum.candidates :
            /\ Admits(seats, c) <=>
                    /\ c.origins # {}
                    /\ \A i \in DOMAIN seats : c.origins \cap seats[i].origins = {}
            /\ c.grade # "named" =>
                    Cardinality(Earning(Append(seats, c), "named"))
                        <= Cardinality(Earning(seats, "named"))

(* §10 caps §8: while the coverage of an envelope stands as enumerated, no *)
(* more witnesses can be read off its signatures than the committed        *)
(* manifest has origins.                                                   *)
EnumeratedCapsWitnesses ==
    quorum.evidence # Null
        /\ CoverageState(quorum.evidence, quorum.manifest, fired) = "origins_enumerated"
    => Witnesses(seats, quorum.evidence) <= Cardinality(quorum.manifest)

Floor(cluster) == FloorBlocks(cluster, Recent(ledger, quorum.window), quorum.minEpochs)

\* The window holds no epoch from before the last capture (a window of 0 is the
\* whole history).
CaptureSettled ==
    \/ settled = 0
    \/ quorum.window \notin {Null, 0} /\ Len(ledger) - settled >= quorum.window

(* Reconciliation (§18): keys that share a failure domain, and have done   *)
(* so for the whole window, are one in the floor, whatever their seats     *)
(* declare, whatever was or was not observed of them, whoever else joins,  *)
(* and however the declared clusters came out; a quorum that is all of one *)
(* domain raises the alarm, in its declarations or in the observations.    *)
CapturedReadsAsOne ==
    CaptureSettled =>
        \A cluster \in KeyClusters(Seats) :
            /\ \A a, b \in DOMAIN cluster :
                    domain[a] = domain[b] =>
                        \E blk \in Floor(cluster) : {cluster[a], cluster[b]} \subseteq blk
            /\ (Len(seats) >= 2 /\ Cardinality({domain[k] : k \in DOMAIN cluster}) = 1) =>
                    \/ CapturedQuorum(Seats)
                    \/ Captured(Seats, cluster, Recent(ledger, quorum.window), quorum.minEpochs)

(* Without a window the floor is a ratchet: one more epoch splits blocks   *)
(* or leaves them, and never merges two that a divergence had split.       *)
FloorOnlySplits ==
    [][ (quorum.window = Null /\ UNCHANGED <<quorum, seats>>) =>
            \A cluster \in KeyClusters(Seats) :
                \A after \in Floor(cluster)' : \E blk \in Floor(cluster) : after \subseteq blk
      ]_vars

(* §18i: keys a relier holds to be one have each signed for that set,      *)
(* under the same terms: nobody is merged by others, or by a signature     *)
(* given for another merge.                                                *)
CollapseIsMutual ==
    merged # {} =>
        \E m \in quorum.merges :
            m[1] = merged /\ \A k \in merged : [key |-> k, read |-> m] \in signed
===============================================================================
