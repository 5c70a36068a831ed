------------------------------- MODULE Reconcile -------------------------------
(***************************************************************************)
(* Declared independence against observed co-movement (tools/              *)
(* reconcile_independence.py, §18).  A ledger is the sequence of epochs in *)
(* the order of their numbers, each a function from the keys observed in   *)
(* it to whether they failed.                                              *)
(***************************************************************************)
EXTENDS Independence

-------------------------------------------------------------------------------
(* Declared clusters: a second union-find over origins, which never joins  *)
(* two clusters.  A seat takes the cluster of one owner of its origins,    *)
(* the first that the iteration over a set of strings meets: that order    *)
(* changes from one process to the next, so every owner is possible.       *)

\* A cluster is named by the seat that opened it.
DeclaredMaps(seats) ==
    {f \in [Disclosed(seats) -> Disclosed(seats)] :
        \A n \in Disclosed(seats) :
            LET hits == {f[m] : m \in OwnersOf(seats, n) \ {n}}
            IN  IF hits = {} THEN f[n] = n ELSE f[n] \in hits}

\* By key: the last seat of a key overwrites its earlier ones.
KeyCluster(seats, f) ==
    [k \in {seats[n].key : n \in Disclosed(seats)} |->
        f[Max({n \in Disclosed(seats) : seats[n].key = k})]]

KeyClusters(seats) == {KeyCluster(seats, f) : f \in DeclaredMaps(seats)}

-------------------------------------------------------------------------------
(* Observation. *)

\* Mutant: the first epochs are kept instead of the last.
Recent_Oldest(ledger, window) ==
    IF window = Null \/ window = 0 \/ window >= Len(ledger) THEN ledger
    ELSE SubSeq(ledger, 1, window)
\* obs[-window:], which is the whole history for a window of 0.
Recent(ledger, window) ==
    IF window = Null \/ window = 0 \/ window >= Len(ledger) THEN ledger
    ELSE SubSeq(ledger, Len(ledger) - window + 1, Len(ledger))

\* The epochs that observed both keys, and those in which one of them failed.
Common(obs, pair) == {e \in DOMAIN obs : pair \subseteq DOMAIN obs[e]}
Differential(obs, pair) ==
    {e \in Common(obs, pair) : \E a, b \in pair : obs[e][a] # obs[e][b]}

\* Mutant: the last common epoch decides.
Verdict_Latest(obs, pair, minEpochs) ==
    CASE Cardinality(Common(obs, pair)) < minEpochs -> "unobserved"
      [] Cardinality(Common(obs, pair)) >= minEpochs
            /\ Max(Common(obs, pair)) \notin Differential(obs, pair) -> "refuted"
      [] OTHER -> "unrefuted"
Verdict(obs, pair, minEpochs) ==
    CASE Cardinality(Common(obs, pair)) < minEpochs -> "unobserved"
      [] Cardinality(Common(obs, pair)) >= minEpochs /\ Differential(obs, pair) = {} -> "refuted"
      [] OTHER -> "unrefuted"

\* The pairs with something declared to refute: keys of different clusters.
Pairs(cluster) ==
    {p \in {{a, b} : a, b \in DOMAIN cluster} : \E a, b \in p : cluster[a] # cluster[b]}

-------------------------------------------------------------------------------
(* The three counts: blocks of clusters, of which pairs merge some. *)

MergedBy(cluster, pairs) ==
    FoldSet(LAMBDA p, blocks : Merge(blocks, {cluster[k] : k \in p}),
            {{cluster[k]} : k \in DOMAIN cluster}, pairs)

PairsThat(cluster, obs, minEpochs, verdicts) ==
    {p \in Pairs(cluster) : Verdict(obs, p, minEpochs) \in verdicts}

UnrefutedBlocks(cluster, obs, minEpochs) ==
    MergedBy(cluster, PairsThat(cluster, obs, minEpochs, {"refuted"}))

\* Mutant: the second pass of merges is left out.
FloorBlocks_Refuted(cluster, obs, minEpochs) == UnrefutedBlocks(cluster, obs, minEpochs)
FloorBlocks(cluster, obs, minEpochs) ==
    MergedBy(cluster, PairsThat(cluster, obs, minEpochs, {"refuted", "unobserved"}))

\* At least two declared seats, and observation supports one at most.
Captured(seats, cluster, obs, minEpochs) ==
    /\ Effective(seats) >= 2
    /\ Cardinality(FloorBlocks(cluster, obs, minEpochs)) <= 1
===============================================================================
