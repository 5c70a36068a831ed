----------------------------- MODULE QuorumProofs -----------------------------
(***************************************************************************)
(* Theorems about QuorumWatch, for every set of quorums: any number of     *)
(* keys, seats, epochs, captures, merges and signatures.                   *)
(***************************************************************************)
EXTENDS QuorumWatch, TLAPS, FiniteSetTheorems, SequenceTheorems, NaturalsInduction,
        WellFoundedInduction

-------------------------------------------------------------------------------
(* Types. *)

Epoch == UNION {[S -> BOOLEAN] : S \in SUBSET Keys}

\* What is recorded of an epoch: of the keys looked at, which ones failed.
LEMMA RecordIsEpoch ==
  ASSUME NEW observed \in SUBSET Keys, NEW down
  PROVE  [k \in observed |-> domain[k] \in down] \in Epoch
<1>1. [k \in observed |-> domain[k] \in down] \in [observed -> BOOLEAN]
  OBVIOUS
<1> QED
  BY <1>1 DEF Epoch

LEMMA QuorumTypesStep == TypeOK /\ [Next]_vars => TypeOK'
<1> SUFFICES ASSUME TypeOK, [Next]_vars PROVE TypeOK'
  OBVIOUS
<1>0. ledger \in Seq(Epoch)
  BY DEF TypeOK, Epoch
<1>1. ASSUME NEW c \in quorum.candidates, Join(c) PROVE TypeOK'
  BY <1>1 DEF Join, TypeOK, Keys
<1>2. ASSUME NEW o \in quorum.origins, Fire(o) PROVE TypeOK'
  BY <1>2 DEF Fire, TypeOK, Keys
<1>3. ASSUME NEW k \in Keys, NEW other \in Keys, Capture(k, other) PROVE TypeOK'
  <2>1. UNCHANGED <<quorum, seats, fired, ledger, signed, merged>> /\ settled' = Len(ledger)
    BY <1>3 DEF Capture
  <2>2. DOMAIN domain' = Keys
    BY <1>3 DEF Capture, TypeOK
  <2>3. Keys' = Keys /\ Epoch' = Epoch
    BY <2>1 DEF Keys, Epoch
  <2>4. settled' \in 0 .. Len(ledger')
    BY <1>0, <2>1
  <2> QED
    BY <1>0, <2>1, <2>2, <2>3, <2>4 DEF TypeOK, Epoch
<1>4. ASSUME NEW observed \in SUBSET Keys, NEW down, Record(observed, down) PROVE TypeOK'
  <2> DEFINE e == [k \in observed |-> domain[k] \in down]
  <2>a. e \in Epoch /\ ledger' = Append(ledger, e)
    BY <1>4, RecordIsEpoch DEF Record
  <2> HIDE DEF e
  <2>1. ledger' \in Seq(Epoch) /\ Len(ledger') = Len(ledger) + 1
    BY <1>0, <2>a
  <2>2. settled' \in 0 .. Len(ledger')
    BY <1>0, <1>4, <2>1 DEF Record, TypeOK
  <2>3. Epoch' = Epoch /\ Keys' = Keys
    BY <1>4 DEF Record, Epoch, Keys
  <2> QED
    BY <1>4, <2>1, <2>2, <2>3 DEF Record, TypeOK, Epoch
<1>5. ASSUME NEW k \in Keys, NEW m \in quorum.merges, Confess(k, m) PROVE TypeOK'
  BY <1>5 DEF Confess, TypeOK, Keys
<1>6. ASSUME NEW m \in quorum.merges, NEW label \in [signed -> Keys],
             Accept(Assembled(m, label))
      PROVE  TypeOK'
  <2>1. MissingSignatures(Assembled(m, label)) = {}
    BY <1>6 DEF Accept, MergeState
  <2>2. merged' = m[1] /\ UNCHANGED <<quorum, seats, fired, domain, settled, ledger, signed>>
    BY <1>6 DEF Accept, Assembled
  <2>3. m[1] \subseteq Keys
    BY <2>1 DEF MissingSignatures, SignedBy, Assembled
  <2> QED
    BY <2>2, <2>3 DEF TypeOK, Keys
<1>7. CASE UNCHANGED vars
  BY <1>7 DEF vars, TypeOK, Keys
<1> QED
  BY <1>1, <1>2, <1>3, <1>4, <1>5, <1>6, <1>7 DEF Next

LEMMA QuorumInit == Init => TypeOK /\ CollapseIsMutual
<1> SUFFICES ASSUME Init PROVE TypeOK /\ CollapseIsMutual
  OBVIOUS
<1>1. ledger \in Seq(Epoch) /\ Len(ledger) = 0 /\ seats \in Seq(quorum.candidates)
  BY DEF Init
<1> QED
  BY <1>1 DEF Init, TypeOK, Epoch, Keys, CollapseIsMutual

(* Type correctness of a quorum and of all that is recorded of it.         *)
THEOREM QuorumTypes == Spec => []TypeOK
BY QuorumInit, QuorumTypesStep, PTL DEF Spec

-------------------------------------------------------------------------------
(* Self-collapse. *)

\* Two pairs with one message are one merge.
LEMMA MessageNamesMerge ==
  ASSUME NEW q \in Quorums, NEW m \in q.merges, NEW n \in q.merges,
         MergeMessage(m[1], m[2]) = MergeMessage(n[1], n[2])
  PROVE  m = n
<1>1. m[1] = n[1] /\ m[2] = n[2]
  BY DEF MergeMessage
<1>2. m = <<m[1], m[2]>> /\ n = <<n[1], n[2]>>
  BY QuorumsAssumption
<1> QED
  BY <1>1, <1>2

\* A merge assembled out of signatures in existence collapses only if each key in
\* it has signed this very merge, under whatever dids the assembler filed them.
LEMMA CollapsedIsSigned ==
  ASSUME TypeOK, NEW m \in quorum.merges, NEW label \in [signed -> Keys],
         MergeState(Assembled(m, label)) = "collapsed"
  PROVE  \A k \in m[1] : [key |-> k, read |-> m] \in signed
<1> DEFINE merge == Assembled(m, label)
<1>1. merge.collapses = m[1] /\ merge.terms = m[2]
      /\ merge.signatures = {[did |-> label[s], sig |-> s] : s \in signed}
  BY DEF Assembled
<1>2. MissingSignatures(merge) = {}
  BY DEF MergeState
<1>3. SUFFICES ASSUME NEW k \in m[1] PROVE [key |-> k, read |-> m] \in signed
  OBVIOUS
<1>4. k \in SignedBy(merge)
  BY <1>1, <1>2 DEF MissingSignatures
<1>5. PICK e \in merge.signatures :
        /\ e.did = k /\ e.sig.key = e.did
        /\ MergeMessage(e.sig.read[1], e.sig.read[2]) = MergeMessage(m[1], m[2])
  BY <1>1, <1>4 DEF SignedBy
<1>6. PICK s \in signed : e = [did |-> label[s], sig |-> s]
  BY <1>1, <1>5
<1>7. s \in [key : Keys, read : quorum.merges] /\ s.key = k
  BY <1>5, <1>6 DEF TypeOK
<1>8. s.read = m
  BY <1>5, <1>6, <1>7, MessageNamesMerge DEF TypeOK
<1>9. s = [key |-> k, read |-> m]
  BY <1>7, <1>8
<1> QED
  BY <1>9

LEMMA CollapseStep == TypeOK /\ CollapseIsMutual /\ [Next]_vars => CollapseIsMutual'
<1> SUFFICES ASSUME TypeOK, CollapseIsMutual, [Next]_vars PROVE CollapseIsMutual'
  OBVIOUS
<1>1. quorum' = quorum /\ signed \subseteq signed'
  BY DEF Next, vars, Join, Fire, Capture, Record, Confess, Accept
<1>2. CASE merged' = merged
  BY <1>1, <1>2 DEF CollapseIsMutual
<1>3. ASSUME NEW m \in quorum.merges, NEW label \in [signed -> Keys],
             Accept(Assembled(m, label))
      PROVE  CollapseIsMutual'
  <2>1. merged' = m[1] /\ MergeState(Assembled(m, label)) = "collapsed"
    BY <1>3 DEF Accept, Assembled
  <2>2. \A k \in m[1] : [key |-> k, read |-> m] \in signed
    BY <2>1, CollapsedIsSigned
  <2> QED
    BY <1>1, <2>1, <2>2 DEF CollapseIsMutual
<1>4. merged' = merged
        \/ \E m \in quorum.merges, label \in [signed -> Keys] : Accept(Assembled(m, label))
  BY DEF Next, vars, Join, Fire, Capture, Record, Confess
<1> QED
  BY <1>2, <1>3, <1>4

(* §18i: whoever a relier holds to be one has each signed for that very    *)
(* set and terms, however many merges were signed for and however an       *)
(* assembler mixed and labelled their signatures.                          *)
THEOREM CollapseMutual == Spec => []CollapseIsMutual
<1>1. TypeOK /\ CollapseIsMutual /\ [Next]_vars => (TypeOK /\ CollapseIsMutual)'
  BY QuorumTypesStep, CollapseStep
<1> QED
  BY <1>1, QuorumInit, PTL DEF Spec
-------------------------------------------------------------------------------
(* The components of a sharing graph, and one more seat. *)

Shares(s, i, j) == s[i].origins \cap s[j].origins # {}

ClosedIn(s, D, T) == \A i \in T, j \in D : Shares(s, i, j) => j \in T

\* The blocks of B are the connected components of the seats D.
AreComponents(B, s, D) ==
  /\ \A i \in D : \E b \in B : i \in b
  /\ \A b \in B :
      /\ b # {} /\ b \subseteq D /\ ClosedIn(s, D, b)
      /\ \A T \in SUBSET b : T # {} /\ ClosedIn(s, D, T) => T = b

\* A component meets nothing closed but what contains it.
LEMMA ComponentsMeet ==
  ASSUME NEW s, NEW D, NEW B, AreComponents(B, s, D), NEW b \in B,
         NEW T, ClosedIn(s, D, T), b \cap T # {}
  PROVE  b \subseteq T
<1>1. ClosedIn(s, D, b \cap T)
  BY DEF AreComponents, ClosedIn
<1>2. b \cap T = b
  BY <1>1 DEF AreComponents
<1> QED
  BY <1>2

\* So components are disjoint.
LEMMA ComponentsDisjoint ==
  ASSUME NEW s, NEW D, NEW B, AreComponents(B, s, D), NEW b \in B, NEW c \in B,
         b \cap c # {}
  PROVE  b = c
<1>1. ClosedIn(s, D, b) /\ ClosedIn(s, D, c)
  BY DEF AreComponents
<1>2. b \subseteq c /\ c \subseteq b
  BY <1>1, ComponentsMeet
<1> QED
  BY <1>2

\* There is one set of components.
LEMMA ComponentsUnique ==
  ASSUME NEW s, NEW D, NEW B, NEW C, AreComponents(B, s, D), AreComponents(C, s, D)
  PROVE  B = C
<1>1. ASSUME NEW X, NEW Y, AreComponents(X, s, D), AreComponents(Y, s, D), NEW b \in X
      PROVE  b \in Y
  <2>1. PICK i \in b : i \in D
    BY <1>1 DEF AreComponents
  <2>2. PICK c \in Y : i \in c
    BY <1>1, <2>1 DEF AreComponents
  <2>3. ClosedIn(s, D, b) /\ ClosedIn(s, D, c)
    BY <1>1 DEF AreComponents
  <2>4. b \subseteq c /\ c \subseteq b
    BY <1>1, <2>1, <2>2, <2>3, ComponentsMeet
  <2> QED
    BY <2>2, <2>4
<1> QED
  BY <1>1

\* They depend on the origins of these seats only.
LEMMA ComponentsOfOrigins ==
  ASSUME NEW s, NEW t, NEW D, NEW B, \A i \in D : s[i].origins = t[i].origins,
         AreComponents(B, s, D)
  PROVE  AreComponents(B, t, D)
<1>1. \A T \in SUBSET D : ClosedIn(s, D, T) <=> ClosedIn(t, D, T)
  BY DEF ClosedIn, Shares
<1>2. \A b \in B : b \in SUBSET D /\ SUBSET b \subseteq SUBSET D
  BY DEF AreComponents
<1> QED
  BY <1>1, <1>2 DEF AreComponents

\* A seat n joins: touched is n and some earlier seats it shares an origin with,
\* one at least in each component that it shares an origin with.
Touches(s, D, n, touched) ==
  /\ n \notin D /\ n \in touched /\ touched \subseteq D \cup {n}
  /\ \A w \in touched \ {n} : Shares(s, n, w)
  /\ \A j \in D : Shares(s, n, j) => \E w \in touched \cap D : Shares(s, j, w)

\* Merging the blocks that touched meets keeps the blocks the components.
LEMMA MergeKeepsComponents ==
  ASSUME NEW s, NEW D, NEW B, AreComponents(B, s, D),
         NEW n, NEW touched, Touches(s, D, n, touched)
  PROVE  AreComponents(Merge(B, touched), s, D \cup {n})
<1> DEFINE met == {b \in B : b \cap touched # {}}
           new == touched \cup UNION met
           E == D \cup {n}
<1>1. Merge(B, touched) = (B \ met) \cup {new}
  BY DEF Merge
<1>2. \A i, j : Shares(s, i, j) <=> Shares(s, j, i)
  BY DEF Shares
<1>3. new = {n} \cup UNION met
  <2>1. \A w \in touched : w # n => \E b \in met : w \in b
    BY DEF AreComponents, Touches
  <2> QED
    BY <2>1 DEF Touches
<1>4. ASSUME NEW b \in B, NEW i \in b, Shares(s, i, n) PROVE b \in met
  <2>1. PICK w \in touched \cap D : Shares(s, i, w)
    BY <1>2, <1>4 DEF AreComponents, Touches
  <2>2. w \in b
    BY <1>4, <2>1 DEF AreComponents, ClosedIn
  <2> QED
    BY <2>1, <2>2
<1>5. \A i \in E : \E b \in Merge(B, touched) : i \in b
  <2>1. ASSUME NEW i \in D PROVE \E b \in Merge(B, touched) : i \in b
    <3>1. PICK b \in B : i \in b
      BY DEF AreComponents
    <3>2. CASE b \in met
      <4>1. i \in new /\ new \in Merge(B, touched)
        BY <1>1, <3>1, <3>2
      <4> QED
        BY <4>1
    <3>3. CASE b \notin met
      BY <1>1, <3>1, <3>3
    <3> QED
      BY <3>2, <3>3
  <2>2. n \in new /\ new \in Merge(B, touched)
    BY <1>1, <1>3
  <2> HIDE DEF new
  <2> QED
    BY <2>1, <2>2
<1>6. ASSUME NEW b \in B \ met
      PROVE  /\ b # {} /\ b \subseteq E /\ ClosedIn(s, E, b)
             /\ \A T \in SUBSET b : T # {} /\ ClosedIn(s, E, T) => T = b
  <2>1. b # {} /\ b \subseteq D /\ ClosedIn(s, D, b)
        /\ \A T \in SUBSET b : T # {} /\ ClosedIn(s, D, T) => T = b
    BY DEF AreComponents
  <2>2. ClosedIn(s, E, b)
    BY <1>4, <2>1 DEF ClosedIn
  <2>3. \A T \in SUBSET b : ClosedIn(s, E, T) => ClosedIn(s, D, T)
    BY DEF ClosedIn
  <2> QED
    BY <2>1, <2>2, <2>3
<1>7. new # {} /\ new \subseteq E
  BY <1>3 DEF AreComponents
<1>8. ClosedIn(s, E, new)
  <2>1. ASSUME NEW i \in new, NEW j \in E, Shares(s, i, j) PROVE j \in new
    <3>1. CASE j = n
      BY <1>3, <3>1
    <3>2. CASE j # n /\ i = n
      <4>1. PICK b \in B : j \in b
        BY <3>2 DEF AreComponents
      <4>2. b \in met
        BY <1>2, <1>4, <2>1, <3>2, <4>1
      <4> QED
        BY <4>1, <4>2
    <3>3. CASE j # n /\ i # n
      <4>1. PICK b \in met : i \in b
        BY <1>3, <3>3
      <4>2. j \in b
        BY <2>1, <3>3, <4>1 DEF AreComponents, ClosedIn
      <4> QED
        BY <4>1, <4>2
    <3> QED
      BY <3>1, <3>2, <3>3
  <2> QED
    BY <2>1 DEF ClosedIn
<1>9. ASSUME NEW T \in SUBSET new, T # {}, ClosedIn(s, E, T) PROVE T = new
  <2>0. ClosedIn(s, D, T)
    BY <1>9 DEF ClosedIn
  <2>1. \A b \in met : b \cap T # {} => b \subseteq T
    BY <2>0, ComponentsMeet
  <2>2. \A b \in met : \E w \in b \cap touched : Shares(s, n, w) /\ w \in D
    BY DEF AreComponents, Touches
  <2>3. n \in T
    <3>1. PICK i \in T : i \in new
      BY <1>9
    <3>2. CASE i # n
      <4>1. PICK b \in met : i \in b
        BY <1>3, <3>1, <3>2
      <4>2. PICK w \in b : Shares(s, w, n)
        BY <1>2, <2>2
      <4>3. w \in T
        BY <2>1, <3>1, <4>1, <4>2
      <4> QED
        BY <1>9, <4>2, <4>3 DEF ClosedIn
    <3> QED
      BY <3>1, <3>2
  <2>4. ASSUME NEW b \in met PROVE b \subseteq T
    <3>1. PICK w \in b : Shares(s, n, w) /\ w \in D
      BY <2>2
    <3>2. w \in T
      BY <1>9, <2>3, <3>1 DEF ClosedIn
    <3> QED
      BY <2>1, <3>1, <3>2
  <2> QED
    BY <1>3, <2>3, <2>4
<1> HIDE DEF met, new
<1>10. ASSUME NEW b \in Merge(B, touched)
       PROVE  /\ b # {} /\ b \subseteq E /\ ClosedIn(s, E, b)
              /\ \A T \in SUBSET b : T # {} /\ ClosedIn(s, E, T) => T = b
  <2>1. CASE b = new
    BY <1>7, <1>8, <1>9, <2>1
  <2>2. CASE b \in B \ met
    BY <1>6, <2>2
  <2> QED
    BY <1>1, <2>1, <2>2
<1> HIDE DEF E
<1>11. AreComponents(Merge(B, touched), s, E)
  BY <1>5, <1>10 DEF AreComponents
<1> QED
  BY <1>11 DEF E
-------------------------------------------------------------------------------
(* The union-find as a fold. *)

\* A non-empty set of naturals has a least element.
LEMMA NatMin ==
  ASSUME NEW T, T \subseteq Nat, T # {}
  PROVE  \E n \in T : \A m \in T : n <= m
<1>1. PICK n \in T : \A m \in T : ~ (<<m, n>> \in OpToRel(<, Nat))
  BY WFMin, NatLessThanWellFounded
<1>2. ASSUME NEW m \in T PROVE n <= m
  <2>1. ~ (m < n)
    BY <1>1 DEF OpToRel
  <2> QED
    BY <2>1
<1> QED
  BY <1>2

\* Induction on the naturals, of a set.
LEMMA AllNaturals ==
  ASSUME NEW T, 0 \in T, \A n \in Nat : n \in T => n + 1 \in T
  PROVE  Nat \subseteq T
<1>1. SUFFICES ASSUME (Nat \ T) # {} PROVE FALSE
  OBVIOUS
<1>2. PICK n \in Nat \ T : \A m \in Nat \ T : n <= m
  BY <1>1, NatMin
<1>3. n - 1 \in Nat /\ n - 1 < n
  BY <1>2
<1>4. n - 1 \in T
  BY <1>2, <1>3
<1>5. (n - 1) + 1 = n
  BY <1>2
<1> QED
  BY <1>2, <1>3, <1>4, <1>5

\* One seat of the fold, after the ones before it.
ClusterStep(s, after, n) ==
  IF n = 0 THEN {}
  ELSE IF n \notin Disclosed(s) THEN after[n - 1]
  ELSE Merge(after[n - 1], {n} \cup OwnersOf(s, n))

\* The fold can be carried out to any length.
LEMMA ClustersFoldExists ==
  ASSUME NEW s, NEW L \in Nat
  PROVE  \E after : after = [n \in 0 .. L |-> ClusterStep(s, after, n)]
<1> DEFINE T == {k \in Nat : \E f : f = [n \in 0 .. k |-> ClusterStep(s, f, n)]}
<1>1. 0 \in T
  <2> DEFINE f == [n \in 0 .. 0 |-> {}]
  <2>1. \A n \in 0 .. 0 : ClusterStep(s, f, n) = {}
    BY DEF ClusterStep
  <2>2. f = [n \in 0 .. 0 |-> ClusterStep(s, f, n)]
    BY <2>1
  <2> QED
    BY <2>2
<1>2. ASSUME NEW k \in Nat, k \in T PROVE k + 1 \in T
  <2>1. PICK f : f = [n \in 0 .. k |-> ClusterStep(s, f, n)]
    BY <1>2
  <2> DEFINE g == [n \in 0 .. k + 1 |-> ClusterStep(s, f, n)]
  <2>2. \A n \in 0 .. k : n \in 0 .. k + 1 /\ g[n] = f[n]
    BY <2>1
  <2>3. ASSUME NEW n \in 0 .. k + 1 PROVE ClusterStep(s, g, n) = ClusterStep(s, f, n)
    <3>1. n # 0 => n - 1 \in 0 .. k
      OBVIOUS
    <3> QED
      BY <2>2, <3>1 DEF ClusterStep
  <2>4. g = [n \in 0 .. k + 1 |-> ClusterStep(s, g, n)]
    BY <2>3
  <2> HIDE DEF g
  <2> QED
    BY <2>4
<1> HIDE DEF T
<1>3. L \in T
  BY <1>1, <1>2, AllNaturals
<1> QED
  BY <1>3 DEF T

\* Clusters is where the fold ends.
LEMMA ClustersFold ==
  ASSUME NEW s, Len(s) \in Nat
  PROVE  \E after : /\ after = [n \in 0 .. Len(s) |-> ClusterStep(s, after, n)]
                    /\ Clusters(s) = after[Len(s)]
<1> DEFINE after == CHOOSE a : a = [n \in 0 .. Len(s) |-> ClusterStep(s, a, n)]
<1>1. \E a : a = [n \in 0 .. Len(s) |-> ClusterStep(s, a, n)]
  BY ClustersFoldExists
<1>2. after = [n \in 0 .. Len(s) |-> ClusterStep(s, after, n)]
  BY Zenon, <1>1
<1>3. Clusters(s) = after[Len(s)]
  BY Zenon DEF Clusters, ClusterStep
<1> QED
  BY <1>2, <1>3

\* The disclosed seats up to the n-th, in the order in which they are met.
Met(s, n) == {i \in Disclosed(s) : i <= n}

\* The n-th seat touches the first owner of each of its origins: an earlier seat
\* that has the origin, or itself.
LEMMA OwnersTouch ==
  ASSUME NEW s, Len(s) \in Nat, DOMAIN s = 1 .. Len(s), NEW n \in Disclosed(s)
  PROVE  Touches(s, Met(s, n - 1), n, {n} \cup OwnersOf(s, n))
<1> DEFINE D == Met(s, n - 1)
           Have(o) == {i \in Disclosed(s) : o \in s[i].origins}
<1>1. Disclosed(s) \subseteq Nat /\ n \in Nat
  BY DEF Disclosed
<1>2. ASSUME NEW o, NEW j \in Have(o)
      PROVE  Owner(s, o) \in Have(o) /\ Owner(s, o) <= j
  <2>1. Have(o) \subseteq Nat /\ Have(o) # {}
    BY <1>1, <1>2
  <2>2. \E m \in Have(o) : \A l \in Have(o) : m <= l
    BY <2>1, NatMin
  <2> QED
    BY <1>2, <2>2 DEF Owner, Min
<1>3. ASSUME NEW w \in OwnersOf(s, n)
      PROVE  Shares(s, n, w) /\ w \in D \cup {n}
  <2>1. PICK o \in s[n].origins : w = Owner(s, o)
    BY DEF OwnersOf
  <2>2. w \in Have(o) /\ w <= n
    BY <1>2, <2>1
  <2> QED
    BY <1>1, <2>1, <2>2 DEF Shares, Met
<1>4. ASSUME NEW j \in D, Shares(s, n, j)
      PROVE  \E w \in OwnersOf(s, n) \cap D : Shares(s, j, w)
  <2>1. PICK o \in s[n].origins : o \in s[j].origins
    BY <1>4 DEF Shares
  <2>2. j \in Have(o) /\ j <= n - 1
    BY <2>1 DEF Met
  <2>3. Owner(s, o) \in Have(o) /\ Owner(s, o) <= j
    BY <1>2, <2>2
  <2>4. Owner(s, o) \in OwnersOf(s, n)
    BY <2>1 DEF OwnersOf
  <2>5. Owner(s, o) \in D
    BY <1>1, <2>2, <2>3 DEF Met
  <2>6. Shares(s, j, Owner(s, o))
    BY <2>1, <2>3 DEF Shares
  <2> QED
    BY <2>4, <2>5, <2>6
<1>5. n \notin D
  BY <1>1 DEF Met
<1> HIDE DEF D
<1> QED
  BY <1>3, <1>4, <1>5 DEF Touches, D

\* The union-find finds the components, whatever the order of the seats.
LEMMA FoldFindsComponents ==
  ASSUME NEW s, Len(s) \in Nat, DOMAIN s = 1 .. Len(s),
         NEW after, after = [n \in 0 .. Len(s) |-> ClusterStep(s, after, n)]
  PROVE  \A n \in 0 .. Len(s) : AreComponents(after[n], s, Met(s, n))
<1> DEFINE T == {k \in Nat : k <= Len(s) => AreComponents(after[k], s, Met(s, k))}
<1>0. Disclosed(s) \subseteq 1 .. Len(s)
  BY DEF Disclosed
<1>1. 0 \in T
  <2>1. after[0] = {} /\ Met(s, 0) = {}
    BY <1>0 DEF ClusterStep, Met
  <2> QED
    BY <2>1 DEF AreComponents
<1>2. ASSUME NEW k \in Nat, k \in T PROVE k + 1 \in T
  <2>1. SUFFICES ASSUME k + 1 <= Len(s)
                 PROVE  AreComponents(after[k + 1], s, Met(s, k + 1))
    OBVIOUS
  <2>2. AreComponents(after[k], s, Met(s, k))
    BY <1>2, <2>1
  <2>3. after[k + 1] = ClusterStep(s, after, k + 1) /\ (k + 1) - 1 = k /\ k + 1 # 0
    BY <2>1
  <2>4. CASE k + 1 \notin Disclosed(s)
    <3>1. after[k + 1] = after[k]
      BY <2>3, <2>4 DEF ClusterStep
    <3>2. Met(s, k + 1) = Met(s, k)
      BY <1>0, <2>4 DEF Met
    <3> QED
      BY <2>2, <3>1, <3>2
  <2>5. CASE k + 1 \in Disclosed(s)
    <3>1. after[k + 1] = Merge(after[k], {k + 1} \cup OwnersOf(s, k + 1))
      BY <2>3, <2>5 DEF ClusterStep
    <3>2. Touches(s, Met(s, k), k + 1, {k + 1} \cup OwnersOf(s, k + 1))
      BY <2>3, <2>5, OwnersTouch
    <3>3. Met(s, k + 1) = Met(s, k) \cup {k + 1}
      BY <1>0, <2>5 DEF Met
    <3> QED
      BY <2>2, <3>1, <3>2, <3>3, MergeKeepsComponents
  <2> QED
    BY <2>4, <2>5
<1> HIDE DEF T
<1>3. Nat \subseteq T
  BY <1>1, <1>2, AllNaturals
<1> QED
  BY <1>3 DEF T

\* What it ends with are the components of all disclosed seats.
LEMMA ClustersAreComponents ==
  ASSUME NEW s, Len(s) \in Nat, DOMAIN s = 1 .. Len(s)
  PROVE  AreComponents(Clusters(s), s, Disclosed(s))
<1>1. PICK after : /\ after = [n \in 0 .. Len(s) |-> ClusterStep(s, after, n)]
                   /\ Clusters(s) = after[Len(s)]
  BY ClustersFold
<1>2. AreComponents(after[Len(s)], s, Met(s, Len(s)))
  BY <1>1, FoldFindsComponents
<1>3. Met(s, Len(s)) = Disclosed(s)
  BY DEF Met, Disclosed
<1> QED
  BY <1>1, <1>2, <1>3

\* The seats are a sequence, for a bare quorum and for an envelope.
LEMMA SeatsDomain ==
  ASSUME TypeOK
  PROVE  /\ Len(seats) \in Nat /\ DOMAIN seats = 1 .. Len(seats)
         /\ Len(Seats) = Len(seats) /\ DOMAIN Seats = 1 .. Len(Seats)
<1>1. Len(seats) \in Nat /\ DOMAIN seats = 1 .. Len(seats)
  BY DEF TypeOK
<1>2. ASSUME NEW evidence
      PROVE  /\ Len(Signers(seats, evidence)) = Len(seats)
             /\ DOMAIN Signers(seats, evidence) = 1 .. Len(seats)
  <2> DEFINE e(i) == [key |-> seats[i].key, grade |-> seats[i].grade,
                      origins |-> Origins(seats[i].refs, evidence)]
  <2>1. Signers(seats, evidence) = [i \in 1 .. Len(seats) |-> e(i)]
    BY <1>1 DEF Signers
  <2>2. \A i \in 1 .. Len(seats) : e(i) \in {e(j) : j \in 1 .. Len(seats)}
    OBVIOUS
  <2> HIDE DEF e
  <2>3. [i \in 1 .. Len(seats) |-> e(i)] \in Seq({e(j) : j \in 1 .. Len(seats)})
    BY <1>1, <2>2
  <2> QED
    BY <1>1, <2>1, <2>3
<1> QED
  BY <1>1, <1>2 DEF Seats

\* The blocks of the union-find are what CountIsComponents calls components.
LEMMA CountStep == TypeOK => CountIsComponents
<1> SUFFICES ASSUME TypeOK PROVE Clusters(Seats) = Components
  BY DEF CountIsComponents
<1> DEFINE D == Disclosed(Seats)
           B == Clusters(Seats)
<1>1. AreComponents(B, Seats, D)
  BY SeatsDomain, ClustersAreComponents
<1>2. \A T : Closed(T) <=> ClosedIn(Seats, D, T)
  BY DEF Closed, ClosedIn, Sharing, Shares
<1>3. Components = {S \in (SUBSET D) \ {{}} :
                      ClosedIn(Seats, D, S)
                      /\ \A T \in SUBSET S : ClosedIn(Seats, D, T) => T \in {{}, S}}
  BY <1>2 DEF Components
<1> HIDE DEF D, B
<1>4. ASSUME NEW b \in B PROVE b \in Components
  BY <1>1, <1>3 DEF AreComponents
<1>5. ASSUME NEW S \in Components PROVE S \in B
  <2>1. /\ S # {} /\ S \subseteq D /\ ClosedIn(Seats, D, S)
        /\ \A T \in SUBSET S : ClosedIn(Seats, D, T) => T \in {{}, S}
    BY <1>3
  <2>2. PICK i \in S : TRUE
    BY <2>1
  <2>3. PICK b \in B : i \in b
    BY <1>1, <2>1 DEF AreComponents
  <2>4. b \subseteq S /\ ClosedIn(Seats, D, b) /\ b # {}
    BY <1>1, <2>1, <2>2, <2>3, ComponentsMeet DEF AreComponents
  <2> QED
    BY <2>1, <2>4
<1> QED
  BY <1>4, <1>5 DEF B

(* The union-find counts the connected components of the sharing graph,    *)
(* for any number of seats with any origins, in whatever order they came.  *)
THEOREM QuorumCountIsComponents == Spec => []CountIsComponents
BY QuorumTypes, CountStep, PTL

-------------------------------------------------------------------------------
(* One more seat. *)

\* There are finitely many clusters.
LEMMA ClustersFinite ==
  ASSUME NEW s, Len(s) \in Nat, DOMAIN s = 1 .. Len(s)
  PROVE  IsFiniteSet(Clusters(s)) /\ Effective(s) \in Nat
<1>1. AreComponents(Clusters(s), s, Disclosed(s)) /\ Disclosed(s) \subseteq 1 .. Len(s)
  BY ClustersAreComponents DEF Disclosed
<1>2. IsFiniteSet(SUBSET (1 .. Len(s)))
  <2>1. IsFiniteSet(1 .. Len(s))
    BY FS_Interval
  <2> QED
    BY <2>1, FS_SUBSET
<1>3. Clusters(s) \in SUBSET SUBSET (1 .. Len(s))
  BY <1>1 DEF AreComponents
<1>4. IsFiniteSet(Clusters(s))
  BY <1>2, <1>3, FS_Subset
<1> QED
  BY <1>4, FS_CardinalityType DEF Effective

\* The clusters of a roster with one more seat: the new seat is merged with what
\* its origins' owners are in, or discloses nothing and changes nothing.
LEMMA ClustersOfAppend ==
  ASSUME NEW X, NEW s \in Seq(X), NEW c \in X
  PROVE  LET t == Append(s, c)
             n == Len(s) + 1
         IN  /\ Len(t) \in Nat /\ DOMAIN t = 1 .. Len(t) /\ Len(t) = n
             /\ t[n] = c /\ \A i \in 1 .. Len(s) : t[i] = s[i]
             /\ c.origins = {} => Clusters(t) = Clusters(s)
             /\ c.origins # {} =>
                  /\ Clusters(t) = Merge(Clusters(s), {n} \cup OwnersOf(t, n))
                  /\ Touches(t, Disclosed(s), n, {n} \cup OwnersOf(t, n))
<1> DEFINE t == Append(s, c)
           n == Len(s) + 1
<1>1. /\ Len(s) \in Nat /\ DOMAIN s = 1 .. Len(s)
      /\ Len(t) = n /\ DOMAIN t = 1 .. Len(t) /\ Len(t) \in Nat
      /\ t[n] = c /\ \A i \in 1 .. Len(s) : t[i] = s[i]
  BY AppendProperties
<1> HIDE DEF t
<1>2. /\ AreComponents(Clusters(s), s, Disclosed(s))
      /\ AreComponents(Clusters(t), t, Disclosed(t))
  BY <1>1, ClustersAreComponents
<1>3. AreComponents(Clusters(s), t, Disclosed(s))
  <2>1. \A i \in Disclosed(s) : s[i].origins = t[i].origins
    BY <1>1 DEF Disclosed
  <2> QED
    BY <1>2, <2>1, ComponentsOfOrigins
<1>4. CASE c.origins = {}
  <2>1. Disclosed(t) = Disclosed(s)
    BY <1>1, <1>4 DEF Disclosed
  <2> QED
    BY <1>1, <1>2, <1>3, <1>4, <2>1, ComponentsUnique DEF t
<1>5. CASE c.origins # {}
  <2>1. /\ n \in Disclosed(t) /\ Disclosed(t) = Disclosed(s) \cup {n}
        /\ Met(t, n - 1) = Disclosed(s)
    BY <1>1, <1>5 DEF Disclosed, Met
  <2>2. Touches(t, Disclosed(s), n, {n} \cup OwnersOf(t, n))
    BY <1>1, <2>1, OwnersTouch
  <2>3. AreComponents(Merge(Clusters(s), {n} \cup OwnersOf(t, n)), t, Disclosed(t))
    BY <1>3, <2>1, <2>2, MergeKeepsComponents
  <2> QED
    BY <1>1, <1>2, <1>5, <2>2, <2>3, ComponentsUnique DEF t
<1> QED
  BY <1>4, <1>5

\* Merging takes away the blocks that are met and adds one.
LEMMA MergeCount ==
  ASSUME NEW B, IsFiniteSet(B), NEW n, \A b \in B : n \notin b, NEW touched, n \in touched
  PROVE  LET met == {b \in B : b \cap touched # {}}
         IN  /\ IsFiniteSet(met) /\ IsFiniteSet(Merge(B, touched))
             /\ Cardinality(Merge(B, touched)) = Cardinality(B) - Cardinality(met) + 1
<1> DEFINE met == {b \in B : b \cap touched # {}}
           new == touched \cup UNION met
<1>1. met \in SUBSET B /\ B \cap met = met
  OBVIOUS
<1>2. IsFiniteSet(met) /\ IsFiniteSet(B \ met)
      /\ Cardinality(B \ met) = Cardinality(B) - Cardinality(met)
  BY <1>1, FS_Subset, FS_Difference
<1>3. new \notin B \ met
  OBVIOUS
<1>4. Merge(B, touched) = (B \ met) \cup {new}
  BY DEF Merge
<1> HIDE DEF met, new
<1>5. IsFiniteSet((B \ met) \cup {new})
      /\ Cardinality((B \ met) \cup {new}) = Cardinality(B \ met) + 1
  BY <1>2, <1>3, FS_AddElement
<1> QED
  BY <1>2, <1>4, <1>5 DEF met

\* The count rises exactly for a seat that discloses and shares with nobody.
LEMMA AdmitsWhat ==
  ASSUME NEW X, NEW s \in Seq(X), NEW c \in X
  PROVE  Admits(s, c) <=> /\ c.origins # {}
                          /\ \A i \in DOMAIN s : c.origins \cap s[i].origins = {}
<1> DEFINE t == Append(s, c)
           n == Len(s) + 1
           B == Clusters(s)
           D == Disclosed(s)
           touched == {n} \cup OwnersOf(t, n)
           met == {b \in B : b \cap touched # {}}
<1>1. /\ t[n] = c /\ \A i \in 1 .. Len(s) : t[i] = s[i]
      /\ c.origins = {} => Clusters(t) = B
      /\ c.origins # {} => Clusters(t) = Merge(B, touched) /\ Touches(t, D, n, touched)
  BY ClustersOfAppend
<1>2. /\ Len(s) \in Nat /\ DOMAIN s = 1 .. Len(s) /\ D \subseteq 1 .. Len(s)
      /\ \A i \in 1 .. Len(s) \ D : s[i].origins = {}
  BY DEF Disclosed
<1>3. IsFiniteSet(B) /\ Cardinality(B) \in Nat /\ Effective(s) = Cardinality(B)
  BY <1>2, ClustersFinite, FS_CardinalityType DEF Effective
<1>4. AreComponents(B, s, D)
  BY <1>2, ClustersAreComponents
<1>5. Admits(s, c) <=> Cardinality(Clusters(t)) > Cardinality(B)
  BY DEF Admits, Effective
<1> HIDE DEF t
<1>6. CASE c.origins = {}
  <2>1. ~ (Cardinality(B) > Cardinality(B))
    BY <1>3
  <2> QED
    BY <1>1, <1>5, <1>6, <2>1
<1>7. CASE c.origins # {}
  <2>1. \A b \in B : n \notin b
    BY <1>2, <1>4 DEF AreComponents
  <2>2. /\ IsFiniteSet(met)
        /\ Cardinality(Clusters(t)) = Cardinality(B) - Cardinality(met) + 1
    <3>1. Clusters(t) = Merge(B, touched) /\ n \in touched
      BY <1>1, <1>7
    <3> HIDE DEF touched, B
    <3>2. /\ IsFiniteSet(met)
          /\ Cardinality(Merge(B, touched)) = Cardinality(B) - Cardinality(met) + 1
      BY <1>3, <2>1, <3>1, MergeCount
    <3> QED
      BY <3>1, <3>2
  <2>3. Cardinality(met) \in Nat /\ (Cardinality(met) = 0 <=> met = {})
    BY <2>2, FS_CardinalityType, FS_EmptySet
  <2>4. Admits(s, c) <=> met = {}
    <3> HIDE DEF met, B
    <3>1. Cardinality(Clusters(t)) > Cardinality(B) <=> Cardinality(met) = 0
      BY <1>3, <2>2, <2>3
    <3> QED
      BY <1>5, <2>3, <3>1
  <2>5. ASSUME NEW i \in DOMAIN s, c.origins \cap s[i].origins # {} PROVE met # {}
    <3>1. i \in D /\ Shares(t, n, i)
      BY <1>1, <1>2, <2>5 DEF Shares
    <3>2. PICK w \in touched \cap D : Shares(t, i, w)
      BY <1>1, <1>7, <3>1 DEF Touches
    <3>3. PICK b \in B : w \in b
      BY <1>4, <3>2 DEF AreComponents
    <3> QED
      BY <3>2, <3>3
  <2>6. ASSUME NEW b \in met
        PROVE  \E i \in DOMAIN s : c.origins \cap s[i].origins # {}
    <3>1. PICK w \in b : w \in touched /\ w \in D
      BY <1>4 DEF AreComponents
    <3>2. w # n /\ w \in DOMAIN s
      BY <1>2, <3>1
    <3>3. Shares(t, n, w)
      BY <1>1, <1>7, <3>1, <3>2 DEF Touches
    <3>4. c.origins \cap s[w].origins # {}
      BY <1>1, <1>2, <3>2, <3>3 DEF Shares
    <3> QED
      BY <3>2, <3>4
  <2> QED
    BY <1>7, <2>4, <2>5, <2>6
<1> QED
  BY <1>6, <1>7

\* A seat of another grade adds no cluster that earns this one.
LEMMA OtherGradeEarnsNothing ==
  ASSUME NEW X, NEW s \in Seq(X), NEW c \in X, NEW grade, c.grade # grade
  PROVE  Cardinality(Earning(Append(s, c), grade)) <= Cardinality(Earning(s, grade))
<1> DEFINE t == Append(s, c)
           n == Len(s) + 1
           B == Clusters(s)
           D == Disclosed(s)
           E == Earning(s, grade)
           touched == {n} \cup OwnersOf(t, n)
           met == {b \in B : b \cap touched # {}}
           new == touched \cup UNION met
<1>1. /\ t[n] = c /\ \A i \in 1 .. Len(s) : t[i] = s[i]
      /\ c.origins = {} => Clusters(t) = B
      /\ c.origins # {} => Clusters(t) = Merge(B, touched) /\ Touches(t, D, n, touched)
  BY ClustersOfAppend
<1>2. /\ Len(s) \in Nat /\ DOMAIN s = 1 .. Len(s) /\ D \subseteq 1 .. Len(s)
      /\ AreComponents(B, s, D)
  <2>1. Len(s) \in Nat /\ DOMAIN s = 1 .. Len(s)
    OBVIOUS
  <2> QED
    BY <2>1, ClustersAreComponents DEF Disclosed
<1>3. E \in SUBSET B /\ IsFiniteSet(B)
  BY <1>2, ClustersFinite DEF Earning
<1>4. IsFiniteSet(E) /\ Cardinality(E) \in Nat
  BY <1>3, FS_Subset, FS_CardinalityType
<1>5. \A b \in B : (\E i \in b : t[i].grade = grade) <=> b \in E
  <2>1. \A b \in B : b \subseteq 1 .. Len(s)
    BY <1>2 DEF AreComponents
  <2> QED
    BY <1>1, <2>1 DEF Earning
<1> HIDE DEF t
<1>6. Earning(Append(s, c), grade) = {b \in Clusters(t) : \E i \in b : t[i].grade = grade}
  BY DEF Earning, t
<1>7. CASE Earning(Append(s, c), grade) \subseteq E
  BY <1>4, <1>7, FS_Subset
<1>8. CASE ~(Earning(Append(s, c), grade) \subseteq E)
  <2>1. /\ Clusters(t) = Merge(B, touched) /\ Touches(t, D, n, touched)
    BY <1>1, <1>5, <1>6, <1>8
  <2>2. Clusters(t) = (B \ met) \cup {new}
    BY <2>1 DEF Merge
  <2>3. PICK i \in new : t[i].grade = grade
    BY <1>5, <1>6, <1>8, <2>2
  <2>4. PICK b \in met : i \in b
    <3>1. i # n
      BY <1>1, <2>3
    <3>2. CASE i \in touched
      BY <1>2, <2>1, <3>1, <3>2 DEF Touches, AreComponents
    <3> QED
      BY <2>3, <3>2
  <2>5. b \in E
    BY <1>5, <2>3, <2>4
  <2> HIDE DEF E, new
  <2>6. Earning(Append(s, c), grade) \subseteq ((E \ {b}) \cup {new})
    <3>1. ASSUME NEW d \in Earning(Append(s, c), grade), d # new PROVE d \in E \ {b}
      BY <1>5, <1>6, <2>2, <2>4, <3>1
    <3> QED
      BY <3>1
  <2>7. IsFiniteSet(E \ {b}) /\ Cardinality(E \ {b}) = Cardinality(E) - 1
    BY <1>4, <2>5, FS_RemoveElement
  <2>8. /\ IsFiniteSet((E \ {b}) \cup {new})
        /\ Cardinality((E \ {b}) \cup {new}) <= Cardinality(E)
    <3> DEFINE F == E \ {b}
    <3>1. IsFiniteSet(F) /\ Cardinality(F) = Cardinality(E) - 1
      BY <2>7
    <3> HIDE DEF F
    <3>2. /\ IsFiniteSet(F \cup {new})
          /\ Cardinality(F \cup {new}) = IF new \in F THEN Cardinality(F)
                                          ELSE Cardinality(F) + 1
      BY <3>1, FS_AddElement
    <3>3. Cardinality(F \cup {new}) <= Cardinality(E)
      BY <1>4, <3>1, <3>2
    <3> QED
      BY <3>2, <3>3 DEF F
  <2>9. /\ IsFiniteSet(Earning(Append(s, c), grade))
        /\ Cardinality(Earning(Append(s, c), grade)) <= Cardinality((E \ {b}) \cup {new})
    BY <2>6, <2>8, FS_Subset
  <2> HIDE DEF t
  <2>10. /\ Cardinality(Earning(Append(s, c), grade)) \in Nat
         /\ Cardinality((E \ {b}) \cup {new}) \in Nat
    BY <2>8, <2>9, FS_CardinalityType
  <2>11. Cardinality(Earning(Append(s, c), grade)) <= Cardinality(E)
    BY <1>4, <2>8, <2>9, <2>10
  <2> QED
    BY <2>11 DEF E
<1> QED
  BY <1>7, <1>8

LEMMA AdmissionStep == TypeOK => AdmissionPays
<1> SUFFICES ASSUME TypeOK, quorum.evidence = Null, NEW c \in quorum.candidates
             PROVE  /\ Admits(seats, c) <=>
                         /\ c.origins # {}
                         /\ \A i \in DOMAIN seats : c.origins \cap seats[i].origins = {}
                    /\ c.grade # "named" =>
                         Cardinality(Earning(Append(seats, c), "named"))
                             <= Cardinality(Earning(seats, "named"))
  BY DEF AdmissionPays
<1>1. seats \in Seq(quorum.candidates)
  BY DEF TypeOK
<1> QED
  BY <1>1, AdmitsWhat, OtherGradeEarnsNothing

(* The count rises exactly for a candidate that discloses and shares no    *)
(* origin with any incumbent, and the accountable count for nobody without *)
(* an accountable birth, for rosters of any size.                          *)
THEOREM QuorumAdmissionPays == Spec => []AdmissionPays
BY QuorumTypes, AdmissionStep, PTL

-------------------------------------------------------------------------------
(* Witnesses and the manifest. *)

\* As many origins as clusters, at least: clusters share none.
LEMMA ClustersCapped ==
  ASSUME NEW s, Len(s) \in Nat, DOMAIN s = 1 .. Len(s),
         NEW O, IsFiniteSet(O), \A i \in DOMAIN s : s[i].origins \subseteq O
  PROVE  Effective(s) <= Cardinality(O)
<1> DEFINE B == Clusters(s)
           D == Disclosed(s)
           Of(b, o) == \E i \in b : o \in s[i].origins
           f == [b \in B |-> CHOOSE o \in O : Of(b, o)]
<1>1. AreComponents(B, s, D) /\ D \subseteq DOMAIN s
  BY ClustersAreComponents DEF Disclosed
<1>2. ASSUME NEW b \in B PROVE f[b] \in O /\ Of(b, f[b])
  <2>1. PICK i \in b : i \in D
    BY <1>1 DEF AreComponents
  <2>2. PICK o \in s[i].origins : o \in O
    BY <1>1, <2>1 DEF Disclosed
  <2>3. \E p \in O : Of(b, p)
    BY <2>1, <2>2
  <2> QED
    BY <2>3
<1>3. ASSUME NEW b \in B, NEW c \in B, f[b] = f[c] PROVE b = c
  <2> DEFINE o == f[b]
  <2>1. Of(b, o) /\ Of(c, o)
    BY <1>2, <1>3
  <2> HIDE DEF o
  <2>2. PICK i \in b : o \in s[i].origins
    BY <2>1
  <2>3. PICK j \in c : o \in s[j].origins
    BY <2>1
  <2>4. Shares(s, i, j) /\ j \in D /\ ClosedIn(s, D, b)
    BY <1>1, <2>2, <2>3 DEF Shares, AreComponents
  <2>5. j \in b
    BY <2>4 DEF ClosedIn
  <2> QED
    BY <1>1, <2>5, ComponentsDisjoint
<1>4. f \in Injection(B, O)
  <2>1. f \in [B -> O]
    BY <1>2
  <2> HIDE DEF f, B
  <2> QED
    BY <1>3, <2>1 DEF Injection, IsInjective
<1> HIDE DEF f, B
<1>5. Cardinality(B) <= Cardinality(O)
  BY <1>4, FS_Injection
<1> QED
  BY <1>5 DEF Effective, B

LEMMA EnumeratedStep == TypeOK => EnumeratedCapsWitnesses
<1> SUFFICES ASSUME TypeOK, quorum.evidence # Null,
                    CoverageState(quorum.evidence, quorum.manifest, fired)
                        = "origins_enumerated"
             PROVE  Witnesses(seats, quorum.evidence) <= Cardinality(quorum.manifest)
  BY DEF EnumeratedCapsWitnesses
<1>1. /\ quorum.manifest # Null
      /\ EvidenceOrigins(quorum.evidence) \subseteq quorum.manifest
  BY DEF CoverageState
<1>2. IsFiniteSet(quorum.manifest)
  BY <1>1, QuorumsAssumption DEF TypeOK
<1>3. \A refs : Origins(refs, quorum.evidence) \subseteq quorum.manifest
  BY <1>1 DEF Origins, EvidenceOrigins
<1>4. Seats = Signers(seats, quorum.evidence)
  BY DEF Seats
<1>5. \A i \in DOMAIN Seats : Seats[i].origins \subseteq quorum.manifest
  BY <1>3, <1>4 DEF Signers
<1>6. Effective(Seats) <= Cardinality(quorum.manifest)
  BY <1>2, <1>5, SeatsDomain, ClustersCapped
<1> QED
  BY <1>4, <1>6 DEF Witnesses

(* No more witnesses can be read off the signatures of an envelope than    *)
(* its manifest has origins, as long as coverage stands as enumerated, for *)
(* any number of signers and any evidence.                                 *)
THEOREM QuorumEnumeratedCaps == Spec => []EnumeratedCapsWitnesses
BY QuorumTypes, EnumeratedStep, PTL

-------------------------------------------------------------------------------
(* Blocks of clusters, and the fold that merges them. *)

IsPartition(B, U) ==
  /\ \A b \in B : b # {} /\ b \subseteq U
  /\ \A u \in U : \E b \in B : u \in b
  /\ \A b, c \in B : b \cap c # {} => b = c

Refines(B, C) == \A b \in B : \E c \in C : b \subseteq c

\* Merging coarsens a partition, by no more than it takes to join touched.
LEMMA MergeCoarsens ==
  ASSUME NEW U, NEW B, IsPartition(B, U), NEW touched \in SUBSET U, touched # {}
  PROVE  /\ IsPartition(Merge(B, touched), U)
         /\ Refines(B, Merge(B, touched))
         /\ \E c \in Merge(B, touched) : touched \subseteq c
         /\ \A C : IsPartition(C, U) /\ Refines(B, C) /\ (\E c \in C : touched \subseteq c)
                     => Refines(Merge(B, touched), C)
<1> DEFINE met == {b \in B : b \cap touched # {}}
           new == touched \cup UNION met
           M == Merge(B, touched)
<1>1. M = (B \ met) \cup {new}
  BY DEF Merge
<1>2. \A u \in new : \E b \in met : u \in b
  BY DEF IsPartition
<1>3. \A b \in met : b \subseteq new
  OBVIOUS
<1>4. new # {} /\ new \subseteq U /\ touched \subseteq new
  BY DEF IsPartition
<1>5. \A b \in B \ met : b \cap new = {}
  BY <1>2 DEF IsPartition
<1>6. \A b \in B : b \in met \/ b \in B \ met
  OBVIOUS
<1>7. met \subseteq B
  OBVIOUS
<1>8. ASSUME NEW C, IsPartition(C, U), Refines(B, C), \E c \in C : touched \subseteq c
      PROVE  Refines(M, C)
  <2>1. PICK c \in C : touched \subseteq c
    BY <1>8
  <2>2. ASSUME NEW b \in met PROVE b \subseteq c
    <3>1. PICK d \in C : b \subseteq d
      BY <1>8 DEF Refines
    <3>2. d \cap c # {}
      BY <2>1, <3>1
    <3> QED
      BY <1>8, <3>1, <3>2 DEF IsPartition
  <2>3. new \subseteq c
    BY <2>1, <2>2
  <2> HIDE DEF new, met, M
  <2> QED
    BY <1>1, <1>8, <2>3 DEF Refines
<1> HIDE DEF met, new, M
<1>9. IsPartition(M, U)
  <2>1. \A b \in M : b # {} /\ b \subseteq U
    BY <1>1, <1>4 DEF IsPartition
  <2>2. ASSUME NEW u \in U PROVE \E b \in M : u \in b
    <3>1. PICK b \in B : u \in b
      BY DEF IsPartition
    <3> QED
      BY <1>1, <1>3, <1>6, <3>1
  <2>3. ASSUME NEW b \in M, NEW c \in M, b \cap c # {} PROVE b = c
    <3>1. CASE b = new \/ c = new
      BY <1>1, <1>5, <2>3, <3>1
    <3>2. CASE b # new /\ c # new
      BY <1>1, <2>3, <3>2 DEF IsPartition
    <3> QED
      BY <3>1, <3>2
  <2> QED
    BY <2>1, <2>2, <2>3 DEF IsPartition
<1>10. Refines(B, M)
  BY <1>1, <1>3, <1>6 DEF Refines
<1>11. \E c \in M : touched \subseteq c
  BY <1>1, <1>4
<1> QED
  BY <1>8, <1>9, <1>10, <1>11 DEF M

\* One pair of the fold, after the others.
Any(pairs) == CHOOSE p \in pairs : TRUE

PairStep(cluster, it, pairs) ==
  IF pairs = {} THEN {{cluster[k]} : k \in DOMAIN cluster}
  ELSE Merge(it[pairs \ {Any(pairs)}], {cluster[k] : k \in Any(pairs)})

UpTo(S, n) == {pairs \in SUBSET S : Cardinality(pairs) <= n}

\* The fold can be carried out over any finite set of pairs.
LEMMA PairFoldExists ==
  ASSUME NEW cluster, NEW S, IsFiniteSet(S)
  PROVE  \E it : it = [pairs \in SUBSET S |-> PairStep(cluster, it, pairs)]
<1> DEFINE T == {n \in Nat : \E f : f = [pairs \in UpTo(S, n) |-> PairStep(cluster, f, pairs)]}
<1>0. \A pairs \in SUBSET S : /\ IsFiniteSet(pairs) /\ Cardinality(pairs) \in Nat
                              /\ Cardinality(pairs) <= Cardinality(S)
                              /\ Cardinality(pairs) = 0 <=> pairs = {}
  BY FS_Subset, FS_CardinalityType, FS_EmptySet
<1>1. 0 \in T
  <2> DEFINE f == [pairs \in UpTo(S, 0) |-> {{cluster[k]} : k \in DOMAIN cluster}]
  <2>1. \A pairs \in UpTo(S, 0) : pairs = {}
    BY <1>0 DEF UpTo
  <2>2. \A pairs \in UpTo(S, 0) :
          PairStep(cluster, f, pairs) = {{cluster[k]} : k \in DOMAIN cluster}
    BY <2>1 DEF PairStep
  <2>3. f = [pairs \in UpTo(S, 0) |-> PairStep(cluster, f, pairs)]
    BY <2>2
  <2> QED
    BY <2>3
<1>2. ASSUME NEW n \in Nat, n \in T PROVE n + 1 \in T
  <2>1. PICK f : f = [pairs \in UpTo(S, n) |-> PairStep(cluster, f, pairs)]
    BY <1>2
  <2> DEFINE g == [pairs \in UpTo(S, n + 1) |-> PairStep(cluster, f, pairs)]
  <2>2. \A pairs \in UpTo(S, n) : pairs \in UpTo(S, n + 1)
    BY <1>0 DEF UpTo
  <2>3. \A pairs \in UpTo(S, n) : g[pairs] = f[pairs]
    BY <2>1, <2>2
  <2>4. ASSUME NEW pairs \in UpTo(S, n + 1)
        PROVE  PairStep(cluster, g, pairs) = PairStep(cluster, f, pairs)
    <3>1. pairs \in SUBSET S /\ Cardinality(pairs) <= n + 1
      BY DEF UpTo
    <3>2. CASE pairs # {}
      <4>1. Any(pairs) \in pairs
        BY <3>2 DEF Any
      <4>2. Cardinality(pairs \ {Any(pairs)}) = Cardinality(pairs) - 1
        BY <1>0, <3>1, <4>1, FS_RemoveElement
      <4>3. pairs \ {Any(pairs)} \in UpTo(S, n)
        BY <1>0, <3>1, <4>2 DEF UpTo
      <4>4. g[pairs \ {Any(pairs)}] = f[pairs \ {Any(pairs)}]
        BY <2>3, <4>3
      <4> HIDE DEF g
      <4> QED
        BY <3>2, <4>4 DEF PairStep
    <3> QED
      BY <3>2 DEF PairStep
  <2>5. g = [pairs \in UpTo(S, n + 1) |-> PairStep(cluster, g, pairs)]
    BY <2>4
  <2> HIDE DEF g
  <2> QED
    BY <2>5
<1> HIDE DEF T
<1>3. Cardinality(S) \in T
  BY <1>0, <1>1, <1>2, AllNaturals
<1>4. UpTo(S, Cardinality(S)) = SUBSET S
  BY <1>0 DEF UpTo
<1> QED
  BY <1>3, <1>4 DEF T

\* MergedBy is where the fold ends.
LEMMA PairFold ==
  ASSUME NEW cluster, NEW S, IsFiniteSet(S)
  PROVE  \E it : /\ it = [pairs \in SUBSET S |-> PairStep(cluster, it, pairs)]
                 /\ MergedBy(cluster, S) = it[S]
<1> DEFINE it == CHOOSE f : f = [pairs \in SUBSET S |-> PairStep(cluster, f, pairs)]
<1>1. \E f : f = [pairs \in SUBSET S |-> PairStep(cluster, f, pairs)]
  BY PairFoldExists
<1>2. it = [pairs \in SUBSET S |-> PairStep(cluster, it, pairs)]
  BY Zenon, <1>1
<1>3. MergedBy(cluster, S) = it[S]
  BY Zenon DEF MergedBy, FoldSet, MapThenFoldSet, PairStep, Any
<1> QED
  BY <1>2, <1>3

Named(cluster) == {cluster[k] : k \in DOMAIN cluster}

\* B joins the clusters of each of the pairs.
Joins(B, cluster, pairs) ==
  /\ IsPartition(B, Named(cluster))
  /\ \A p \in pairs : \E b \in B : {cluster[k] : k \in p} \subseteq b

\* The blocks of the fold join the pairs and nothing else: they are the finest.
LEMMA MergedByIsFinest ==
  ASSUME NEW cluster, NEW S, IsFiniteSet(S),
         \A p \in S : p # {} /\ p \subseteq DOMAIN cluster
  PROVE  /\ Joins(MergedBy(cluster, S), cluster, S)
         /\ \A C : Joins(C, cluster, S) => Refines(MergedBy(cluster, S), C)
<1>1. PICK it : /\ it = [pairs \in SUBSET S |-> PairStep(cluster, it, pairs)]
                /\ MergedBy(cluster, S) = it[S]
  BY PairFold
<1> DEFINE Finest(pairs) == /\ Joins(it[pairs], cluster, pairs)
                            /\ \A C : Joins(C, cluster, pairs) => Refines(it[pairs], C)
           T == {n \in Nat : \A pairs \in SUBSET S : Cardinality(pairs) = n => Finest(pairs)}
<1>2. \A pairs \in SUBSET S : /\ IsFiniteSet(pairs) /\ Cardinality(pairs) \in Nat
                              /\ Cardinality(pairs) = 0 <=> pairs = {}
  BY FS_Subset, FS_CardinalityType, FS_EmptySet
<1>3. Finest({})
  <2>1. it[{}] = {{cluster[k]} : k \in DOMAIN cluster}
    BY <1>1 DEF PairStep
  <2>2. Joins(it[{}], cluster, {})
    BY <2>1 DEF Joins, IsPartition, Named
  <2>3. ASSUME NEW C, Joins(C, cluster, {}) PROVE Refines(it[{}], C)
    <3>1. \A k \in DOMAIN cluster : \E c \in C : cluster[k] \in c
      <4>1. \A k \in DOMAIN cluster : cluster[k] \in Named(cluster)
        BY DEF Named
      <4>2. \A u \in Named(cluster) : \E c \in C : u \in c
        BY <2>3 DEF Joins, IsPartition
      <4> QED
        BY <4>1, <4>2
    <3>2. ASSUME NEW b \in it[{}] PROVE \E c \in C : b \subseteq c
      <4>1. PICK k \in DOMAIN cluster : b = {cluster[k]}
        BY <2>1
      <4> QED
        BY <3>1, <4>1
    <3> QED
      BY <3>2 DEF Refines
  <2> QED
    BY <2>2, <2>3
<1>4. 0 \in T
  BY <1>2, <1>3
<1>5. ASSUME NEW n \in Nat, n \in T PROVE n + 1 \in T
  <2>1. SUFFICES ASSUME NEW pairs \in SUBSET S, Cardinality(pairs) = n + 1
                 PROVE  Finest(pairs)
    OBVIOUS
  <2> DEFINE p == Any(pairs)
             rest == pairs \ {p}
             touched == {cluster[k] : k \in p}
  <2>2. pairs # {} /\ IsFiniteSet(pairs)
    BY <1>2, <2>1
  <2>3. p \in pairs /\ p # {} /\ p \subseteq DOMAIN cluster
    BY <2>2 DEF Any
  <2>4. rest \in SUBSET S /\ Cardinality(rest) = n
    <3>1. Cardinality(rest) = Cardinality(pairs) - 1
      <4> HIDE DEF p, Finest
      <4>1. IsFiniteSet(pairs) /\ p \in pairs
        BY <2>2, <2>3
      <4>2. Cardinality(pairs \ {p}) = Cardinality(pairs) - 1
        BY <4>1, FS_RemoveElement
      <4> QED
        BY <4>2
    <3> QED
      BY <2>1, <3>1
  <2>5. Finest(rest)
    BY <1>5, <2>4
  <2>6. it[pairs] = Merge(it[rest], touched)
    BY <1>1, <2>2 DEF PairStep
  <2>7. touched \in SUBSET Named(cluster) /\ touched # {}
    BY <2>3 DEF Named
  <2> HIDE DEF p, rest, touched
  <2>8. /\ IsPartition(it[pairs], Named(cluster))
        /\ Refines(it[rest], it[pairs])
        /\ \E c \in it[pairs] : touched \subseteq c
        /\ \A C : /\ IsPartition(C, Named(cluster)) /\ Refines(it[rest], C)
                  /\ \E c \in C : touched \subseteq c
                  => Refines(it[pairs], C)
    BY <2>5, <2>6, <2>7, MergeCoarsens DEF Joins
  <2>9. \A q \in pairs : q = p \/ q \in rest
    BY DEF rest
  <2>10. ASSUME NEW q \in pairs
         PROVE  \E b \in it[pairs] : {cluster[k] : k \in q} \subseteq b
    <3>1. CASE q = p
      BY <2>8, <3>1 DEF touched
    <3>2. CASE q \in rest
      <4>1. PICK b \in it[rest] : {cluster[k] : k \in q} \subseteq b
        BY <2>5, <3>2 DEF Joins
      <4>2. PICK c \in it[pairs] : b \subseteq c
        BY <2>8, <4>1 DEF Refines
      <4> QED
        BY <4>1, <4>2
    <3> QED
      BY <2>9, <3>1, <3>2
  <2>11. ASSUME NEW C, Joins(C, cluster, pairs) PROVE Refines(it[pairs], C)
    <3>1. Joins(C, cluster, rest) /\ IsPartition(C, Named(cluster))
      BY <2>11 DEF Joins, rest
    <3>2. \E c \in C : touched \subseteq c
      BY <2>3, <2>11 DEF Joins, touched
    <3> QED
      BY <2>5, <2>8, <3>1, <3>2
  <2> QED
    BY <2>8, <2>10, <2>11 DEF Joins
<1> HIDE DEF T
<1>6. Cardinality(S) \in T
  BY <1>2, <1>4, <1>5, AllNaturals
<1>7. Finest(S)
  BY <1>6 DEF T
<1> QED
  BY <1>1, <1>7

-------------------------------------------------------------------------------
(* The pairs to merge. *)

\* The clusters of a quorum by key are finitely many.
LEMMA KeyClusterFinite ==
  ASSUME NEW s, Len(s) \in Nat, DOMAIN s = 1 .. Len(s), NEW cluster \in KeyClusters(s)
  PROVE  IsFiniteSet(DOMAIN cluster) /\ IsFiniteSet(Pairs(cluster))
<1> DEFINE D == Disclosed(s)
           K == {s[n].key : n \in D}
           key == [n \in D |-> s[n].key]
<1>1. IsFiniteSet(D)
  <2>1. IsFiniteSet(1 .. Len(s)) /\ D \in SUBSET (1 .. Len(s))
    BY FS_Interval DEF Disclosed
  <2> QED
    BY <2>1, FS_Subset
<1>2. DOMAIN cluster = K
  BY DEF KeyClusters, KeyCluster
<1>3. key \in Surjection(D, K)
  BY DEF Surjection
<1>4. IsFiniteSet(K)
  <2> HIDE DEF D, K, key
  <2> QED
    BY <1>1, <1>3, FS_Surjection
<1> HIDE DEF K
<1>5. IsFiniteSet(SUBSET K)
  BY <1>4, FS_SUBSET
<1>6. Pairs(cluster) \in SUBSET SUBSET K
  BY <1>2 DEF Pairs
<1>7. IsFiniteSet(Pairs(cluster))
  BY <1>5, <1>6, FS_Subset
<1> QED
  BY <1>2, <1>4, <1>7

\* The floor joins the pairs that were refuted or never put to the test, and
\* nothing else.
LEMMA FloorIsFinest ==
  ASSUME NEW s, Len(s) \in Nat, DOMAIN s = 1 .. Len(s), NEW cluster \in KeyClusters(s),
         NEW obs, NEW minEpochs
  PROVE  LET P == PairsThat(cluster, obs, minEpochs, {"refuted", "unobserved"})
             B == FloorBlocks(cluster, obs, minEpochs)
         IN  /\ Joins(B, cluster, P)
             /\ \A C : Joins(C, cluster, P) => Refines(B, C)
<1> DEFINE P == PairsThat(cluster, obs, minEpochs, {"refuted", "unobserved"})
<1>1. P \in SUBSET Pairs(cluster) /\ IsFiniteSet(Pairs(cluster))
  BY KeyClusterFinite DEF PairsThat
<1>2. IsFiniteSet(P)
  BY <1>1, FS_Subset
<1>3. \A p \in Pairs(cluster) : p # {} /\ p \subseteq DOMAIN cluster
  BY DEF Pairs
<1>4. \A p \in P : p # {} /\ p \subseteq DOMAIN cluster
  BY <1>1, <1>3
<1>5. FloorBlocks(cluster, obs, minEpochs) = MergedBy(cluster, P)
  BY DEF FloorBlocks
<1> HIDE DEF P
<1> QED
  BY <1>2, <1>4, <1>5, MergedByIsFinest DEF P

\* A verdict by cases.
LEMMA VerdictCases ==
  ASSUME NEW obs, Len(obs) \in Nat, DOMAIN obs = 1 .. Len(obs), NEW pair,
         NEW minEpochs \in Nat
  PROVE  /\ Cardinality(Common(obs, pair)) \in Nat /\ IsFiniteSet(Common(obs, pair))
         /\ Verdict(obs, pair, minEpochs) \in {"refuted", "unobserved"} <=>
              \/ Cardinality(Common(obs, pair)) < minEpochs
              \/ Differential(obs, pair) = {}
<1>1. IsFiniteSet(1 .. Len(obs)) /\ Common(obs, pair) \in SUBSET (1 .. Len(obs))
  BY FS_Interval DEF Common
<1>2. IsFiniteSet(Common(obs, pair))
  BY <1>1, FS_Subset
<1>3. Cardinality(Common(obs, pair)) \in Nat
  BY <1>2, FS_CardinalityType
<1> QED
  BY <1>2, <1>3 DEF Verdict

\* One more epoch adds no pair to the floor's.
LEMMA EpochOnlySeparates ==
  ASSUME NEW X, NEW obs \in Seq(X), NEW e \in X, NEW cluster, NEW minEpochs \in Nat
  PROVE  PairsThat(cluster, Append(obs, e), minEpochs, {"refuted", "unobserved"})
           \subseteq PairsThat(cluster, obs, minEpochs, {"refuted", "unobserved"})
<1> DEFINE new == Append(obs, e)
<1>1. /\ Len(obs) \in Nat /\ DOMAIN obs = 1 .. Len(obs)
      /\ Len(new) \in Nat /\ DOMAIN new = 1 .. Len(new)
      /\ \A i \in DOMAIN obs : i \in DOMAIN new /\ new[i] = obs[i]
  BY AppendProperties
<1> HIDE DEF new
<1>2. ASSUME NEW pair, Verdict(new, pair, minEpochs) \in {"refuted", "unobserved"}
      PROVE  Verdict(obs, pair, minEpochs) \in {"refuted", "unobserved"}
  <2>1. /\ Common(obs, pair) \in SUBSET Common(new, pair)
        /\ Differential(obs, pair) \subseteq Differential(new, pair)
    BY <1>1 DEF Common, Differential
  <2>2. /\ Cardinality(Common(new, pair)) \in Nat /\ IsFiniteSet(Common(new, pair))
        /\ Cardinality(Common(obs, pair)) \in Nat
    BY <1>1, VerdictCases
  <2>3. Cardinality(Common(obs, pair)) <= Cardinality(Common(new, pair))
    BY <2>1, <2>2, FS_Subset
  <2>4. \/ Cardinality(Common(new, pair)) < minEpochs
        \/ Differential(new, pair) = {}
    BY <1>1, <1>2, VerdictCases
  <2>5. \/ Cardinality(Common(obs, pair)) < minEpochs
        \/ Differential(obs, pair) = {}
    BY <2>1, <2>2, <2>3, <2>4
  <2> QED
    BY <1>1, <2>5, VerdictCases
<1> QED
  BY <1>2 DEF PairsThat, new

\* Fewer pairs to join: finer blocks.
LEMMA FloorRefines ==
  ASSUME NEW X, NEW obs \in Seq(X), NEW e \in X, NEW minEpochs \in Nat,
         NEW s, Len(s) \in Nat, DOMAIN s = 1 .. Len(s), NEW cluster \in KeyClusters(s)
  PROVE  Refines(FloorBlocks(cluster, Append(obs, e), minEpochs),
                 FloorBlocks(cluster, obs, minEpochs))
<1> DEFINE P == PairsThat(cluster, obs, minEpochs, {"refuted", "unobserved"})
           Q == PairsThat(cluster, Append(obs, e), minEpochs, {"refuted", "unobserved"})
<1>1. Q \subseteq P
  BY EpochOnlySeparates
<1>2. Joins(FloorBlocks(cluster, obs, minEpochs), cluster, P)
  BY FloorIsFinest
<1>3. Joins(FloorBlocks(cluster, obs, minEpochs), cluster, Q)
  BY <1>1, <1>2 DEF Joins
<1> QED
  BY <1>3, FloorIsFinest

\* Without a window the floor only splits.
LEMMA FloorStep ==
  TypeOK /\ [Next]_vars =>
    ((quorum.window = Null /\ UNCHANGED <<quorum, seats>>) =>
        \A cluster \in KeyClusters(Seats) :
            \A after \in Floor(cluster)' : \E blk \in Floor(cluster) : after \subseteq blk)
<1> SUFFICES ASSUME TypeOK, [Next]_vars, quorum.window = Null, UNCHANGED <<quorum, seats>>,
                    NEW cluster \in KeyClusters(Seats)
             PROVE  Refines(Floor(cluster)', Floor(cluster))
  BY DEF Refines
<1>1. /\ Floor(cluster) = FloorBlocks(cluster, ledger, quorum.minEpochs)
      /\ Floor(cluster)' = FloorBlocks(cluster, ledger', quorum.minEpochs)
  BY DEF Floor, Recent
<1>2. CASE ledger' = ledger
  BY <1>1, <1>2 DEF Refines
<1>3. ASSUME NEW observed \in SUBSET Keys, NEW down, Record(observed, down)
      PROVE  Refines(Floor(cluster)', Floor(cluster))
  <2> DEFINE e == [k \in observed |-> domain[k] \in down]
  <2>1. e \in Epoch /\ ledger' = Append(ledger, e)
    BY <1>3, RecordIsEpoch DEF Record
  <2>2. ledger \in Seq(Epoch) /\ quorum.minEpochs \in Nat
    BY QuorumsAssumption DEF TypeOK, Epoch
  <2> HIDE DEF e
  <2> QED
    BY <1>1, <2>1, <2>2, SeatsDomain, FloorRefines
<1>4. ledger' = ledger \/ \E observed \in SUBSET Keys : \E down : Record(observed, down)
  BY DEF Next, vars, Join, Fire, Capture, Confess, Accept
<1> QED
  BY <1>2, <1>3, <1>4

(* A quorum read without a window: one more epoch splits blocks of the     *)
(* floor or leaves them, and never merges two that a divergence had split, *)
(* for any number of keys and epochs and any declared clusters.            *)
THEOREM QuorumFloorOnlySplits == Spec => FloorOnlySplits
BY QuorumTypes, FloorStep, PTL DEF Spec, FloorOnlySplits

-------------------------------------------------------------------------------
(* Captured keys. *)

\* Since the last capture, keys of one domain fail together.
LedgerRests ==
  \A e \in DOMAIN ledger : e > settled =>
    \A a, b \in DOMAIN ledger[e] : domain[a] = domain[b] => ledger[e][a] = ledger[e][b]

LEMMA LedgerStep == TypeOK /\ LedgerRests /\ [Next]_vars => LedgerRests'
<1> SUFFICES ASSUME TypeOK, LedgerRests, [Next]_vars PROVE LedgerRests'
  OBVIOUS
<1>0. ledger \in Seq(Epoch) /\ Len(ledger) \in Nat /\ DOMAIN ledger = 1 .. Len(ledger)
  BY DEF TypeOK, Epoch
<1>1. CASE UNCHANGED <<ledger, settled, domain>>
  BY <1>1 DEF LedgerRests
<1>2. ASSUME NEW k \in Keys, NEW other \in Keys, Capture(k, other) PROVE LedgerRests'
  BY <1>0, <1>2 DEF Capture, LedgerRests
<1>3. ASSUME NEW observed \in SUBSET Keys, NEW down, Record(observed, down)
      PROVE  LedgerRests'
  <2> DEFINE epoch == [k \in observed |-> domain[k] \in down]
  <2>1. /\ ledger' = Append(ledger, epoch) /\ settled' = settled /\ domain' = domain
    BY <1>3 DEF Record
  <2>2. \A a, b \in DOMAIN epoch : domain[a] = domain[b] => epoch[a] = epoch[b]
    OBVIOUS
  <2>3. epoch \in Epoch
    BY RecordIsEpoch
  <2> HIDE DEF epoch
  <2>4. /\ DOMAIN ledger' = 1 .. Len(ledger) + 1 /\ ledger'[Len(ledger) + 1] = epoch
        /\ \A e \in 1 .. Len(ledger) : ledger'[e] = ledger[e]
    BY <1>0, <2>1, <2>3, AppendProperties
  <2>5. ASSUME NEW e \in DOMAIN ledger', e > settled, NEW a \in DOMAIN ledger'[e],
               NEW b \in DOMAIN ledger'[e], domain[a] = domain[b]
        PROVE  ledger'[e][a] = ledger'[e][b]
    <3>1. CASE e = Len(ledger) + 1
      BY <2>2, <2>4, <2>5, <3>1
    <3>2. CASE e # Len(ledger) + 1
      <4>1. e \in DOMAIN ledger /\ ledger'[e] = ledger[e]
        BY <1>0, <2>4, <3>2
      <4> QED
        BY <2>5, <4>1 DEF LedgerRests
    <3> QED
      BY <3>1, <3>2
  <2> QED
    BY <2>1, <2>5 DEF LedgerRests
<1>4. \/ UNCHANGED <<ledger, settled, domain>>
      \/ \E k, other \in Keys : Capture(k, other)
      \/ \E observed \in SUBSET Keys : \E down : Record(observed, down)
  BY DEF Next, vars, Join, Fire, Confess, Accept
<1> QED
  BY <1>1, <1>2, <1>3, <1>4

\* What the window shows was recorded since the last capture.
LEMMA RecentIsSettled ==
  ASSUME TypeOK, LedgerRests, CaptureSettled
  PROVE  LET obs == Recent(ledger, quorum.window)
         IN  /\ Len(obs) \in Nat /\ DOMAIN obs = 1 .. Len(obs)
             /\ \A e \in DOMAIN obs : \A a, b \in DOMAIN obs[e] :
                  domain[a] = domain[b] => obs[e][a] = obs[e][b]
<1> DEFINE obs == Recent(ledger, quorum.window)
           w == quorum.window
           L == Len(ledger)
<1>0. /\ ledger \in Seq(Epoch) /\ L \in Nat /\ DOMAIN ledger = 1 .. L
      /\ w \in Nat \cup {Null} /\ settled \in 0 .. L
  BY QuorumsAssumption DEF TypeOK, Epoch
<1>1. CASE w = Null \/ w = 0 \/ w >= L
  <2>1. obs = ledger
    BY <1>1 DEF Recent
  <2>2. settled = 0
    <3>1. CASE w = Null \/ w = 0
      BY <3>1 DEF CaptureSettled
    <3>2. CASE w # Null /\ w >= L
      BY <1>0, <3>2 DEF CaptureSettled
    <3> QED
      BY <1>1, <3>1, <3>2
  <2>3. \A e \in DOMAIN ledger : e > settled
    BY <1>0, <2>2
  <2> QED
    BY <1>0, <2>1, <2>3 DEF LedgerRests
<1>2. CASE ~(w = Null \/ w = 0 \/ w >= L)
  <2>1. w \in Nat /\ w > 0 /\ w < L
    BY <1>0, <1>2
  <2>2. obs = SubSeq(ledger, L - w + 1, L)
    BY <1>2 DEF Recent
  <2>3. L - w + 1 \in 1 .. L + 1 /\ L \in L - w .. L
    BY <1>0, <2>1
  <2>4. \A i \in L - w + 1 .. L : ledger[i] \in Epoch
    BY <1>0, <2>3, ElementOfSeq
  <2>5. /\ obs \in Seq(Epoch) /\ Len(obs) = w
        /\ \A e \in 1 .. w : obs[e] = ledger[L - w + e]
    <3>1. L - w + 1 \in Int /\ L \in Int
      BY <1>0, <2>1
    <3>2. /\ SubSeq(ledger, L - w + 1, L) \in Seq(Epoch)
          /\ Len(SubSeq(ledger, L - w + 1, L)) = IF L - w + 1 <= L THEN L - (L - w + 1) + 1 ELSE 0
          /\ \A e \in 1 .. L - (L - w + 1) + 1 :
               SubSeq(ledger, L - w + 1, L)[e] = ledger[L - w + 1 + e - 1]
      BY <2>4, <3>1, SubSeqProperties
    <3>3. L - (L - w + 1) + 1 = w /\ L - w + 1 <= L /\ \A e \in 1 .. w : L - w + 1 + e - 1 = L - w + e
      BY <1>0, <2>1
    <3> QED
      BY <2>2, <3>2, <3>3
  <2>6. DOMAIN obs = 1 .. w
    BY <2>5
  <2>7. settled <= L - w
    BY <1>0, <2>1 DEF CaptureSettled
  <2> HIDE DEF obs, L, w
  <2>8. \A e \in 1 .. w : L - w + e \in DOMAIN ledger /\ L - w + e > settled
    BY <1>0, <2>1, <2>7
  <2>9. \A e \in DOMAIN obs : \A a, b \in DOMAIN obs[e] :
          domain[a] = domain[b] => obs[e][a] = obs[e][b]
    BY <2>5, <2>6, <2>8 DEF LedgerRests
  <2> QED
    BY <2>1, <2>5, <2>6, <2>9 DEF obs
<1> QED
  BY <1>1, <1>2

LEMMA CapturedStep == TypeOK /\ LedgerRests => CapturedReadsAsOne
<1> SUFFICES ASSUME TypeOK, LedgerRests, CaptureSettled, NEW cluster \in KeyClusters(Seats)
             PROVE  /\ \A a, b \in DOMAIN cluster :
                         domain[a] = domain[b] =>
                             \E blk \in Floor(cluster) : {cluster[a], cluster[b]} \subseteq blk
                    /\ (Len(seats) >= 2 /\ Cardinality({domain[k] : k \in DOMAIN cluster}) = 1) =>
                         \/ CapturedQuorum(Seats)
                         \/ Captured(Seats, cluster, Recent(ledger, quorum.window),
                                     quorum.minEpochs)
  BY DEF CapturedReadsAsOne
<1> DEFINE obs == Recent(ledger, quorum.window)
           P == PairsThat(cluster, obs, quorum.minEpochs, {"refuted", "unobserved"})
           B == Floor(cluster)
<1>1. /\ Len(obs) \in Nat /\ DOMAIN obs = 1 .. Len(obs)
      /\ \A e \in DOMAIN obs : \A a, b \in DOMAIN obs[e] :
           domain[a] = domain[b] => obs[e][a] = obs[e][b]
  BY RecentIsSettled
<1>2. quorum.minEpochs \in Nat
  BY QuorumsAssumption DEF TypeOK
<1>3. Joins(B, cluster, P)
  BY SeatsDomain, FloorIsFinest DEF Floor
<1> HIDE DEF obs
<1>4. ASSUME NEW a \in DOMAIN cluster, NEW b \in DOMAIN cluster, domain[a] = domain[b]
      PROVE  \E blk \in B : {cluster[a], cluster[b]} \subseteq blk
  <2> DEFINE p == {a, b}
  <2>1. CASE cluster[a] = cluster[b]
    BY <1>3, <2>1 DEF Joins, IsPartition, Named
  <2>2. CASE cluster[a] # cluster[b]
    <3>1. p \in Pairs(cluster)
      BY <2>2 DEF Pairs
    <3>2. Differential(obs, p) = {}
      BY <1>1, <1>4 DEF Differential, Common
    <3> HIDE DEF p
    <3>3. p \in P
      BY <1>1, <1>2, <3>1, <3>2, VerdictCases DEF PairsThat
    <3>4. PICK blk \in B : {cluster[k] : k \in p} \subseteq blk
      BY <1>3, <3>3 DEF Joins
    <3> QED
      BY <3>4 DEF p
  <2> QED
    BY <2>1, <2>2
<1>5. ASSUME Len(seats) >= 2, Cardinality({domain[k] : k \in DOMAIN cluster}) = 1,
             ~CapturedQuorum(Seats)
      PROVE  Captured(Seats, cluster, obs, quorum.minEpochs)
  <2> DEFINE Of == {domain[k] : k \in DOMAIN cluster}
             dom == [k \in DOMAIN cluster |-> domain[k]]
  <2>1. IsFiniteSet(DOMAIN cluster)
    BY SeatsDomain, KeyClusterFinite
  <2>2. IsFiniteSet(Of)
    <3>1. dom \in Surjection(DOMAIN cluster, Of)
      BY DEF Surjection
    <3> HIDE DEF dom, Of
    <3> QED
      BY <2>1, <3>1, FS_Surjection
  <2>3. PICK x : Of = {x}
    <3> HIDE DEF Of
    <3> QED
      BY <1>5, <2>2, FS_Singleton DEF Of
  <2>4. \A a, b \in DOMAIN cluster : domain[a] = domain[b]
    BY <2>3
  <2>5. \A u, v \in Named(cluster) : \E blk \in B : {u, v} \subseteq blk
    BY <1>4, <2>4 DEF Named
  <2> HIDE DEF B, P
  <2>6. \A c, d \in B : c = d
    <3>1. ASSUME NEW c \in B, NEW d \in B PROVE c = d
      <4>1. IsPartition(B, Named(cluster))
        BY <1>3 DEF Joins
      <4>2. PICK u \in c, v \in d : u \in Named(cluster) /\ v \in Named(cluster)
        BY <4>1 DEF IsPartition
      <4>3. PICK blk \in B : u \in blk /\ v \in blk
        BY <2>5, <4>2
      <4>4. blk = c /\ blk = d
        BY <4>1, <4>2, <4>3 DEF IsPartition
      <4> QED
        BY <4>4
    <3> QED
      BY <3>1
  <2>7. B = {} \/ \E c : B = {c}
    BY <2>6
  <2>8. Cardinality(B) <= 1
    <3>1. Cardinality(B) = 0 \/ Cardinality(B) = 1
      BY <2>7, FS_EmptySet, FS_Singleton
    <3> QED
      BY <3>1
  <2>9. Effective(Seats) >= 2
    <3>1. Effective(Seats) \in Nat /\ Len(Seats) >= 2
      BY <1>5, SeatsDomain, ClustersFinite
    <3> QED
      BY <1>5, <3>1 DEF CapturedQuorum
  <2> QED
    BY <2>8, <2>9 DEF Captured, B, Floor, obs
<1> QED
  BY <1>4, <1>5 DEF obs

(* Keys that have shared a failure domain for the whole window are one in  *)
(* the floor, and a quorum that is all of one domain raises the alarm, for *)
(* any number of keys, seats and epochs and however clusters came out.     *)
THEOREM QuorumCapturedReadsAsOne == Spec => []CapturedReadsAsOne
<1>1. Init => TypeOK /\ LedgerRests
  BY QuorumInit DEF Init, LedgerRests
<1>2. TypeOK /\ LedgerRests /\ [Next]_vars => (TypeOK /\ LedgerRests)'
  BY QuorumTypesStep, LedgerStep
<1> QED
  BY <1>1, <1>2, CapturedStep, PTL DEF Spec
===============================================================================
