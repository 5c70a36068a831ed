---------------------------- MODULE OrderingProofs ----------------------------
(***************************************************************************)
(* Theorems about the receipt verdict (Ordering) and about the reliers     *)
(* that fold it (ReceiptGossip), for every set of ids, subjects, rounds    *)
(* and holders and for lists of every length.                              *)
(***************************************************************************)
EXTENDS ReceiptGossip, TLAPS, WellFoundedInduction, FiniteSetTheorems

\* Every reachable state is well typed.
THEOREM TypeCorrect == Spec => []TypeOK
<1>1. Init => TypeOK
  BY DEF Init, TypeOK
<1>2. TypeOK /\ [Next]_vars => TypeOK'
  <2> SUFFICES ASSUME TypeOK, [Next]_vars PROVE TypeOK'
    OBVIOUS
  <2>1. ASSUME NEW r \in Receipt, EmitHonest(r) \/ EmitRogue(r)
        PROVE  TypeOK'
    BY <2>1 DEF TypeOK, EmitHonest, EmitRogue, Sign
  <2>2. ASSUME NEW h \in Holder, NEW r \in issued, Deliver(h, r)
        PROVE  TypeOK'
    BY <2>2 DEF TypeOK, Deliver
  <2>3. CASE UNCHANGED vars
    BY <2>3 DEF TypeOK, vars
  <2> QED
    BY <2>1, <2>2, <2>3 DEF Next
<1> QED
  BY <1>1, <1>2, PTL DEF Spec

-------------------------------------------------------------------------------
(* The verdict on one list. *)

\* A non-empty set of naturals has a least element.
LEMMA NatMin ==
  ASSUME NEW T, T \subseteq Nat, T # {}
  PROVE  \E n \in T : \A m \in T : n <= m
<1>1. PICK n \in T : \A m \in T : ~ (<<m, n>> \in OpToRel(<, Nat))
  BY WFMin, NatLessThanWellFounded
<1>2. ASSUME NEW m \in T PROVE n <= m
  <2>1. ~ (m < n)
    BY <1>1 DEF OpToRel
  <2> QED
    BY <2>1
<1> QED
  BY <1>2

\* by_id resolves every id that occurs to a receipt that carries it.
LEMMA ByIdResolves ==
  ASSUME NEW rs \in Seq(Receipt), NEW s, NEW p \in Ids(rs, s)
  PROVE  ById(rs, s, p) \in BySubject(rs, s) /\ rs[ById(rs, s, p)].id = p
<1> DEFINE With == {i \in BySubject(rs, s) : rs[i].id = p}
           Dist == {Len(rs) - i : i \in With}
<1>1. With # {} /\ With \subseteq 1 .. Len(rs)
  BY DEF Ids, BySubject
<1>2. Dist \subseteq Nat /\ Dist # {}
  BY <1>1
<1>3. PICK n \in Dist : \A m \in Dist : n <= m
  BY <1>2, NatMin
<1>4. PICK i \in With : n = Len(rs) - i
  BY <1>3
<1>5. ASSUME NEW j \in With PROVE j <= i
  <2>1. Len(rs) - i <= Len(rs) - j
    BY <1>3, <1>4
  <2>2. i \in Nat /\ j \in Nat /\ Len(rs) \in Nat
    BY <1>1
  <2> QED
    BY <2>1, <2>2
<1>6. /\ i \in BySubject(rs, s)
      /\ rs[i].id = p
      /\ \A j \in BySubject(rs, s) : rs[j].id = p => j <= i
  BY <1>5
<1> QED
  BY <1>6 DEF ById

\* A list that reads "ordered" is one chain: although check_ordering looks at
\* one link at a time, no receipt can hide beside the chain or share a rank.
THEOREM OrderedListIsChain ==
  ASSUME NEW rs \in Seq(Receipt), NEW s,
         SubjectState(rs, s) = "ordered"
  PROVE  Chained(rs, s)
<1> DEFINE B    == BySubject(rs, s)
           K(i) == Key(rs, i)
           P(i) == ById(rs, s, rs[i].prev)
<1>1. Forks(rs, s) = {} /\ Dangling(rs, s) = {} /\ Backdates(rs, s) = {}
  BY DEF SubjectState
<1>2. ASSUME NEW i \in B PROVE rs[i] \in Receipt /\ K(i) \in Nat
  <2>1. rs[i] \in Receipt
    BY DEF BySubject
  <2> QED
    BY <2>1, OrderingAssumption DEF Key, Receipt
<1>3. ASSUME NEW i \in B, rs[i].prev # Null
      PROVE  P(i) \in B /\ rs[P(i)].id = rs[i].prev /\ K(P(i)) < K(i)
  <2>1. rs[i].prev \in Ids(rs, s)
    BY <1>1, <1>3 DEF Dangling
  <2>2. P(i) \in B /\ rs[P(i)].id = rs[i].prev
    BY <2>1, ByIdResolves
  <2>3. ~ (K(i) <= K(P(i)))
    BY <1>1, <2>1 DEF Backdates
  <2> QED
    BY <1>2, <2>2, <2>3
<1>4. ASSUME NEW i \in B, NEW j \in B, i # j PROVE rs[i].prev # rs[j].prev
  BY <1>1, <1>4 DEF Forks
<1> DEFINE Good(a, b) == /\ rs[b].prev # Null
                         /\ P(b) = a \/ K(a) < K(P(b))
           Bad == {ab \in B \X B : /\ ab[1] # ab[2]
                                   /\ K(ab[1]) <= K(ab[2])
                                   /\ ~ Good(ab[1], ab[2])}
           Size(ab) == K(ab[1]) + K(ab[2])
<1>5. Bad = {}
  <2> SUFFICES ASSUME Bad # {} PROVE FALSE
    OBVIOUS
  <2> DEFINE Sizes == {Size(ab) : ab \in Bad}
  <2>1. Sizes # {} /\ Sizes \subseteq Nat
    BY <1>2
  <2>2. PICK n \in Sizes : \A m \in Sizes : n <= m
    BY <2>1, NatMin
  <2>3. PICK ab \in Bad : n = Size(ab)
    BY <2>2
  <2> DEFINE a == ab[1]
             b == ab[2]
  <2>4. a \in B /\ b \in B /\ a # b /\ K(a) <= K(b) /\ ~ Good(a, b)
    BY <2>3
  <2>5. ASSUME NEW c \in B, NEW d \in B, c # d, K(c) <= K(d),
               K(c) + K(d) < K(a) + K(b)
        PROVE  Good(c, d)
    <3>1. <<c, d>> \in Bad => K(c) + K(d) \in Sizes
      <4>1. Size(<<c, d>>) = K(c) + K(d)
        OBVIOUS
      <4> HIDE DEF Bad, K
      <4> QED
        BY <4>1
    <3>2. K(c) + K(d) \notin Sizes
      <4>1. n = K(a) + K(b)
        BY <2>3
      <4>2. K(a) + K(b) \in Nat /\ K(c) + K(d) \in Nat
        <5>1. a \in B /\ b \in B /\ c \in B /\ d \in B
          BY <2>4
        <5> HIDE DEF a, b, B, K
        <5>2. K(a) \in Nat /\ K(b) \in Nat /\ K(c) \in Nat /\ K(d) \in Nat
          BY <1>2, <5>1
        <5> QED
          BY <5>2
      <4> HIDE DEF Sizes, K
      <4> QED
        BY <4>1, <4>2, <2>2, <2>5
    <3> QED
      BY <3>1, <3>2, <2>5
  <2>6. CASE rs[a].prev = Null
    <3>1. rs[b].prev # Null
      BY <2>4, <2>6, <1>4
    <3>2. P(b) \in B /\ K(P(b)) < K(b) /\ P(b) # a /\ K(P(b)) <= K(a)
      BY <3>1, <2>4, <1>2, <1>3
    <3>3. Good(P(b), a)
      BY <3>2, <2>5, <2>4, <1>2
    <3> QED
      BY <3>3, <2>6
  <2>7. CASE rs[a].prev # Null /\ rs[b].prev = Null
    <3>1. P(a) \in B /\ K(P(a)) < K(a) /\ rs[P(a)].id = rs[a].prev
      BY <2>4, <2>7, <1>3
    <3>2. P(a) # b /\ K(P(a)) <= K(b) /\ K(P(a)) + K(b) < K(a) + K(b)
      BY <3>1, <2>4, <1>2
    <3>3. Good(P(a), b)
      BY <3>1, <3>2, <2>5, <2>4
    <3> QED
      BY <3>3, <2>7
  <2>8. CASE rs[a].prev # Null /\ rs[b].prev # Null
    <3> DEFINE p == P(b)
               q == P(a)
    <3>1. p \in B /\ K(p) < K(b) /\ rs[p].id = rs[b].prev /\ p # a /\ K(p) <= K(a)
      BY <2>4, <2>8, <1>2, <1>3
    <3>2. q \in B /\ K(q) < K(a) /\ rs[q].id = rs[a].prev
      BY <2>4, <2>8, <1>3
    <3>3. p # q
      BY <3>1, <3>2, <2>4, <1>4
    <3>4. K(p) + K(a) < K(a) + K(b) /\ K(q) + K(b) < K(a) + K(b)
      BY <3>1, <3>2, <2>4, <1>2
    <3>5. Good(p, a)
      BY <3>1, <3>4, <2>5, <2>4
    <3>6. K(p) < K(q)
      BY <3>5, <3>3
    <3>7. q # b /\ K(q) <= K(b)
      BY <3>2, <2>4, <1>2
    <3>8. Good(q, b)
      BY <3>2, <3>4, <3>7, <2>5, <2>4
    <3>9. K(q) < K(p)
      BY <3>8, <3>3
    <3> QED
      BY <3>6, <3>9, <3>1, <3>2, <1>2
  <2> QED
    BY <2>6, <2>7, <2>8
<1>6. ASSUME NEW a \in B, NEW b \in B, a # b, K(a) <= K(b)
      PROVE  Good(a, b)
  <2>1. <<a, b>> \notin Bad
    BY <1>5
  <2> QED
    BY <2>1, <1>6
<1>7. ASSUME NEW i \in B, NEW j \in B, i # j PROVE K(i) # K(j)
  <2> SUFFICES ASSUME K(i) = K(j) PROVE FALSE
    OBVIOUS
  <2>1. Good(i, j)
    BY <1>6, <1>7, <1>2
  <2> QED
    BY <2>1, <1>2, <1>3
<1>8. ASSUME NEW i \in B, rs[i].prev = Null, NEW j \in B PROVE K(i) <= K(j)
  <2> SUFFICES ASSUME K(j) < K(i) PROVE FALSE
    BY <1>2
  <2>1. j # i /\ K(j) <= K(i)
    BY <1>2
  <2> QED
    BY <2>1, <1>6, <1>8
<1>9. ASSUME NEW i \in B, rs[i].prev # Null, NEW j \in B, K(j) < K(i)
      PROVE  K(j) <= K(P(i))
  <2>1. j # i /\ K(j) <= K(i)
    BY <1>9, <1>2
  <2>2. Good(j, i)
    BY <2>1, <1>6
  <2> QED
    BY <2>2, <1>9, <1>2, <1>3
<1> HIDE DEF K, P, B
<1>10. ASSUME NEW i \in B
       PROVE  \/ rs[i].prev = Null /\ \A j \in B : K(i) <= K(j)
              \/ \E p \in B : /\ rs[p].id = rs[i].prev
                              /\ K(p) < K(i)
                              /\ \A j \in B : K(j) < K(i) => K(j) <= K(p)
  BY <1>3, <1>8, <1>9
<1> QED
  BY <1>7, <1>10 DEF Chained, K, P, B

\* Whatever was lost, delayed or reordered on the way, a holder that reads
\* "ordered" for a subject holds one chain of it.
THEOREM OrderedHoldersHoldChains == Spec => []OrderedMeansChain
<1>1. TypeOK => OrderedMeansChain
  BY OrderedListIsChain DEF TypeOK, OrderedMeansChain, State
<1> QED
  BY <1>1, TypeCorrect, PTL

-------------------------------------------------------------------------------
(* What one more receipt does to a verdict. *)

\* Appending a receipt keeps every position and its receipt.
LEMMA AppendKeeps ==
  ASSUME NEW rs \in Seq(Receipt), NEW r \in Receipt, NEW s
  PROVE  /\ BySubject(rs, s) \subseteq BySubject(Append(rs, r), s)
         /\ \A i \in BySubject(rs, s) : Append(rs, r)[i] = rs[i]
         /\ Ids(rs, s) \subseteq Ids(Append(rs, r), s)
<1>1. ASSUME NEW i \in BySubject(rs, s)
      PROVE  i \in BySubject(Append(rs, r), s) /\ Append(rs, r)[i] = rs[i]
  BY <1>1 DEF BySubject
<1> QED
  BY <1>1 DEF Ids

\* A fork stays a fork.
LEMMA ForkStays ==
  ASSUME NEW rs \in Seq(Receipt), NEW r \in Receipt, NEW s,
         Forks(rs, s) # {}
  PROVE  Forks(Append(rs, r), s) # {}
<1>1. PICK i \in BySubject(rs, s), j \in BySubject(rs, s) :
        j # i /\ rs[j].prev = rs[i].prev
  BY DEF Forks
<1>2. /\ i \in BySubject(Append(rs, r), s) /\ Append(rs, r)[i] = rs[i]
      /\ j \in BySubject(Append(rs, r), s) /\ Append(rs, r)[j] = rs[j]
  <2>1. BySubject(rs, s) \subseteq BySubject(Append(rs, r), s)
    BY AppendKeeps
  <2>2. \A k \in BySubject(rs, s) : Append(rs, r)[k] = rs[k]
    BY AppendKeeps
  <2> QED
    BY <2>1, <2>2
<1>3. i \in Forks(Append(rs, r), s)
  BY <1>1, <1>2 DEF Forks
<1> QED
  BY <1>3

\* As long as an id stands for one receipt, a backdate stays a backdate.
LEMMA BackdateStays ==
  ASSUME NEW rs \in Seq(Receipt), NEW r \in Receipt, NEW s,
         \A p, q \in Range(Append(rs, r)) : p.id = q.id => p = q,
         Backdates(rs, s) # {}
  PROVE  Backdates(Append(rs, r), s) # {}
<1> DEFINE ext == Append(rs, r)
<1>1. PICK i \in BySubject(rs, s) :
        /\ rs[i].prev \in Ids(rs, s)
        /\ Key(rs, i) <= Key(rs, ById(rs, s, rs[i].prev))
  BY DEF Backdates
<1> DEFINE p == ById(rs, s, rs[i].prev)
           q == ById(ext, s, rs[i].prev)
<1>2. p \in BySubject(rs, s) /\ rs[p].id = rs[i].prev
  BY <1>1, ByIdResolves
<1>3. ext \in Seq(Receipt) /\ rs[i].prev \in Ids(ext, s)
  BY <1>1, AppendKeeps
<1>4. q \in BySubject(ext, s) /\ ext[q].id = rs[i].prev
  BY <1>3, ByIdResolves
<1>5. /\ i \in BySubject(ext, s) /\ p \in BySubject(ext, s)
      /\ ext[i] = rs[i] /\ ext[p] = rs[p]
  <2> HIDE DEF p
  <2>1. BySubject(rs, s) \subseteq BySubject(ext, s)
    BY AppendKeeps
  <2>2. \A k \in BySubject(rs, s) : ext[k] = rs[k]
    BY AppendKeeps
  <2> QED
    BY <1>1, <1>2, <2>1, <2>2
<1>6. ext[q] = ext[p]
  <2>1. ext[q] \in Range(ext) /\ ext[p] \in Range(ext)
    BY <1>4, <1>5 DEF Range, BySubject
  <2> QED
    BY <2>1, <1>2, <1>4, <1>5
<1>7. i \in Backdates(ext, s)
  BY <1>1, <1>3, <1>5, <1>6 DEF Backdates, Key
<1> QED
  BY <1>7

\* Ids are hashes, and holders hold only what was signed.
IdsIdentify == \A q, r \in issued : q.id = r.id => q = r
HeldWasIssued == \A h \in Holder : Range(held[h]) \subseteq issued
IInv == TypeOK /\ IdsIdentify /\ HeldWasIssued

\* What a delivered receipt leaves in the holder's list.
LEMMA RangeOfAppend ==
  ASSUME NEW S, NEW rs \in Seq(S), NEW r \in S
  PROVE  Range(Append(rs, r)) = Range(rs) \cup {r}
<1>1. ASSUME NEW x \in Range(rs) PROVE x \in Range(Append(rs, r))
  <2>1. PICK i \in DOMAIN rs : x = rs[i]
    BY DEF Range
  <2>2. i \in DOMAIN Append(rs, r) /\ Append(rs, r)[i] = x
    BY <2>1
  <2> QED
    BY <2>2 DEF Range
<1>2. r \in Range(Append(rs, r))
  <2>1. Len(rs) + 1 \in DOMAIN Append(rs, r) /\ Append(rs, r)[Len(rs) + 1] = r
    OBVIOUS
  <2> QED
    BY <2>1 DEF Range
<1>3. ASSUME NEW x \in Range(Append(rs, r)) PROVE x \in Range(rs) \cup {r}
  <2>1. PICK i \in DOMAIN Append(rs, r) : x = Append(rs, r)[i]
    BY DEF Range
  <2>2. CASE i = Len(rs) + 1
    BY <2>1, <2>2
  <2>3. CASE i # Len(rs) + 1
    BY <2>1, <2>3 DEF Range
  <2> QED
    BY <2>2, <2>3
<1> QED
  BY <1>1, <1>2, <1>3

\* A step of Next is an emission, a delivery, or changes nothing.
LEMMA StepCases ==
  ASSUME [Next]_vars
  PROVE  \/ \E r \in Receipt : Sign(r)
         \/ \E h \in Holder, r \in issued : Deliver(h, r)
         \/ UNCHANGED vars
BY DEF Next, EmitHonest, EmitRogue

\* The strengthening of TypeOK that the action property needs.
LEMMA IInvHolds == Spec => []IInv
<1>1. Init => IInv
  BY DEF Init, IInv, TypeOK, IdsIdentify, HeldWasIssued, Range
<1>2. IInv /\ [Next]_vars => IInv'
  <2> SUFFICES ASSUME IInv, [Next]_vars PROVE IInv'
    OBVIOUS
  <2> USE DEF IInv
  <2>1. ASSUME NEW r \in Receipt, Sign(r) PROVE IInv'
    <3>1. issued' = issued \cup {r} /\ held' = held /\ FreshId(r)
      BY <2>1 DEF Sign
    <3>2. TypeOK'
      BY <3>1 DEF TypeOK
    <3>3. IdsIdentify'
      BY <3>1 DEF IdsIdentify, FreshId
    <3>4. HeldWasIssued'
      BY <3>1 DEF HeldWasIssued
    <3> QED
      BY <3>2, <3>3, <3>4
  <2>2. ASSUME NEW h \in Holder, NEW r \in issued, Deliver(h, r) PROVE IInv'
    <3>1. /\ held' = [held EXCEPT ![h] = Append(@, r)]
          /\ issued' = issued
          /\ r \in Receipt
          /\ held \in [Holder -> Seq(Receipt)]
      BY <2>2 DEF Deliver, TypeOK
    <3>2. TypeOK' /\ IdsIdentify'
      BY <3>1 DEF TypeOK, IdsIdentify
    <3>3. Range(held'[h]) = Range(held[h]) \cup {r}
      BY <3>1, RangeOfAppend
    <3>4. HeldWasIssued'
      BY <3>1, <3>3 DEF HeldWasIssued
    <3> QED
      BY <3>2, <3>4
  <2>3. CASE UNCHANGED vars
    BY <2>3 DEF vars, TypeOK, IdsIdentify, HeldWasIssued
  <2> QED
    BY <2>1, <2>2, <2>3, StepCases
<1> QED
  BY <1>1, <1>2, PTL DEF Spec

\* No later receipt clears a fork, and none returns a backdated subject to
\* "ordered": the verdicts that accuse an emitter survive every delivery.
THEOREM AccusationsPersist == Spec => GuiltNeverClears
<1> DEFINE Persist ==
      \A h \in Holder, s \in Subject :
        /\ State(h, s) = "forked" => State(h, s)' = "forked"
        /\ State(h, s) = "backdated" => State(h, s)' # "ordered"
<1>1. IInv /\ IInv' /\ [Next]_vars => [Persist]_vars
  <2> SUFFICES ASSUME IInv, IInv', [Next]_vars PROVE Persist
    OBVIOUS
  <2> USE DEF State
  <2>1. ASSUME held' = held PROVE Persist
    BY <2>1
  <2>2. ASSUME NEW h \in Holder, NEW r \in issued, Deliver(h, r)
        PROVE  Persist
    <3> SUFFICES ASSUME NEW g \in Holder, NEW s \in Subject
                 PROVE  /\ State(g, s) = "forked" => State(g, s)' = "forked"
                        /\ State(g, s) = "backdated" => State(g, s)' # "ordered"
      OBVIOUS
    <3>1. /\ held' = [held EXCEPT ![h] = Append(@, r)]
          /\ r \in Receipt
          /\ held \in [Holder -> Seq(Receipt)]
          /\ \A p, q \in issued' : p.id = q.id => p = q
          /\ Range(held'[h]) \subseteq issued'
      BY <2>2 DEF Deliver, IInv, TypeOK, IdsIdentify, HeldWasIssued
    <3>2. CASE g # h
      BY <3>1, <3>2
    <3>3. CASE g = h
      <4>1. held'[g] = Append(held[g], r) /\ held[g] \in Seq(Receipt)
        BY <3>1, <3>3
      <4>2. Forks(held[g], s) # {} => Forks(held'[g], s) # {}
        BY <4>1, <3>1, ForkStays
      <4>3. \A p, q \in Range(Append(held[g], r)) : p.id = q.id => p = q
        BY <4>1, <3>1, <3>3
      <4>4. Backdates(held[g], s) # {} => Backdates(held'[g], s) # {}
        BY <4>1, <4>3, <3>1, BackdateStays
      <4> QED
        BY <4>2, <4>4 DEF SubjectState
    <3> QED
      BY <3>2, <3>3
  <2> QED
    BY <2>1, <2>2, StepCases DEF Sign, vars
<1> QED
  BY <1>1, IInvHolds, PTL DEF Spec, GuiltNeverClears

-------------------------------------------------------------------------------
(* The verdicts implement the evidence rule. *)

\* In a list without repetition a fork is a pair of different receipts.
NoRepeats(rs) == \A i, j \in DOMAIN rs : rs[i] = rs[j] => i = j
ListsAreSets == \A h \in Holder : NoRepeats(held[h])

\* Without duplicate delivery no receipt is listed twice.
LEMMA ListsStaySets ==
  ASSUME Duplicates = FALSE
  PROVE  Spec => []ListsAreSets
<1>1. Init => ListsAreSets
  BY DEF Init, ListsAreSets, NoRepeats
<1>2. TypeOK /\ ListsAreSets /\ [Next]_vars => ListsAreSets'
  <2> SUFFICES ASSUME TypeOK, ListsAreSets, [Next]_vars PROVE ListsAreSets'
    OBVIOUS
  <2>1. ASSUME held' = held PROVE ListsAreSets'
    BY <2>1 DEF ListsAreSets
  <2>2. ASSUME NEW h \in Holder, NEW r \in issued, Deliver(h, r)
        PROVE  ListsAreSets'
    <3>1. /\ held' = [held EXCEPT ![h] = Append(@, r)]
          /\ held \in [Holder -> Seq(Receipt)]
          /\ \A i \in DOMAIN held[h] : held[h][i] # r
      BY <2>2 DEF Deliver, TypeOK, Range
    <3>2. NoRepeats(held'[h])
      <4>1. NoRepeats(held[h])
        BY DEF ListsAreSets
      <4> QED
        BY <3>1, <4>1 DEF NoRepeats
    <3> QED
      BY <3>1, <3>2 DEF ListsAreSets
  <2> QED
    BY <2>1, <2>2, StepCases DEF Sign, vars
<1> QED
  BY <1>1, <1>2, TypeCorrect, PTL DEF Spec

\* check_ordering's fork test, read as a fact about the receipts in hand.
LEMMA ForkedMeansTwo ==
  ASSUME NEW rs \in Seq(Receipt), NoRepeats(rs), NEW s
  PROVE  SubjectState(rs, s) = "forked"
         <=> \E q, r \in Range(rs) : Evidence!Contradicts(q, r) /\ r.subject = s
<1>1. ASSUME SubjectState(rs, s) = "forked"
      PROVE  \E q, r \in Range(rs) : Evidence!Contradicts(q, r) /\ r.subject = s
  <2>1. PICK i \in BySubject(rs, s), j \in BySubject(rs, s) :
          j # i /\ rs[j].prev = rs[i].prev
    BY <1>1 DEF SubjectState, Forks
  <2>2. /\ rs[i] \in Range(rs) /\ rs[j] \in Range(rs) /\ rs[i] # rs[j]
        /\ rs[i].subject = s /\ rs[j].subject = s
    BY <2>1 DEF BySubject, Range, NoRepeats
  <2> QED
    BY <2>1, <2>2 DEF Evidence!Contradicts
<1>2. ASSUME NEW q \in Range(rs), NEW r \in Range(rs),
             Evidence!Contradicts(q, r), r.subject = s
      PROVE  SubjectState(rs, s) = "forked"
  <2>1. PICK i \in DOMAIN rs, j \in DOMAIN rs : q = rs[i] /\ r = rs[j]
    BY DEF Range
  <2>2. i \in Forks(rs, s)
    BY <1>2, <2>1 DEF Forks, BySubject, Evidence!Contradicts
  <2> QED
    BY <2>2 DEF SubjectState
<1> QED
  BY <1>1, <1>2

\* Without duplicate delivery a holder convicts an emitter of equivocation at
\* the step that gives it the second of two conflicting receipts, and only
\* then: the fold over lists implements the evidence rule.
THEOREM GossipImplementsEvidence ==
  ASSUME Duplicates = FALSE
  PROVE  Spec => ForksAreEvidence
<1> DEFINE Seen == [h \in Holder |-> Range(held[h])]
           Convicted == [h \in Holder |->
                            {s \in Subject : State(h, s) = "forked"}]
<1>1. Init => Evidence!Init
  <2> SUFFICES ASSUME Init PROVE Evidence!Init
    OBVIOUS
  <2>1. ASSUME NEW h \in Holder PROVE Range(held[h]) = {}
    BY DEF Init, Range
  <2>2. ASSUME NEW h \in Holder, NEW s \in Subject PROVE State(h, s) # "forked"
    BY DEF Init, State, SubjectState, Forks, BySubject
  <2> QED
    BY <2>1, <2>2 DEF Evidence!Init
<1>2. /\ TypeOK /\ ListsAreSets /\ ListsAreSets' /\ [Next]_vars
      => [Evidence!Next]_<<Seen, Convicted>>
  <2> SUFFICES ASSUME TypeOK, ListsAreSets, ListsAreSets', [Next]_vars
               PROVE  [Evidence!Next]_<<Seen, Convicted>>
    OBVIOUS
  <2>1. ASSUME held' = held PROVE UNCHANGED <<Seen, Convicted>>
    BY <2>1 DEF State
  <2>2. ASSUME NEW h \in Holder, NEW r \in issued, Deliver(h, r)
        PROVE  Evidence!Next
    <3>1. /\ held' = [held EXCEPT ![h] = Append(@, r)]
          /\ r \in Receipt
          /\ held \in [Holder -> Seq(Receipt)]
      BY <2>2 DEF Deliver, TypeOK
    <3>2. r.subject \in Subject
      BY <3>1 DEF Receipt
    <3>3. held'[h] \in Seq(Receipt)
      BY <3>1
    <3>4. NoRepeats(held[h]) /\ NoRepeats(held'[h])
      BY DEF ListsAreSets
    <3>5. Range(held'[h]) = Range(held[h]) \cup {r}
      BY <3>1, RangeOfAppend
    <3>6. \A g \in Holder : g # h => held'[g] = held[g]
      BY <3>1
    <3>7. Seen' = [Seen EXCEPT ![h] = @ \cup {r}]
      BY <3>5, <3>6
    <3> DEFINE New == {r.subject : q \in {p \in Range(held[h]) :
                                            Evidence!Contradicts(p, r)}}
    <3>8. ASSUME NEW s \in Subject
          PROVE  State(h, s)' = "forked" <=> State(h, s) = "forked" \/ s \in New
      <4>1. State(h, s) = "forked"
            <=> \E p, q \in Range(held[h]) :
                    Evidence!Contradicts(p, q) /\ q.subject = s
        BY <3>1, <3>4, ForkedMeansTwo DEF State
      <4>2. State(h, s)' = "forked"
            <=> \E p, q \in Range(held[h]) \cup {r} :
                    Evidence!Contradicts(p, q) /\ q.subject = s
        <5>1. SubjectState(held'[h], s) = "forked"
              <=> \E p, q \in Range(held'[h]) :
                      Evidence!Contradicts(p, q) /\ q.subject = s
          BY <3>3, <3>4, ForkedMeansTwo
        <5> QED
          BY <5>1, <3>5 DEF State
      <4> QED
        BY <4>1, <4>2 DEF Evidence!Contradicts
    <3>9. ASSUME NEW g \in Holder, NEW s \in Subject, g # h
          PROVE  State(g, s)' = State(g, s)
      BY <3>6, <3>9 DEF State
    <3>10. New \subseteq Subject
      BY <3>2
    <3>11. Convicted' = [Convicted EXCEPT ![h] = @ \cup New]
      <4>1. ASSUME NEW g \in Holder
            PROVE  Convicted'[g] = IF g = h THEN Convicted[h] \cup New
                                            ELSE Convicted[g]
        BY <3>8, <3>9, <3>10
      <4> QED
        BY <4>1
    <3> QED
      BY <3>1, <3>7, <3>11 DEF Evidence!Next, Evidence!Learn
  <2> QED
    BY <2>1, <2>2, StepCases DEF Sign, vars
<1> QED
  BY <1>1, <1>2, TypeCorrect, ListsStaySets, PTL
     DEF Spec, ForksAreEvidence, Evidence!Spec

-------------------------------------------------------------------------------
(* The verdict as a function of the receipts held, whatever their order. *)

ForkIn(T) == \E q, r \in T : q # r /\ q.prev = r.prev
GapIn(T) == \E r \in T : r.prev # Null /\ \A q \in T : q.id # r.prev
BackdateIn(T) ==
    \E q, r \in T : r.prev = q.id /\ RoundKey[r.round] <= RoundKey[q.round]

VerdictOf(T) ==
    IF ForkIn(T) THEN "forked"
    ELSE IF GapIn(T) THEN "broken"
    ELSE IF BackdateIn(T) THEN "backdated"
    ELSE "ordered"

\* The three passes of check_ordering look at positions, by_id at the last
\* position of an id; none of it shows in the verdict of a list that repeats
\* no receipt.
LEMMA VerdictIsOfReceipts ==
  ASSUME NEW rs \in Seq(Receipt), NEW s, NoRepeats(rs),
         \A q, r \in Range(rs) : q.id = r.id => q = r
  PROVE  SubjectState(rs, s) = VerdictOf({r \in Range(rs) : r.subject = s})
<1> DEFINE T == {r \in Range(rs) : r.subject = s}
           B == BySubject(rs, s)
<1>1. \A i \in B : rs[i] \in T
  BY DEF BySubject, Range
<1>2. ASSUME NEW r \in T PROVE \E i \in B : rs[i] = r
  BY DEF BySubject, Range
<1>3. \A i, j \in B : rs[i] = rs[j] => i = j
  BY DEF BySubject, NoRepeats
<1>4. T \subseteq Range(rs)
  OBVIOUS
<1>5. Ids(rs, s) = {rs[i].id : i \in B}
  BY DEF Ids
<1> HIDE DEF T
<1>6. Forks(rs, s) # {} <=> ForkIn(T)
  <2>1. ASSUME Forks(rs, s) # {} PROVE ForkIn(T)
    <3>1. PICK i \in B, j \in B : j # i /\ rs[j].prev = rs[i].prev
      BY <2>1 DEF Forks
    <3> QED
      BY <3>1, <1>1, <1>3 DEF ForkIn
  <2>2. ASSUME ForkIn(T) PROVE Forks(rs, s) # {}
    <3>1. PICK q \in T, r \in T : q # r /\ q.prev = r.prev
      BY <2>2 DEF ForkIn
    <3>2. PICK i \in B, j \in B : rs[i] = q /\ rs[j] = r
      BY <1>2
    <3>3. i \in Forks(rs, s)
      BY <3>1, <3>2 DEF Forks
    <3> QED
      BY <3>3
  <2> QED
    BY <2>1, <2>2
<1>7. Dangling(rs, s) # {} <=> GapIn(T)
  <2>1. ASSUME Dangling(rs, s) # {} PROVE GapIn(T)
    <3>1. PICK i \in B : rs[i].prev # Null /\ rs[i].prev \notin Ids(rs, s)
      BY <2>1 DEF Dangling
    <3>2. ASSUME NEW q \in T PROVE q.id # rs[i].prev
      BY <3>1, <1>2, <1>5
    <3> QED
      BY <3>1, <3>2, <1>1 DEF GapIn
  <2>2. ASSUME GapIn(T) PROVE Dangling(rs, s) # {}
    <3>1. PICK r \in T : r.prev # Null /\ \A q \in T : q.id # r.prev
      BY <2>2 DEF GapIn
    <3>2. PICK i \in B : rs[i] = r
      BY <1>2
    <3>3. rs[i].prev \notin Ids(rs, s)
      BY <3>1, <3>2, <1>1, <1>5
    <3>4. i \in Dangling(rs, s)
      BY <3>1, <3>2, <3>3 DEF Dangling
    <3> QED
      BY <3>4
  <2> QED
    BY <2>1, <2>2
<1>8. Backdates(rs, s) # {} <=> BackdateIn(T)
  <2>1. ASSUME NEW i \in B, NEW p \in Ids(rs, s)
        PROVE  /\ ById(rs, s, p) \in B
               /\ rs[ById(rs, s, p)] \in T
               /\ rs[ById(rs, s, p)].id = p
    <3>1. ById(rs, s, p) \in B /\ rs[ById(rs, s, p)].id = p
      BY ByIdResolves
    <3> QED
      BY <3>1, <1>1
  <2>2. ASSUME Backdates(rs, s) # {} PROVE BackdateIn(T)
    <3>1. PICK i \in B :
            /\ rs[i].prev \in Ids(rs, s)
            /\ Key(rs, i) <= Key(rs, ById(rs, s, rs[i].prev))
      BY <2>2 DEF Backdates
    <3> QED
      BY <3>1, <2>1, <1>1 DEF BackdateIn, Key
  <2>3. ASSUME BackdateIn(T) PROVE Backdates(rs, s) # {}
    <3>1. PICK q \in T, r \in T :
            r.prev = q.id /\ RoundKey[r.round] <= RoundKey[q.round]
      BY <2>3 DEF BackdateIn
    <3>2. PICK i \in B, j \in B : rs[i] = r /\ rs[j] = q
      BY <1>2
    <3>3. rs[i].prev \in Ids(rs, s)
      BY <3>1, <3>2, <1>5
    <3>4. rs[ById(rs, s, rs[i].prev)] = q
      <4>1. /\ rs[ById(rs, s, rs[i].prev)] \in T
            /\ rs[ById(rs, s, rs[i].prev)].id = rs[i].prev
        BY <3>3, <2>1
      <4> QED
        BY <4>1, <3>1, <3>2, <1>4
    <3>5. i \in Backdates(rs, s)
      BY <3>1, <3>2, <3>3, <3>4 DEF Backdates, Key
    <3> QED
      BY <3>5
  <2> QED
    BY <2>2, <2>3
<1> QED
  BY <1>6, <1>7, <1>8 DEF SubjectState, VerdictOf, T

\* A list that holds signed receipts once each grades as its receipts do.
LEMMA StateIsVerdict ==
  ASSUME IInv, ListsAreSets, NEW h \in Holder, NEW s
  PROVE  State(h, s) = VerdictOf(Over(h, s))
<1>1. held[h] \in Seq(Receipt) /\ NoRepeats(held[h])
  BY DEF IInv, TypeOK, ListsAreSets
<1>2. \A q, r \in Range(held[h]) : q.id = r.id => q = r
  BY DEF IInv, HeldWasIssued, IdsIdentify
<1> QED
  BY <1>1, <1>2, VerdictIsOfReceipts DEF State, Over

\* Two holders of the same receipts come to the same verdict, whatever order
\* the receipts reached them in.
THEOREM OrderIsImmaterial ==
  ASSUME Duplicates = FALSE
  PROVE  Spec => []SameReceiptsSameVerdict
<1>1. IInv /\ ListsAreSets => SameReceiptsSameVerdict
  BY StateIsVerdict DEF SameReceiptsSameVerdict
<1> QED
  BY <1>1, IInvHolds, ListsStaySets, PTL

-------------------------------------------------------------------------------
(* The honest emitter. *)

Rank(r) == RoundKey[r.round]

\* The receipts of an emitter that chains: no two share a rank or a prev, the
\* first is below all others, and each other follows the one just below it.
OneLine(T) ==
    /\ \A q, r \in T : q # r => Rank(q) # Rank(r) /\ q.prev # r.prev
    /\ \A r \in T :
        \/ r.prev = Null /\ \A q \in T : Rank(r) <= Rank(q)
        \/ \E p \in T : /\ r.prev = p.id
                        /\ Rank(p) < Rank(r)
                        /\ \A q \in T : Rank(q) < Rank(r) => Rank(q) <= Rank(p)

HonestChains == \A s \in Honest : OneLine(IssuedOver(s))

\* Of a set of receipts that is not empty, one has the least rank.
LEMMA LeastRank ==
  ASSUME NEW T, T \subseteq Receipt, T # {}
  PROVE  \E r \in T : \A q \in T : Rank(r) <= Rank(q)
<1> DEFINE Ranks == {Rank(r) : r \in T}
<1>1. Ranks \subseteq Nat /\ Ranks # {}
  BY OrderingAssumption DEF Rank, Receipt
<1>2. PICK n \in Ranks : \A m \in Ranks : n <= m
  BY <1>1, NatMin
<1> QED
  BY <1>2

\* In one line the receipt nobody follows is above all others.
LEMMA HeadIsTop ==
  ASSUME NEW T, T \subseteq Receipt, OneLine(T),
         NEW q \in T, \A r \in T : r.prev # q.id
  PROVE  \A r \in T : Rank(r) <= Rank(q)
<1>0. \A r \in T : Rank(r) \in Nat
  BY OrderingAssumption DEF Rank, Receipt
<1> DEFINE Above == {r \in T : Rank(q) < Rank(r)}
<1> SUFFICES ASSUME Above # {} PROVE FALSE
  BY <1>0
<1>1. PICK u \in Above : \A r \in Above : Rank(u) <= Rank(r)
  BY LeastRank
<1>2. u \in T /\ Rank(q) < Rank(u)
  BY <1>1
<1>3. ~ (u.prev = Null /\ \A r \in T : Rank(u) <= Rank(r))
  BY <1>0, <1>2
<1>4. PICK p \in T : /\ u.prev = p.id
                     /\ Rank(p) < Rank(u)
                     /\ \A r \in T : Rank(r) < Rank(u) => Rank(r) <= Rank(p)
  BY <1>2, <1>3 DEF OneLine
<1>5. Rank(q) <= Rank(p)
  BY <1>2, <1>4
<1>6. ~ (Rank(q) < Rank(p))
  <2> SUFFICES ASSUME Rank(q) < Rank(p) PROVE FALSE
    OBVIOUS
  <2>1. p \in Above
    BY <1>4
  <2>2. Rank(u) <= Rank(p)
    BY <2>1, <1>1
  <2> QED
    BY <2>2, <1>0, <1>2, <1>4
<1>7. Rank(p) = Rank(q)
  BY <1>0, <1>4, <1>5, <1>6
<1>8. p = q
  BY <1>4, <1>7 DEF OneLine
<1> QED
  BY <1>2, <1>4, <1>8

\* The next receipt of an honest emitter prolongs its line.
LEMMA LineGrows ==
  ASSUME IInv, NEW r \in Receipt, FreshId(r), Extends(r),
         OneLine(IssuedOver(r.subject))
  PROVE  OneLine(IssuedOver(r.subject) \cup {r})
<1> DEFINE T == IssuedOver(r.subject)
<1>1. T \subseteq Receipt /\ T \subseteq issued
  BY DEF IInv, TypeOK, IssuedOver
<1>2. r \notin T
  BY <1>1 DEF FreshId
<1>3. \A q \in T \cup {r} : Rank(q) \in Nat
  BY <1>1, OrderingAssumption DEF Rank, Receipt
<1> HIDE DEF T
<1>4. CASE T = {}
  <2>1. r.prev = Null
    BY <1>4 DEF Extends, T
  <2> QED
    BY <1>3, <1>4, <2>1 DEF OneLine, T
<1>5. CASE T # {}
  <2>1. PICK q \in T : /\ r.prev = q.id
                       /\ Rank(q) < Rank(r)
                       /\ \A u \in T : u.prev # q.id
    BY <1>5 DEF Extends, Heads, Rank, T
  <2>2. OneLine(T)
    BY DEF T
  <2>3. \A u \in T : Rank(u) <= Rank(q)
    BY <1>1, <2>1, <2>2, HeadIsTop
  <2>4. \A u \in T : Rank(u) < Rank(r) /\ u.prev # r.prev
    BY <1>3, <2>1, <2>3
  <2>5. ASSUME NEW u \in T \cup {r}, NEW v \in T \cup {r}, u # v
        PROVE  Rank(u) # Rank(v) /\ u.prev # v.prev
    <3>1. CASE u \in T /\ v \in T
      BY <2>2, <2>5, <3>1 DEF OneLine
    <3>2. CASE u \in T /\ v = r
      BY <1>3, <2>4, <3>2
    <3>3. CASE u = r /\ v \in T
      BY <1>3, <2>4, <3>3
    <3> QED
      BY <2>5, <3>1, <3>2, <3>3
  <2>6. ASSUME NEW u \in T
        PROVE  \/ u.prev = Null /\ \A v \in T \cup {r} : Rank(u) <= Rank(v)
               \/ \E p \in T \cup {r} :
                    /\ u.prev = p.id
                    /\ Rank(p) < Rank(u)
                    /\ \A v \in T \cup {r} : Rank(v) < Rank(u)
                                              => Rank(v) <= Rank(p)
    <3>1. ~ (Rank(r) < Rank(u)) /\ Rank(u) <= Rank(r)
      BY <1>3, <2>4
    <3>2. CASE u.prev = Null /\ \A v \in T : Rank(u) <= Rank(v)
      BY <3>1, <3>2
    <3>3. CASE \E p \in T : /\ u.prev = p.id
                            /\ Rank(p) < Rank(u)
                            /\ \A v \in T : Rank(v) < Rank(u)
                                              => Rank(v) <= Rank(p)
      BY <3>1, <3>3
    <3> QED
      BY <2>2, <3>2, <3>3 DEF OneLine
  <2>7. /\ q \in T \cup {r}
        /\ r.prev = q.id
        /\ Rank(q) < Rank(r)
        /\ \A v \in T \cup {r} : Rank(v) < Rank(r) => Rank(v) <= Rank(q)
    BY <1>3, <2>1, <2>3
  <2>8. OneLine(T \cup {r})
    BY <2>5, <2>6, <2>7 DEF OneLine
  <2> QED
    BY <2>8 DEF T
<1> QED
  BY <1>4, <1>5

\* The honest emitters' receipts stay one line each, whatever the others sign.
LEMMA HonestChainsHolds == Spec => []HonestChains
<1>1. Init => HonestChains
  BY DEF Init, HonestChains, IssuedOver, OneLine
<1>2. IInv /\ HonestChains /\ [Next]_vars => HonestChains'
  <2> SUFFICES ASSUME IInv, HonestChains, [Next]_vars, NEW s \in Honest
               PROVE  OneLine(IssuedOver(s))'
    BY DEF HonestChains
  <2>1. OneLine(IssuedOver(s))
    BY DEF HonestChains
  <2>2. ASSUME IssuedOver(s)' = IssuedOver(s) PROVE OneLine(IssuedOver(s))'
    BY <2>1, <2>2 DEF OneLine, Rank
  <2>3. ASSUME NEW r \in Receipt, EmitHonest(r) \/ EmitRogue(r)
        PROVE  OneLine(IssuedOver(s))'
    <3>1. issued' = issued \cup {r} /\ FreshId(r)
      BY <2>3 DEF EmitHonest, EmitRogue, Sign
    <3>2. CASE r.subject # s
      <4>1. IssuedOver(s)' = IssuedOver(s)
        BY <3>1, <3>2 DEF IssuedOver
      <4> QED
        BY <4>1, <2>2
    <3>3. CASE r.subject = s
      <4>1. Extends(r)
        BY <2>3, <3>3 DEF EmitHonest, EmitRogue
      <4>2. OneLine(IssuedOver(s) \cup {r})
        BY <2>1, <3>1, <3>3, <4>1, LineGrows
      <4>3. IssuedOver(s)' = IssuedOver(s) \cup {r}
        BY <3>1, <3>3 DEF IssuedOver
      <4> QED
        BY <4>2, <4>3 DEF OneLine, Rank
    <3> QED
      BY <3>2, <3>3
  <2>4. ASSUME issued' = issued PROVE OneLine(IssuedOver(s))'
    <3>1. IssuedOver(s)' = IssuedOver(s)
      BY <2>4 DEF IssuedOver
    <3> QED
      BY <3>1, <2>2
  <2> QED
    BY <2>3, <2>4 DEF Next, Deliver, vars
<1> QED
  BY <1>1, <1>2, IInvHolds, PTL DEF Spec

\* What part of a line a holder may have: nothing in it accuses the emitter,
\* and a link is missing exactly if a receipt below a held one is.
LEMMA PartOfLine ==
  ASSUME NEW T, T \subseteq Receipt, OneLine(T), NEW S, S \subseteq T,
         \A q, r \in T : q.id = r.id => q = r
  PROVE  /\ ~ ForkIn(S)
         /\ ~ BackdateIn(S)
         /\ GapIn(S) <=> \E r \in S : \E q \in T : Rank(q) < Rank(r) /\ q \notin S
<1>0. \A r \in T : Rank(r) \in Nat /\ r.id \in Id
  BY OrderingAssumption DEF Rank, Receipt
<1>1. ~ ForkIn(S)
  BY DEF ForkIn, OneLine
<1>2. ASSUME NEW r \in T, r.prev # Null
      PROVE  \E p \in T :
                /\ r.prev = p.id
                /\ Rank(p) < Rank(r)
                /\ \A q \in T : Rank(q) < Rank(r) => Rank(q) <= Rank(p)
  BY <1>2 DEF OneLine
<1>3. ~ BackdateIn(S)
  <2> SUFFICES ASSUME NEW q \in S, NEW r \in S,
                      r.prev = q.id, Rank(r) <= Rank(q)
               PROVE  FALSE
    BY DEF BackdateIn, Rank
  <2>1. r.prev # Null
    BY <1>0, OrderingAssumption
  <2>2. PICK p \in T : r.prev = p.id /\ Rank(p) < Rank(r)
    BY <1>2, <2>1
  <2>3. p = q
    BY <2>2
  <2> QED
    BY <1>0, <2>2, <2>3
<1>4. ASSUME GapIn(S)
      PROVE  \E r \in S : \E q \in T : Rank(q) < Rank(r) /\ q \notin S
  <2>1. PICK r \in S : r.prev # Null /\ \A q \in S : q.id # r.prev
    BY <1>4 DEF GapIn
  <2>2. PICK p \in T : r.prev = p.id /\ Rank(p) < Rank(r)
    BY <1>2, <2>1
  <2> QED
    BY <2>1, <2>2
<1>5. ASSUME NEW r0 \in S, NEW q0 \in T, Rank(q0) < Rank(r0), q0 \notin S
      PROVE  GapIn(S)
  <2> DEFINE Late == {r \in S : \E q \in T : Rank(q) < Rank(r) /\ q \notin S}
  <2>1. Late # {} /\ Late \subseteq Receipt
    BY <1>5
  <2>2. PICK r \in Late : \A u \in Late : Rank(r) <= Rank(u)
    BY <2>1, LeastRank
  <2>3. PICK q \in T : Rank(q) < Rank(r) /\ q \notin S
    BY <2>2
  <2>4. r \in S /\ r \in T
    BY <2>2
  <2>5. ~ (r.prev = Null /\ \A u \in T : Rank(r) <= Rank(u))
    BY <1>0, <2>3, <2>4
  <2>6. PICK p \in T : /\ r.prev = p.id
                       /\ Rank(p) < Rank(r)
                       /\ \A u \in T : Rank(u) < Rank(r) => Rank(u) <= Rank(p)
    BY <2>4, <2>5 DEF OneLine
  <2>7. p \notin S
    <3> SUFFICES ASSUME p \in S PROVE FALSE
      OBVIOUS
    <3>1. Rank(q) <= Rank(p) /\ q # p
      BY <2>3, <2>6
    <3>2. Rank(q) < Rank(p)
      <4>1. Rank(q) # Rank(p)
        BY <3>1 DEF OneLine
      <4>2. Rank(q) \in Nat /\ Rank(p) \in Nat
        BY <1>0
      <4> QED
        BY <3>1, <4>1, <4>2
    <3>3. p \in Late
      BY <2>3, <3>2
    <3>4. Rank(r) <= Rank(p)
      BY <2>2, <3>3
    <3> QED
      BY <1>0, <2>4, <2>6, <3>4
  <2>8. r.prev # Null
    BY <1>0, <2>6, OrderingAssumption
  <2>9. \A u \in S : u.id # r.prev
    BY <2>6, <2>7
  <2> QED
    BY <2>4, <2>8, <2>9 DEF GapIn
<1> QED
  BY <1>1, <1>3, <1>4, <1>5

\* No loss, delay or reordering makes a holder accuse an emitter that chains:
\* its receipts read "broken" while one is missing below a held one, and
\* "ordered" otherwise.
THEOREM HonestAreNeverAccused ==
  ASSUME Duplicates = FALSE
  PROVE  Spec => []HonestVerdict
<1>1. IInv /\ ListsAreSets /\ HonestChains => HonestVerdict
  <2> SUFFICES ASSUME IInv, ListsAreSets, HonestChains,
                      NEW h \in Holder, NEW s \in Honest
               PROVE  State(h, s) =
                        IF \A r \in Over(h, s) : \A q \in IssuedOver(s) :
                            RoundKey[q.round] < RoundKey[r.round]
                            => q \in Over(h, s)
                        THEN "ordered" ELSE "broken"
    BY DEF HonestVerdict
  <2>1. State(h, s) = VerdictOf(Over(h, s))
    BY StateIsVerdict
  <2>2. /\ IssuedOver(s) \subseteq Receipt
        /\ OneLine(IssuedOver(s))
        /\ Over(h, s) \subseteq IssuedOver(s)
        /\ \A q, r \in IssuedOver(s) : q.id = r.id => q = r
    BY DEF IInv, TypeOK, IdsIdentify, HeldWasIssued, HonestChains, IssuedOver, Over
  <2>3. /\ ~ ForkIn(Over(h, s))
        /\ ~ BackdateIn(Over(h, s))
        /\ GapIn(Over(h, s))
            <=> \E r \in Over(h, s) : \E q \in IssuedOver(s) :
                    Rank(q) < Rank(r) /\ q \notin Over(h, s)
    BY <2>2, PartOfLine
  <2> QED
    BY <2>1, <2>3 DEF VerdictOf, Rank
<1> QED
  BY <1>1, IInvHolds, ListsStaySets, HonestChainsHolds, PTL

-------------------------------------------------------------------------------
(* Comparing lists. *)

\* "ordered" for a set of receipts whose ids identify them is one line, with
\* no link missing.
LEMMA OrderedIsLine ==
  ASSUME IInv, ListsAreSets, NEW h \in Holder, NEW s,
         State(h, s) = "ordered"
  PROVE  OneLine(Over(h, s)) /\ ~ GapIn(Over(h, s))
<1> DEFINE T == Over(h, s)
           B == BySubject(held[h], s)
<1>1. held[h] \in Seq(Receipt)
  BY DEF IInv, TypeOK
<1>2. Chained(held[h], s) /\ Forks(held[h], s) = {}
  BY <1>1, OrderedListIsChain DEF State, SubjectState
<1>3. \A i \in B : held[h][i] \in T
  BY DEF BySubject, Over, Range
<1>4. ASSUME NEW r \in T PROVE \E i \in B : held[h][i] = r
  BY DEF BySubject, Over, Range
<1>5. ~ GapIn(T)
  BY StateIsVerdict DEF VerdictOf
<1> HIDE DEF T, B
<1>6. ASSUME NEW q \in T, NEW r \in T, q # r
      PROVE  Rank(q) # Rank(r) /\ q.prev # r.prev
  <2>1. PICK i \in B, j \in B : held[h][i] = q /\ held[h][j] = r
    BY <1>4
  <2>2. i # j
    BY <2>1, <1>6
  <2>3. Key(held[h], i) # Key(held[h], j)
    BY <1>2, <2>2 DEF Chained, B
  <2>4. held[h][i].prev # held[h][j].prev
    BY <1>2, <2>2 DEF Forks, B
  <2> QED
    BY <2>1, <2>3, <2>4 DEF Key, Rank
<1>7. ASSUME NEW r \in T
      PROVE  \/ r.prev = Null /\ \A q \in T : Rank(r) <= Rank(q)
             \/ \E p \in T :
                  /\ r.prev = p.id
                  /\ Rank(p) < Rank(r)
                  /\ \A q \in T : Rank(q) < Rank(r) => Rank(q) <= Rank(p)
  <2>1. PICK i \in B : held[h][i] = r
    BY <1>4
  <2>2. CASE held[h][i].prev = Null /\ \A j \in B : Key(held[h], i) <= Key(held[h], j)
    <3>1. ASSUME NEW q \in T PROVE Rank(r) <= Rank(q)
      BY <2>1, <2>2, <1>4 DEF Key, Rank
    <3> QED
      BY <2>1, <2>2, <3>1
  <2>3. CASE \E p \in B : /\ held[h][p].id = held[h][i].prev
                          /\ Key(held[h], p) < Key(held[h], i)
                          /\ \A j \in B : Key(held[h], j) < Key(held[h], i)
                                           => Key(held[h], j) <= Key(held[h], p)
    <3>1. PICK p \in B : /\ held[h][p].id = held[h][i].prev
                         /\ Key(held[h], p) < Key(held[h], i)
                         /\ \A j \in B : Key(held[h], j) < Key(held[h], i)
                                          => Key(held[h], j) <= Key(held[h], p)
      BY <2>3
    <3>2. ASSUME NEW q \in T, Rank(q) < Rank(r) PROVE Rank(q) <= Rank(held[h][p])
      <4>1. PICK j \in B : held[h][j] = q
        BY <1>4
      <4> QED
        BY <2>1, <3>1, <3>2, <4>1 DEF Key, Rank
    <3>3. Rank(held[h][p]) < Rank(r) /\ r.prev = held[h][p].id
      BY <2>1, <3>1 DEF Key, Rank
    <3> QED
      BY <1>3, <3>1, <3>2, <3>3
  <2> QED
    BY <1>2, <2>2, <2>3 DEF Chained, B
<1>8. OneLine(T)
  BY <1>6, <1>7 DEF OneLine
<1> QED
  BY <1>5, <1>8 DEF T

\* The first receipt of a line past a part that misses no link follows the top
\* of that part, or is the first of all.
LEMMA FirstBeyond ==
  ASSUME NEW T, T \subseteq Receipt, OneLine(T), NEW S, S \subseteq T, ~ GapIn(S),
         \A q, r \in T : q.id = r.id => q = r,
         NEW u \in T, u \notin S,
         \A r \in T : r \notin S => Rank(u) <= Rank(r)
  PROVE  \/ S = {} /\ u.prev = Null
         \/ \E p \in S : u.prev = p.id /\ \A r \in S : Rank(r) <= Rank(p)
<1>0. \A r \in T : Rank(r) \in Nat
  BY OrderingAssumption DEF Rank, Receipt
<1>1. \A r \in S : \A q \in T : Rank(q) < Rank(r) => q \in S
  BY PartOfLine
<1>2. ASSUME NEW r \in S PROVE Rank(r) < Rank(u)
  <2>1. Rank(r) # Rank(u)
    BY DEF OneLine
  <2>2. ~ (Rank(u) < Rank(r))
    BY <1>1
  <2> QED
    BY <1>0, <2>1, <2>2
<1>3. CASE u.prev = Null /\ \A q \in T : Rank(u) <= Rank(q)
  <2>1. S = {}
    <3> SUFFICES ASSUME NEW r \in S PROVE FALSE
      OBVIOUS
    <3>1. Rank(r) < Rank(u) /\ Rank(u) <= Rank(r)
      BY <1>2, <1>3
    <3> QED
      BY <1>0, <3>1
  <2> QED
    BY <1>3, <2>1
<1>4. CASE \E p \in T : /\ u.prev = p.id
                        /\ Rank(p) < Rank(u)
                        /\ \A q \in T : Rank(q) < Rank(u) => Rank(q) <= Rank(p)
  <2>1. PICK p \in T : /\ u.prev = p.id
                       /\ Rank(p) < Rank(u)
                       /\ \A q \in T : Rank(q) < Rank(u) => Rank(q) <= Rank(p)
    BY <1>4
  <2>2. p \in S
    <3> SUFFICES ASSUME p \notin S PROVE FALSE
      OBVIOUS
    <3>1. Rank(u) <= Rank(p)
      OBVIOUS
    <3> QED
      BY <1>0, <2>1, <3>1
  <2>3. \A r \in S : Rank(r) <= Rank(p)
    BY <1>2, <2>1
  <2> QED
    BY <2>1, <2>2, <2>3
<1> QED
  BY <1>3, <1>4 DEF OneLine

\* Two complete lines of receipts with ids that identify them: one is part of
\* the other, or two receipts follow the same one.
LEMMA LinesFork ==
  ASSUME NEW U, U \subseteq Receipt, \A q, r \in U : q.id = r.id => q = r,
         NEW T, T \subseteq U, OneLine(T), ~ GapIn(T),
         NEW V, V \subseteq U, OneLine(V), ~ GapIn(V),
         ~ (T \subseteq V), ~ (V \subseteq T)
  PROVE  ForkIn(T \cup V)
<1> DEFINE S == T \cap V
<1>1. ~ GapIn(S)
  <2> SUFFICES ASSUME NEW r \in S, r.prev # Null, \A q \in S : q.id # r.prev
               PROVE  FALSE
    BY DEF GapIn
  <2>1. PICK p \in T : p.id = r.prev
    BY DEF GapIn
  <2>2. PICK q \in V : q.id = r.prev
    BY DEF GapIn
  <2>3. p = q
    BY <2>1, <2>2
  <2> QED
    BY <2>1, <2>3
<1> DEFINE TOnly == T \ S
           VOnly == V \ S
<1>2. /\ TOnly \subseteq Receipt /\ TOnly # {}
      /\ VOnly \subseteq Receipt /\ VOnly # {}
  OBVIOUS
<1>3. PICK u \in TOnly : \A r \in TOnly : Rank(u) <= Rank(r)
  BY <1>2, LeastRank
<1>4. PICK v \in VOnly : \A r \in VOnly : Rank(v) <= Rank(r)
  BY <1>2, LeastRank
<1>5. u \in T /\ v \in V /\ u # v /\ u \notin S /\ v \notin S
  BY <1>3, <1>4
<1>6. /\ S \subseteq T /\ S \subseteq V /\ T \subseteq Receipt /\ V \subseteq Receipt
      /\ \A r \in T : r \notin S => Rank(u) <= Rank(r)
      /\ \A r \in V : r \notin S => Rank(v) <= Rank(r)
      /\ \A r \in S : Rank(r) \in Nat
  BY <1>3, <1>4, OrderingAssumption DEF Rank, Receipt
<1> HIDE DEF S
<1>7. \/ S = {} /\ u.prev = Null
      \/ \E p \in S : u.prev = p.id /\ \A r \in S : Rank(r) <= Rank(p)
  BY <1>1, <1>5, <1>6, FirstBeyond
<1>8. \/ S = {} /\ v.prev = Null
      \/ \E p \in S : v.prev = p.id /\ \A r \in S : Rank(r) <= Rank(p)
  BY <1>1, <1>5, <1>6, FirstBeyond
<1>9. u.prev = v.prev
  <2>1. CASE S = {}
    BY <1>7, <1>8, <2>1
  <2>2. CASE S # {}
    <3>1. PICK p \in S : u.prev = p.id /\ \A r \in S : Rank(r) <= Rank(p)
      BY <1>7, <2>2
    <3>2. PICK q \in S : v.prev = q.id /\ \A r \in S : Rank(r) <= Rank(q)
      BY <1>8, <2>2
    <3>3. Rank(p) = Rank(q)
      BY <1>6, <3>1, <3>2
    <3>4. p = q
      BY <1>6, <3>3 DEF OneLine
    <3> QED
      BY <3>1, <3>2, <3>4
  <2> QED
    BY <2>1, <2>2
<1> QED
  BY <1>5, <1>9 DEF ForkIn

\* A list holds finitely many receipts.
LEMMA ListIsFinite ==
  ASSUME NEW rs \in Seq(Receipt)
  PROVE  IsFiniteSet(Range(rs))
<1>1. rs \in Surjection(1 .. Len(rs), Range(rs))
  BY DEF Surjection, Range
<1>2. IsFiniteSet(1 .. Len(rs))
  BY FS_Interval
<1> QED
  BY <1>1, <1>2, FS_Surjection

\* However many holders, receipts and rounds there are, and however the two
\* lists are put together, comparing them shows that one holder was behind or
\* that the emitter equivocated, and nothing else.
THEOREM ComparingExposes ==
  ASSUME Duplicates = FALSE
  PROVE  Spec => []ExchangeExposesEquivocation
<1>1. IInv /\ ListsAreSets => ExchangeExposesEquivocation
  <2> SUFFICES ASSUME IInv, ListsAreSets,
                      NEW h \in Holder, NEW g \in Holder, NEW s \in Subject,
                      State(h, s) = "ordered", State(g, s) = "ordered",
                      NEW ms \in Listings(Merged(h, g))
               PROVE  SubjectState(ms, s) =
                        IF Over(h, s) \subseteq Over(g, s)
                           \/ Over(g, s) \subseteq Over(h, s)
                        THEN "ordered" ELSE "forked"
    BY DEF ExchangeExposesEquivocation
  <2> DEFINE T == Over(h, s)
             V == Over(g, s)
             U == Merged(h, g)
  <2>1. /\ held[h] \in Seq(Receipt) /\ held[g] \in Seq(Receipt)
        /\ U \subseteq issued /\ issued \subseteq Receipt
        /\ \A q, r \in issued : q.id = r.id => q = r
    BY DEF IInv, TypeOK, HeldWasIssued, IdsIdentify, Merged
  <2>2. Cardinality(U) \in Nat
    <3>1. IsFiniteSet(Range(held[h])) /\ IsFiniteSet(Range(held[g]))
      BY <2>1, ListIsFinite
    <3>2. IsFiniteSet(U)
      BY <3>1, FS_Union DEF Merged
    <3> QED
      BY <3>2, FS_CardinalityType
  <2>3. /\ ms \in [1 .. Cardinality(U) -> U]
        /\ \A i, j \in 1 .. Cardinality(U) : ms[i] = ms[j] => i = j
        /\ \A r \in U : \E i \in 1 .. Cardinality(U) : ms[i] = r
    BY DEF Listings, Bijection, Injection, Surjection, IsInjective
  <2>4. ms \in Seq(Receipt) /\ NoRepeats(ms) /\ Range(ms) = U
    <3>1. \A r \in U : r \in Receipt
      BY <2>1
    <3> HIDE DEF U
    <3>2. ms \in [1 .. Cardinality(U) -> Receipt]
      BY <2>3, <3>1
    <3>3. ms \in Seq(Receipt)
      BY <2>2, <3>2
    <3>4. NoRepeats(ms) /\ Range(ms) = U
      BY <2>3 DEF NoRepeats, Range
    <3> QED
      BY <3>3, <3>4
  <2>5. SubjectState(ms, s) = VerdictOf({r \in U : r.subject = s})
    BY <2>1, <2>4, VerdictIsOfReceipts
  <2>6. {r \in U : r.subject = s} = T \cup V
    BY DEF Merged, Over
  <2>7. VerdictOf(T) = "ordered" /\ VerdictOf(V) = "ordered"
    BY StateIsVerdict
  <2>8. OneLine(T) /\ ~ GapIn(T) /\ OneLine(V) /\ ~ GapIn(V)
    BY OrderedIsLine
  <2>9. T \subseteq U /\ V \subseteq U
    BY DEF Merged, Over
  <2> HIDE DEF T, U, V
  <2>10. CASE T \subseteq V \/ V \subseteq T
    <3>1. T \cup V = T \/ T \cup V = V
      BY <2>10
    <3> QED
      BY <2>5, <2>6, <2>7, <2>10, <3>1 DEF T, V
  <2>11. CASE ~ (T \subseteq V \/ V \subseteq T)
    <3>1. ForkIn(T \cup V)
      BY <2>1, <2>8, <2>9, <2>11, LinesFork
    <3> QED
      BY <2>5, <2>6, <2>11, <3>1 DEF VerdictOf, T, V
  <2> QED
    BY <2>10, <2>11
<1> QED
  BY <1>1, IInvHolds, ListsStaySets, PTL

-------------------------------------------------------------------------------
(* The roll-up. *)

\* A fork over any subject puts the top severity into the roll-up.
LEMMA ForkRollsUp ==
  ASSUME NEW rs \in Seq(Receipt), NEW s, Forks(rs, s) # {}
  PROVE  RolledState(rs) \in {"forked", "broken"}
<1> DEFINE state == [i \in DOMAIN rs |-> SubjectState(rs, rs[i].subject)]
           Worst == {i \in DOMAIN rs :
                       \A j \in DOMAIN rs : Severity[state[j]] <= Severity[state[i]]}
           first == CHOOSE i \in Worst : \A j \in Worst : i <= j
<1>1. PICK k \in DOMAIN rs : rs[k].subject = s
  BY DEF Forks, BySubject
<1>2. state[k] = "forked"
  BY <1>1 DEF SubjectState
<1>3. \A i \in DOMAIN rs : state[i] \in States
  BY DEF SubjectState, States
<1>4. /\ Severity["forked"] = 3 /\ Severity["broken"] = 3
      /\ Severity["backdated"] = 2 /\ Severity["ordered"] = 0
  BY DEF Severity
<1> HIDE DEF state
<1>5. k \in Worst
  BY <1>1, <1>2, <1>3, <1>4 DEF States
<1>6. Worst \subseteq Nat /\ Worst # {}
  BY <1>5
<1>7. \E i \in Worst : \A j \in Worst : i <= j
  <2> HIDE DEF Worst
  <2> QED
    BY <1>6, NatMin
<1>8. first \in Worst
  BY <1>7
<1>9. Severity[state[k]] <= Severity[state[first]] /\ state[first] \in States
  BY <1>1, <1>3, <1>8
<1>10. state[first] \in {"forked", "broken"}
  BY <1>2, <1>4, <1>9 DEF States
<1>11. RolledState(rs) = state[first]
  BY <1>1 DEF RolledState, state
<1> QED
  BY <1>10, <1>11

\* A relier who reads the roll-up alone is never lulled: once it holds a fork,
\* no receipt over any subject makes the roll-up milder than forked or broken.
THEOREM RollUpKeepsGuilt == Spec => RolledGuiltStays
<1> DEFINE Stays == \A h \in Holder :
                      (\E s \in Subject : State(h, s) = "forked")
                      => RolledState(held[h])' \in {"forked", "broken"}
<1>1. TypeOK /\ [Next]_vars => [Stays]_vars
  <2> SUFFICES ASSUME TypeOK, [Next]_vars, NEW h \in Holder, NEW s \in Subject,
                      State(h, s) = "forked"
               PROVE  RolledState(held'[h]) \in {"forked", "broken"}
    OBVIOUS
  <2>1. held[h] \in Seq(Receipt) /\ Forks(held[h], s) # {}
    BY DEF TypeOK, State, SubjectState
  <2>2. CASE held'[h] = held[h]
    BY <2>1, <2>2, ForkRollsUp
  <2>3. ASSUME NEW r \in Receipt, held'[h] = Append(held[h], r)
        PROVE  RolledState(held'[h]) \in {"forked", "broken"}
    <3>1. Append(held[h], r) \in Seq(Receipt)
      BY <2>1
    <3>2. Forks(Append(held[h], r), s) # {}
      BY <2>1, ForkStays
    <3> QED
      BY <2>3, <3>1, <3>2, ForkRollsUp
  <2>4. held'[h] = held[h] \/ \E r \in Receipt : held'[h] = Append(held[h], r)
    BY StepCases DEF Sign, Deliver, TypeOK, vars
  <2> QED
    BY <2>2, <2>3, <2>4
<1> QED
  BY <1>1, TypeCorrect, PTL DEF Spec, RolledGuiltStays
===============================================================================
