------------------------------ MODULE ClaimProofs ------------------------------
(***************************************************************************)
(* Theorems about ClaimWatch, for every battery, claim, number of keys and *)
(* of arms, and for every digest.                                          *)
(***************************************************************************)
EXTENDS ClaimWatch, TLAPS, FiniteSetTheorems, SequenceTheorems, WellFoundedInduction

-------------------------------------------------------------------------------
(* Types, and the finiteness that counting needs. *)

Counted ==
  /\ TypeOK
  /\ IsFiniteSet(answers)
  /\ \A a \in DOMAIN arms : IsFiniteSet(arms[a].results)

LEMMA CountedInit == Init => Counted
<1> SUFFICES ASSUME Init PROVE Counted
  OBVIOUS
<1>1. TypeOK
  BY DEF Init, TypeOK
<1> QED
  BY <1>1, FS_EmptySet DEF Init, Counted

\* What is signed is signed by one of the keys.
LEMMA SignKeepsCounted ==
  ASSUME Counted, NEW k \in Keys, NEW m, Sign(k, m)
  PROVE  Counted'
<1>1. answers' = answers \cup {[key |-> k, over |-> m]}
      /\ UNCHANGED <<situation, entries, claim, arms>>
  BY DEF Sign
<1>2. IsFiniteSet(answers')
  BY <1>1, FS_AddElement DEF Counted
<1>3. TypeOK'
  BY <1>1 DEF Counted, TypeOK, Row
<1> QED
  BY <1>1, <1>2, <1>3 DEF Counted

\* Who pins, answers or files changes one field of the claim.
LEMMA ClaimKeepsCounted ==
  ASSUME Counted, UNCHANGED <<situation, entries, answers, arms>>,
         DOMAIN claim' = DOMAIN claim,
         \A t \in claim'.survival : t.sig \in answers,
         \A r \in claim'.refutations : r.type \in {"report", "fork"}
  PROVE  Counted'
BY DEF Counted, TypeOK, Row

\* Who commits or reports a row changes one field of an arm.
LEMMA ArmKeepsCounted ==
  ASSUME Counted, UNCHANGED <<situation, entries, answers, claim>>,
         NEW a \in DOMAIN arms, NEW arm \in [committed : BOOLEAN, results : SUBSET Row],
         IsFiniteSet(arm.results), arms' = [arms EXCEPT ![a] = arm]
  PROVE  Counted'
<1>1. arms' \in [situation.arms -> [committed : BOOLEAN, results : SUBSET Row]]
  BY DEF Counted, TypeOK
<1>2. Row' = Row
  BY DEF Row
<1>3. TypeOK'
  BY <1>1, <1>2 DEF Counted, TypeOK
<1>4. ASSUME NEW b \in DOMAIN arms' PROVE IsFiniteSet(arms'[b].results)
  <2>1. CASE b = a
    BY <2>1
  <2>2. CASE b # a
    BY <2>2 DEF Counted
  <2> QED
    BY <2>1, <2>2
<1> QED
  BY <1>3, <1>4 DEF Counted

LEMMA CountedStep == Counted /\ [Next]_vars => Counted'
<1> SUFFICES ASSUME Counted, [Next]_vars PROVE Counted'
  OBVIOUS
<1>0. TypeOK /\ arms \in [situation.arms -> [committed : BOOLEAN, results : SUBSET Row]]
  BY DEF Counted, TypeOK
<1>1. ASSUME NEW p \in situation.offers, Contribute(p) PROVE Counted'
  <2>1. entries' = Append(entries, p) /\ UNCHANGED <<situation, answers, claim, arms>>
    BY <1>1 DEF Contribute
  <2>2. TypeOK'
    BY <1>0, <2>1 DEF TypeOK, Row
  <2> QED
    BY <2>1, <2>2 DEF Counted
<1>2. CASE Pin
  <2>1. /\ UNCHANGED <<situation, entries, answers, arms>> /\ DOMAIN claim' = DOMAIN claim
        /\ claim'.survival = claim.survival /\ claim'.refutations = claim.refutations
    BY <1>0, <1>2 DEF Pin, TypeOK
  <2> QED
    BY <1>0, <2>1, ClaimKeepsCounted DEF TypeOK
<1>3. ASSUME NEW k \in Keys, NEW m \in AnyMessages, Sign(k, m) PROVE Counted'
  BY <1>3, SignKeepsCounted
<1>4. ASSUME NEW s \in answers, NEW i, NEW answer, Survive(s, i, answer) PROVE Counted'
  <2>1. Labelled(s, i, answer).sig = s
    BY DEF Labelled
  <2> HIDE DEF Labelled
  <2>2. /\ UNCHANGED <<situation, entries, answers, arms>> /\ DOMAIN claim' = DOMAIN claim
        /\ claim'.survival = claim.survival \cup {Labelled(s, i, answer)}
        /\ claim'.refutations = claim.refutations
    BY <1>0, <1>4 DEF Survive, TypeOK
  <2> QED
    BY <1>0, <2>1, <2>2, ClaimKeepsCounted DEF TypeOK
<1>5. ASSUME NEW type \in {"report", "fork"}, NEW certificate, File(type, certificate)
      PROVE  Counted'
  <2>1. /\ UNCHANGED <<situation, entries, answers, arms>> /\ DOMAIN claim' = DOMAIN claim
        /\ claim'.survival = claim.survival
        /\ claim'.refutations = claim.refutations \cup {[type |-> type, certificate |-> certificate]}
    BY <1>0, <1>5 DEF File, TypeOK
  <2> QED
    BY <1>0, <2>1, ClaimKeepsCounted DEF TypeOK
<1>6. ASSUME NEW a \in DOMAIN arms, Commit(a) PROVE Counted'
  <2> DEFINE arm == [arms[a] EXCEPT !.committed = TRUE]
  <2>1. arms[a] \in [committed : BOOLEAN, results : SUBSET Row]
    BY <1>0
  <2>2. arm \in [committed : BOOLEAN, results : SUBSET Row] /\ arm.results = arms[a].results
    BY <2>1
  <2>3. arms' = [arms EXCEPT ![a] = arm] /\ UNCHANGED <<situation, entries, answers, claim>>
    BY <1>6 DEF Commit
  <2>4. IsFiniteSet(arm.results)
    BY <2>2 DEF Counted
  <2> HIDE DEF arm
  <2> QED
    BY <2>2, <2>3, <2>4, ArmKeepsCounted
<1>7. ASSUME NEW a \in DOMAIN arms, NEW row \in Row, AddRow(a, row) PROVE Counted'
  <2> DEFINE arm == [arms[a] EXCEPT !.results = @ \cup {row}]
  <2>1. arms[a] \in [committed : BOOLEAN, results : SUBSET Row]
    BY <1>0
  <2>2. arm \in [committed : BOOLEAN, results : SUBSET Row]
        /\ arm.results = arms[a].results \cup {row}
    BY <2>1
  <2>3. arms' = [arms EXCEPT ![a] = arm] /\ UNCHANGED <<situation, entries, answers, claim>>
    BY <1>7 DEF AddRow
  <2>4. IsFiniteSet(arm.results)
    BY <2>2, FS_AddElement DEF Counted
  <2> HIDE DEF arm
  <2> QED
    BY <2>2, <2>3, <2>4, ArmKeepsCounted
<1>8. CASE UNCHANGED vars
  BY <1>8 DEF vars, Counted, TypeOK, Row
<1> QED
  BY <1>1, <1>2, <1>3, <1>4, <1>5, <1>6, <1>7, <1>8 DEF Next

LEMMA CountedHolds == Spec => []Counted
BY CountedInit, CountedStep, PTL DEF Spec

(* Type correctness of the battery, the answers, the claim and the arms.   *)
THEOREM ClaimTypes == Spec => []TypeOK
<1>1. Counted => TypeOK
  BY DEF Counted
<1> QED
  BY <1>1, CountedHolds, PTL

-------------------------------------------------------------------------------
(* Coverage. *)

\* A credited answer was signed, in its round, under the head the claim is pinned
\* to, over the drawn index, and is the settled one.
LEMMA CreditedIsSigned ==
  ASSUME Counted, NEW t \in claim.survival, Credited(Today, t)
  PROVE  /\ t.sig \in answers /\ t.sig.over.round = t.round
         /\ t.sig.over.head = claim.head
         /\ t.sig.over.answer = Settled(t.sig.over.index)
         /\ t.index = ChallengeIndex(t.round, claim.head, claim.count)
<1>1. t.sig \in answers
  BY DEF Counted, TypeOK
<1>2. Today.head = claim.head /\ Today.count = claim.count
      /\ Today.truths = [i \in {s.index : s \in claim.survival} |-> Settled(i)]
  BY DEF Today
<1>3. Today.truths[t.index] = Settled(t.index)
  BY <1>2
<1>4. t.sig.over = [round |-> t.round, head |-> claim.head, index |-> t.index,
                    answer |-> t.answer]
  BY <1>2 DEF Credited, Verifies, SignedMessage, AsCertificate
<1>5. t.answer = Settled(t.index)
      /\ t.index = ChallengeIndex(t.round, claim.head, claim.count)
  BY <1>2, <1>3 DEF Credited
<1> HIDE DEF Settled
<1> QED
  BY <1>1, <1>4, <1>5

(* A claim covers at most one probe per round somebody answered rightly.   *)
THEOREM ClaimCoverage == Spec => []CoverageIsDrawn
<1>1. Counted => CoverageIsDrawn
  <2> SUFFICES ASSUME Counted PROVE CoverageIsDrawn
    OBVIOUS
  <2> DEFINE Right == {t \in answers : t.over.head = claim.head
                                        /\ t.over.answer = Settled(t.over.index)}
             Answered == {s.over.round : s \in Right}
             drawn == [r \in Answered |-> ChallengeIndex(r, claim.head, claim.count)]
             Drawings == {drawn[r] : r \in Answered}
             rounds == [s \in Right |-> s.over.round]
  <2>1. IsFiniteSet(Right)
    BY FS_Subset DEF Counted
  <2>2. rounds \in Surjection(Right, Answered)
    BY DEF Surjection
  <2>3. IsFiniteSet(Answered)
    BY <2>1, <2>2, FS_Surjection
  <2>4. drawn \in Surjection(Answered, Drawings)
    BY DEF Surjection
  <2>5. IsFiniteSet(Drawings) /\ Cardinality(Drawings) <= Cardinality(Answered)
    BY <2>3, <2>4, FS_Surjection
  <2>6. ASSUME NEW i \in Covered(Today) PROVE i \in Drawings
    <3>1. PICK t \in claim.survival : Credited(Today, t) /\ i = t.index
      BY DEF Covered, Today
    <3>2. t.sig \in Right /\ t.sig.over.round = t.round
          /\ i = ChallengeIndex(t.round, claim.head, claim.count)
      BY <3>1, CreditedIsSigned
    <3>3. t.round \in Answered
      BY <3>2
    <3> QED
      BY <3>2, <3>3
  <2>7. Cardinality(Covered(Today)) <= Cardinality(Drawings)
        /\ IsFiniteSet(Covered(Today))
    BY <2>5, <2>6, FS_Subset
  <2>8. Cardinality(Covered(Today)) \in Nat /\ Cardinality(Drawings) \in Nat
        /\ Cardinality(Answered) \in Nat
    BY <2>3, <2>5, <2>7, FS_CardinalityType
  <2>9. Cardinality(Covered(Today)) <= Cardinality(Answered)
    BY <2>5, <2>7, <2>8
  <2> QED
    BY <2>9 DEF CoverageIsDrawn
<1> QED
  BY <1>1, CountedHolds, PTL

-------------------------------------------------------------------------------
(* The ranking. *)

(* An arm leads another only by a probe all answered and the other failed. *)
THEOREM ClaimRanking == Spec => []LeadRestsOnCommonProbe
<1>1. Counted => LeadRestsOnCommonProbe
  <2> SUFFICES ASSUME Counted, NEW a \in DOMAIN Ranked(arms), NEW b \in DOMAIN Ranked(arms),
                      Ranked(arms)[a] < Ranked(arms)[b]
               PROVE  \E p \in situation.offers :
                        /\ \A x \in Rankable(arms) : p \in SettledProbes(arms[x])
                        /\ \E row \in arms[b].results : row.probe = p /\ row.refuted
                        /\ \A row \in arms[a].results : row.probe = p => ~row.refuted
    BY DEF LeadRestsOnCommonProbe
  <2> DEFINE A == RefutedOnCommon(arms, a)
             B == RefutedOnCommon(arms, b)
  <2>1. a \in Rankable(arms) /\ b \in Rankable(arms) /\ Cardinality(A) < Cardinality(B)
    BY DEF Ranked
  <2>2. a \in DOMAIN arms /\ b \in DOMAIN arms
    BY <2>1 DEF Rankable
  <2>3. IsFiniteSet(A)
    <3> DEFINE Rows == {x \in arms[a].results : x.refuted /\ x.probe \in CommonDraw(arms)}
               probe == [x \in Rows |-> x.probe]
    <3>1. IsFiniteSet(Rows)
      BY <2>2, FS_Subset DEF Counted
    <3>2. A = {r.probe : r \in Rows}
      BY DEF RefutedOnCommon
    <3>3. probe \in Surjection(Rows, A)
      BY <3>2 DEF Surjection
    <3> QED
      BY <3>1, <3>3, FS_Surjection
  <2>4. ~(B \subseteq A)
    <3> SUFFICES ASSUME B \subseteq A PROVE FALSE
      OBVIOUS
    <3>1. IsFiniteSet(B) /\ Cardinality(B) <= Cardinality(A)
      BY <2>3, FS_Subset
    <3>2. Cardinality(A) \in Nat /\ Cardinality(B) \in Nat
      BY <2>3, <3>1, FS_CardinalityType
    <3> QED
      BY <2>1, <3>1, <3>2
  <2>5. PICK row \in arms[b].results :
          row.refuted /\ row.probe \in CommonDraw(arms) /\ row.probe \notin A
    BY <2>4 DEF RefutedOnCommon
  <2>6. row \in Row
    BY <2>2 DEF Counted, TypeOK
  <2>7. row.probe \in situation.offers
    BY <2>6 DEF Row
  <2>8. \A x \in Rankable(arms) : row.probe \in SettledProbes(arms[x])
    BY <2>5 DEF CommonDraw
  <2>9. \A other \in arms[a].results : other.probe = row.probe => ~other.refuted
    BY <2>5 DEF RefutedOnCommon
  <2> QED
    BY <2>5, <2>7, <2>8, <2>9
<1> QED
  BY <1>1, CountedHolds, PTL

-------------------------------------------------------------------------------
(* The battery as a fold. *)

\* A non-empty set of naturals has a least element.
LEMMA NatMin ==
  ASSUME NEW T, T \subseteq Nat, T # {}
  PROVE  \E n \in T : \A m \in T : n <= m
<1>1. PICK n \in T : \A m \in T : ~ (<<m, n>> \in OpToRel(<, Nat))
  BY WFMin, NatLessThanWellFounded
<1>2. ASSUME NEW m \in T PROVE n <= m
  <2>1. ~ (m < n)
    BY <1>1 DEF OpToRel
  <2> QED
    BY <2>1
<1> QED
  BY <1>2

\* Induction on the naturals, of a set.
LEMMA AllNaturals ==
  ASSUME NEW T, 0 \in T, \A n \in Nat : n \in T => n + 1 \in T
  PROVE  Nat \subseteq T
<1>1. SUFFICES ASSUME (Nat \ T) # {} PROVE FALSE
  OBVIOUS
<1>2. PICK n \in Nat \ T : \A m \in Nat \ T : n <= m
  BY <1>1, NatMin
<1>3. n - 1 \in Nat /\ n - 1 < n
  BY <1>2
<1>4. n - 1 \in T
  BY <1>2, <1>3
<1>5. (n - 1) + 1 = n
  BY <1>2
<1> QED
  BY <1>2, <1>3, <1>4, <1>5

\* One contribution, after the ones before it.
BatteryStep(es, after, n) ==
  IF n = 0 THEN <<>>
  ELSE IF es[n] \in Unsettleable \/ \E i \in DOMAIN after[n - 1] : after[n - 1][i] = es[n]
  THEN after[n - 1]
  ELSE Append(after[n - 1], es[n])

\* The fold can be carried out to any length.
LEMMA BatteryFoldExists ==
  ASSUME NEW es, NEW L \in Nat
  PROVE  \E after : after = [n \in 0 .. L |-> BatteryStep(es, after, n)]
<1> DEFINE T == {k \in Nat : \E f : f = [n \in 0 .. k |-> BatteryStep(es, f, n)]}
<1>1. 0 \in T
  <2> DEFINE f == [n \in 0 .. 0 |-> <<>>]
  <2>1. \A n \in 0 .. 0 : BatteryStep(es, f, n) = <<>>
    BY DEF BatteryStep
  <2>2. f = [n \in 0 .. 0 |-> BatteryStep(es, f, n)]
    BY <2>1
  <2> QED
    BY <2>2
<1>2. ASSUME NEW k \in Nat, k \in T PROVE k + 1 \in T
  <2>1. PICK f : f = [n \in 0 .. k |-> BatteryStep(es, f, n)]
    BY <1>2
  <2> DEFINE g == [n \in 0 .. k + 1 |-> BatteryStep(es, f, n)]
  <2>2. \A n \in 0 .. k : n \in 0 .. k + 1 /\ g[n] = f[n]
    BY <2>1
  <2>3. ASSUME NEW n \in 0 .. k + 1 PROVE BatteryStep(es, g, n) = BatteryStep(es, f, n)
    <3>1. n # 0 => n - 1 \in 0 .. k
      OBVIOUS
    <3>2. n # 0 => g[n - 1] = f[n - 1]
      BY <2>2, <3>1
    <3> HIDE DEF g
    <3> QED
      BY <3>2 DEF BatteryStep
  <2>4. g = [n \in 0 .. k + 1 |-> BatteryStep(es, g, n)]
    BY <2>3
  <2> HIDE DEF g
  <2> QED
    BY <2>4
<1> HIDE DEF T
<1>3. L \in T
  BY <1>1, <1>2, AllNaturals
<1> QED
  BY <1>3 DEF T

\* The battery is where the fold ends.
LEMMA BatteryFold ==
  ASSUME NEW es, Len(es) \in Nat
  PROVE  \E after : /\ \A n \in 0 .. Len(es) : after[n] = BatteryStep(es, after, n)
                    /\ BuildBattery(es) = after[Len(es)]
<1> DEFINE after == CHOOSE a : a = [n \in 0 .. Len(es) |-> BatteryStep(es, a, n)]
<1>1. \E a : a = [n \in 0 .. Len(es) |-> BatteryStep(es, a, n)]
  BY BatteryFoldExists
<1>2. after = [n \in 0 .. Len(es) |-> BatteryStep(es, after, n)]
  BY Zenon, <1>1
<1>3. BuildBattery(es) = after[Len(es)]
  BY Zenon DEF BuildBattery, BatteryStep
<1> HIDE DEF after
<1>4. \A n \in 0 .. Len(es) : after[n] = BatteryStep(es, after, n)
  BY <1>2
<1> QED
  BY <1>3, <1>4

\* What enters the battery was contributed.
LEMMA BatteryType ==
  ASSUME NEW S, NEW es \in Seq(S)
  PROVE  BuildBattery(es) \in Seq(S) /\ Len(BuildBattery(es)) <= Len(es)
<1> DEFINE L == Len(es)
<1>0. L \in Nat
  OBVIOUS
<1>1. PICK after : /\ \A n \in 0 .. L : after[n] = BatteryStep(es, after, n)
                   /\ BuildBattery(es) = after[L]
  BY BatteryFold
<1> DEFINE T == {n \in Nat : n <= L => after[n] \in Seq(S) /\ Len(after[n]) <= n}
<1>2. 0 \in T
  <2>1. after[0] = <<>>
    BY <1>0, <1>1 DEF BatteryStep
  <2>2. <<>> \in Seq(S) /\ Len(<<>>) = 0
    OBVIOUS
  <2>3. after[0] \in Seq(S) /\ Len(after[0]) = 0
    BY Zenon, <2>1, <2>2
  <2> QED
    BY <2>3
<1>3. ASSUME NEW n \in Nat, n \in T PROVE n + 1 \in T
  <2> SUFFICES ASSUME n + 1 <= L PROVE after[n + 1] \in Seq(S) /\ Len(after[n + 1]) <= n + 1
    OBVIOUS
  <2>1. /\ n + 1 \in 0 .. L /\ n + 1 # 0 /\ (n + 1) - 1 = n
        /\ after[n] \in Seq(S) /\ Len(after[n]) <= n /\ es[n + 1] \in S
    BY <1>3
  <2>2. after[n + 1] = BatteryStep(es, after, n + 1)
    BY <1>1, <2>1
  <2>3. after[n + 1] \in {after[n], Append(after[n], es[n + 1])}
    BY <2>1, <2>2 DEF BatteryStep
  <2>4. /\ Append(after[n], es[n + 1]) \in Seq(S)
        /\ Len(Append(after[n], es[n + 1])) = Len(after[n]) + 1 /\ Len(after[n]) \in Nat
    BY <2>1
  <2>5. CASE after[n + 1] = after[n]
    BY <2>1, <2>4, <2>5
  <2>6. CASE after[n + 1] = Append(after[n], es[n + 1])
    <3>1. Len(Append(after[n], es[n + 1])) <= n + 1
      BY <2>1, <2>4
    <3> QED
      BY <2>4, <2>6, <3>1
  <2> QED
    BY <2>3, <2>5, <2>6
<1> HIDE DEF T
<1>4. L \in T
  BY <1>0, <1>2, <1>3, AllNaturals
<1> QED
  BY <1>1, <1>4 DEF T

\* One more contribution adds at most one probe, at the end.
LEMMA BatteryGrows ==
  ASSUME NEW S, NEW es \in Seq(S), NEW p \in S
  PROVE  BuildBattery(Append(es, p)) \in {BuildBattery(es), Append(BuildBattery(es), p)}
<1> DEFINE L == Len(es)
           more == Append(es, p)
<1>0. /\ L \in Nat /\ more \in Seq(S) /\ Len(more) = L + 1 /\ more[L + 1] = p
      /\ \A n \in 1 .. L : more[n] = es[n]
  OBVIOUS
<1> HIDE DEF more
<1>1. PICK a : /\ \A n \in 0 .. L : a[n] = BatteryStep(es, a, n)
               /\ BuildBattery(es) = a[L]
  BY BatteryFold
<1>2. PICK b : /\ \A n \in 0 .. Len(more) : b[n] = BatteryStep(more, b, n)
               /\ BuildBattery(more) = b[Len(more)]
  BY <1>0, BatteryFold
<1> HIDE DEF L
<1> DEFINE T == {n \in Nat : n <= L => a[n] = b[n]}
<1>3. 0 \in T
  BY <1>0, <1>1, <1>2 DEF BatteryStep
<1>4. ASSUME NEW n \in Nat, n \in T PROVE n + 1 \in T
  <2> SUFFICES ASSUME n + 1 <= L PROVE a[n + 1] = b[n + 1]
    OBVIOUS
  <2>1. /\ n + 1 \in 0 .. L /\ n + 1 \in 0 .. Len(more) /\ n + 1 # 0 /\ (n + 1) - 1 = n
        /\ a[n] = b[n] /\ n + 1 \in 1 .. L
    BY <1>0, <1>4
  <2>2. a[n + 1] = BatteryStep(es, a, n + 1) /\ b[n + 1] = BatteryStep(more, b, n + 1)
    BY <1>1, <1>2, <2>1
  <2>3. more[n + 1] = es[n + 1]
    BY <1>0, <2>1
  <2> QED
    BY <2>1, <2>2, <2>3 DEF BatteryStep
<1> HIDE DEF T
<1>5. L \in T
  BY <1>0, <1>3, <1>4, AllNaturals
<1>6. a[L] = b[L]
  BY <1>0, <1>5 DEF T
<1>7. b[L + 1] = BatteryStep(more, b, L + 1) /\ L + 1 # 0 /\ (L + 1) - 1 = L
  BY <1>0, <1>2
<1>8. b[L + 1] \in {b[L], Append(b[L], p)}
  BY <1>0, <1>7 DEF BatteryStep
<1> QED
  BY <1>0, <1>1, <1>2, <1>6, <1>8 DEF more

\* A battery is append-only over itself, and over itself and one more probe.
LEMMA AppendOnlyByOne ==
  ASSUME NEW S, NEW old \in Seq(S), NEW p \in S, NEW new \in {old, Append(old, p)}
  PROVE  AppendOnly(old, new)
<1>1. Len(old) \in Nat /\ new \in Seq(S) /\ Len(old) <= Len(new) /\ Len(new) \in Nat
  OBVIOUS
<1>2. \A i \in 1 .. Len(old) : new[i] = old[i] /\ new[i] \in S
  OBVIOUS
<1>3. /\ SubSeq(new, 1, Len(old)) \in Seq(S)
      /\ Len(SubSeq(new, 1, Len(old))) = IF 1 <= Len(old) THEN Len(old) - 1 + 1 ELSE 0
      /\ \A i \in 1 .. Len(old) - 1 + 1 : SubSeq(new, 1, Len(old))[i] = new[1 + i - 1]
  BY <1>1, <1>2, SubSeqProperties
<1> DEFINE sub == SubSeq(new, 1, Len(old))
<1>4. Len(sub) = Len(old) /\ \A i \in 1 .. Len(old) : sub[i] = old[i]
  BY <1>1, <1>2, <1>3
<1>5. sub = old
  BY <1>3, <1>4, SeqEqual
<1> QED
  BY <1>1, <1>5 DEF AppendOnly

-------------------------------------------------------------------------------
(* What was answered stays settled. *)

\* The inductive invariant of the last theorems.  What an honest key signed is
\* the settled answer to a probe of the battery, and what was entered for the
\* claim is over a probe of it: contributions later on change neither.
Truthful ==
  /\ Counted
  /\ Len(entries) <= situation.maxEntries
  /\ \A s \in answers : s.key \in Honest =>
        s.over.index \in 0 .. Len(Probes) - 1 /\ s.over.answer = Settled(s.over.index)
  /\ \A t \in claim.survival : t.index \in 0 .. Len(Probes) - 1

LEMMA ProbesType ==
  ASSUME Counted
  PROVE  Probes \in Seq(situation.offers) /\ Len(Probes) <= Len(entries) /\ Len(Probes) \in Nat
<1>1. entries \in Seq(situation.offers)
  BY DEF Counted, TypeOK
<1>2. Probes \in Seq(situation.offers) /\ Len(Probes) <= Len(entries)
  BY <1>1, BatteryType DEF Probes
<1> QED
  BY <1>2

\* Any step leaves the battery as it is or adds one probe at its end.
LEMMA ProbesGrow ==
  ASSUME Counted, [Next]_vars
  PROVE  /\ AppendOnly(Probes, Probes')
         /\ \A i \in 0 .. Len(Probes) - 1 :
              i \in 0 .. Len(Probes)' - 1 /\ Settled(i)' = Settled(i)
<1>0. /\ entries \in Seq(situation.offers) /\ Probes \in Seq(situation.offers)
      /\ Len(Probes) \in Nat
  BY ProbesType DEF Counted, TypeOK
<1>1. entries' = entries \/ \E p \in situation.offers : entries' = Append(entries, p)
  BY DEF Next, vars, Contribute, Pin, Sign, Survive, File, Commit, AddRow
<1>2. Probes' = Probes \/ \E p \in situation.offers : Probes' = Append(Probes, p)
  <2>1. CASE entries' = entries
    BY <2>1 DEF Probes
  <2>2. ASSUME NEW p \in situation.offers, entries' = Append(entries, p)
        PROVE  Probes' \in {Probes, Append(Probes, p)}
    BY <1>0, <2>2, BatteryGrows DEF Probes
  <2> QED
    BY <1>1, <2>1, <2>2
<1>3. CASE Probes' = Probes
  <2>1. SubSeq(Probes, 1, Len(Probes)) = Probes
    BY <1>0, SubSeqFull
  <2>2. AppendOnly(Probes, Probes')
    BY <1>0, <1>3, <2>1 DEF AppendOnly
  <2> QED
    BY <1>3, <2>2 DEF Settled
<1>4. ASSUME NEW p \in situation.offers, Probes' = Append(Probes, p)
      PROVE  /\ AppendOnly(Probes, Probes')
             /\ \A i \in 0 .. Len(Probes) - 1 :
                  i \in 0 .. Len(Probes)' - 1 /\ Settled(i)' = Settled(i)
  <2>1. AppendOnly(Probes, Probes')
    BY <1>0, <1>4, AppendOnlyByOne
  <2>2. Len(Probes') = Len(Probes) + 1 /\ \A j \in 1 .. Len(Probes) : Probes'[j] = Probes[j]
    BY <1>0, <1>4
  <2>3. ASSUME NEW i \in 0 .. Len(Probes) - 1
        PROVE  i \in 0 .. Len(Probes)' - 1 /\ Settled(i)' = Settled(i)
    <3>1. i + 1 \in 1 .. Len(Probes) /\ i < Len(Probes) /\ i < Len(Probes')
          /\ i \in 0 .. Len(Probes') - 1
      BY <1>0, <2>2
    <3>2. Probes'[i + 1] = Probes[i + 1]
      BY <2>2, <3>1
    <3> QED
      BY <3>1, <3>2 DEF Settled
  <2> QED
    BY <2>1, <2>3
<1> QED
  BY <1>2, <1>3, <1>4

\* What the beacon draws is a probe of the battery, and its answer the settled one.
LEMMA DrawnIsSettled ==
  ASSUME Truthful, Probes # <<>>, NEW m \in DrawnMessages
  PROVE  m.index \in 0 .. Len(Probes) - 1 /\ m.answer = Settled(m.index)
<1>0. /\ Counted /\ Probes \in Seq(situation.offers) /\ Len(Probes) \in Nat
      /\ Len(Probes) <= Len(entries) /\ Len(entries) <= situation.maxEntries
      /\ situation \in Situations /\ entries \in Seq(situation.offers)
  BY ProbesType DEF Truthful, Counted, TypeOK
<1>1. Len(Probes) \in 1 .. situation.maxEntries
  <2>1. situation.maxEntries \in Nat /\ Len(entries) \in Nat
    BY <1>0, ClaimAssumption
  <2>2. Len(Probes) # 0
    BY <1>0
  <2> QED
    BY <1>0, <2>1, <2>2
<1>2. PICK r \in Rounds :
         m = SignedMessage([round |-> r, head |-> Probes,
                            index |-> ChallengeIndex(r, Probes, Len(Probes))],
                           Settled(ChallengeIndex(r, Probes, Len(Probes))))
  BY DEF DrawnMessages
<1>3. Digest(r, Probes) \in Nat
  <2>1. Probes \in [1 .. Len(Probes) -> situation.offers]
    BY <1>0
  <2> QED
    BY <1>0, <1>1, <2>1, ClaimAssumption DEF Rounds
<1>4. ChallengeIndex(r, Probes, Len(Probes)) \in 0 .. Len(Probes) - 1
  BY <1>0, <1>1, <1>3 DEF ChallengeIndex
<1>5. /\ m.index = ChallengeIndex(r, Probes, Len(Probes))
      /\ m.answer = Settled(ChallengeIndex(r, Probes, Len(Probes)))
  BY <1>2, Zenon DEF SignedMessage
<1> QED
  BY <1>4, <1>5

LEMMA TruthfulInit == Init => Truthful
<1> SUFFICES ASSUME Init PROVE Truthful
  OBVIOUS
<1>1. Len(entries) <= situation.maxEntries
  BY ClaimAssumption DEF Init
<1> QED
  BY <1>1, CountedInit DEF Init, Truthful

LEMMA TruthfulStep == Truthful /\ [Next]_vars => Truthful'
<1> SUFFICES ASSUME Truthful, [Next]_vars PROVE Truthful'
  OBVIOUS
<1>0. Counted /\ Counted' /\ entries \in Seq(situation.offers)
  BY CountedStep DEF Truthful, Counted, TypeOK
<1>1. \A i \in 0 .. Len(Probes) - 1 :
         i \in 0 .. Len(Probes)' - 1 /\ Settled(i)' = Settled(i)
  BY <1>0, ProbesGrow
<1>2. /\ \A s \in answers : s.key \in Honest =>
           s.over.index \in 0 .. Len(Probes)' - 1 /\ s.over.answer = Settled(s.over.index)'
      /\ \A t \in claim.survival : t.index \in 0 .. Len(Probes)' - 1
  BY <1>1 DEF Truthful
<1>3. Len(entries)' <= situation'.maxEntries
  <2>1. ASSUME NEW p \in situation.offers, Contribute(p)
        PROVE  Len(entries)' <= situation'.maxEntries
    <3>1. /\ entries' = Append(entries, p) /\ situation' = situation
          /\ Len(entries) < situation.maxEntries
      BY <2>1 DEF Contribute
    <3>2. situation.maxEntries \in Nat
      BY <1>0, ClaimAssumption DEF Counted, TypeOK
    <3> QED
      BY <1>0, <3>1, <3>2
  <2> QED
    BY <2>1 DEF Next, vars, Pin, Sign, Survive, File, Commit, AddRow, Truthful
<1>4. ASSUME NEW k \in Keys, NEW m, Sign(k, m) PROVE Truthful'
  <2>1. /\ answers' = answers \cup {[key |-> k, over |-> m]} /\ claim' = claim
        /\ Probes # <<>> /\ (k \in Honest => m \in DrawnMessages)
    BY <1>4 DEF Sign
  <2>2. k \in Honest => m.index \in 0 .. Len(Probes) - 1 /\ m.answer = Settled(m.index)
    BY <2>1, DrawnIsSettled
  <2>3. k \in Honest => m.index \in 0 .. Len(Probes)' - 1 /\ m.answer = Settled(m.index)'
    BY <1>1, <2>2
  <2> QED
    BY <1>0, <1>2, <1>3, <2>1, <2>3 DEF Truthful
<1>5. ASSUME NEW s \in answers, NEW i \in 0 .. Len(Probes) - 1, NEW answer, Survive(s, i, answer)
      PROVE  Truthful'
  <2>1. DOMAIN claim = {"head", "count", "survival", "refutations"}
    BY <1>0 DEF Counted, TypeOK
  <2>2. Labelled(s, i, answer).index = i
    BY DEF Labelled
  <2> HIDE DEF Labelled
  <2>3. claim'.survival = claim.survival \cup {Labelled(s, i, answer)} /\ answers' = answers
    BY <1>5, <2>1 DEF Survive
  <2>4. \A t \in claim'.survival : t.index \in 0 .. Len(Probes)' - 1
    BY <1>1, <1>2, <2>2, <2>3
  <2> QED
    BY <1>0, <1>2, <1>3, <2>3, <2>4 DEF Truthful
<1>6. ASSUME answers' = answers, claim'.survival = claim.survival PROVE Truthful'
  BY <1>0, <1>2, <1>3, <1>6 DEF Truthful
<1>7. CASE Pin
  BY <1>0, <1>6, <1>7 DEF Pin, Counted, TypeOK
<1>8. ASSUME NEW type, NEW certificate, File(type, certificate) PROVE Truthful'
  BY <1>0, <1>6, <1>8 DEF File, Counted, TypeOK
<1>9. CASE \/ \E p \in situation.offers : Contribute(p)
           \/ \E a \in DOMAIN arms : Commit(a) \/ \E row \in Row : AddRow(a, row)
           \/ UNCHANGED vars
  BY <1>6, <1>9 DEF Contribute, Commit, AddRow, vars
<1> QED
  BY <1>4, <1>5, <1>7, <1>8, <1>9 DEF Next

LEMMA TruthfulHolds == Spec => []Truthful
BY TruthfulInit, TruthfulStep, PTL DEF Spec

-------------------------------------------------------------------------------
(* Independence is paid for in correctness. *)

\* A split of valid answers has, whatever is settled, somebody on its wrong side.
LEMMA SplitHasAWrongSide ==
  ASSUME NEW cert, DivergenceState(cert) = "diverged"
  PROVE  Wrong(cert) # {}
<1>1. Splits(cert) # {}
  BY DEF DivergenceState
<1>2. PICK p \in ValidResponses(cert) \X ValidResponses(cert) : p[1].answer # p[2].answer
  BY <1>1 DEF Splits
<1>3. PICK v \in {p[1], p[2]} : v.answer # cert.truth
  BY <1>2
<1>4. v \in ValidResponses(cert)
  BY <1>2, <1>3
<1> QED
  BY <1>3, <1>4 DEF Wrong

(* A divergence shows somebody wrong, and nobody who answered what was      *)
(* drawn, and rightly, is counted wrong, whatever the certificate declares. *)
THEOREM ClaimSplitCosts == Spec => []SplitCostsAnError
<1>1. Truthful => SplitCostsAnError
  <2> SUFFICES ASSUME Truthful, NEW r \in Rounds, NEW h \in Heads, NEW n \in 1 .. Len(Probes),
                      NEW i \in 0 .. Len(Probes) - 1,
                      DivergenceState(Certificate(r, h, n, i, answers)) = "diverged"
               PROVE  /\ Wrong(Certificate(r, h, n, i, answers)) # {}
                      /\ Wrong(Certificate(r, h, n, i, answers)) \cap Honest = {}
    BY Zenon DEF SplitCostsAnError
  <2> DEFINE cert == Certificate(r, h, n, i, answers)
  <2>0. /\ cert.round = r /\ cert.head = h /\ cert.index = i /\ cert.truth = Settled(i)
        /\ cert.responses = {[did |-> s.key, answer |-> a, sig |-> s] :
                               s \in answers, a \in Answers}
    BY DEF Certificate
  <2> HIDE DEF cert
  <2>1. Wrong(cert) # {}
    BY SplitHasAWrongSide DEF cert
  <2>2. ASSUME NEW did \in Wrong(cert), did \in Honest PROVE FALSE
    <3>1. PICK v \in ValidResponses(cert) : v.answer # cert.truth /\ v.did = did
      BY DEF Wrong
    <3>2. /\ v \in cert.responses /\ v.sig.key = v.did
          /\ v.sig.over = SignedMessage(cert, v.answer)
      BY DEF ValidResponses, Verifies
    <3>3. PICK s \in answers, a \in Answers : v = [did |-> s.key, answer |-> a, sig |-> s]
      BY <2>0, <3>2
    <3>4. v.sig = s /\ v.did = s.key
      BY <3>3
    <3>5. s.over.index = i /\ s.over.answer = v.answer
      <4>1. SignedMessage(cert, v.answer).index = i
            /\ SignedMessage(cert, v.answer).answer = v.answer
        BY <2>0, Zenon DEF SignedMessage
      <4> QED
        BY <3>2, <3>4, <4>1
    <3>6. s.over.answer = Settled(s.over.index)
      BY <2>2, <3>1, <3>4 DEF Truthful
    <3> QED
      BY <2>0, <3>1, <3>5, <3>6
  <2> QED
    BY <2>1, <2>2 DEF cert
<1> QED
  BY <1>1, TruthfulHolds, PTL

-------------------------------------------------------------------------------
(* What moves the price. *)

\* The price follows from what is upheld and what is covered.
LEMMA PriceFollows ==
  ASSUME NEW c, NEW d, c.count = d.count, Upheld(c) = Upheld(d), Covered(c) = Covered(d)
  PROVE  PriceClaim(c) = PriceClaim(d)
BY Zenon DEF PriceClaim

\* A refutation is a fork upheld.
LEMMA RefutedPrice ==
  ASSUME NEW c
  PROVE  PriceClaim(c).state = "refuted" <=> Upheld(c) # {}
BY DEF PriceClaim

(* No report, no answer that nobody entered and no probe strangers add to   *)
(* the battery moves the price, the battery only grows at its end, and      *)
(* nothing lifts a refutation.                                              *)
THEOREM ClaimPrice == Spec => OnlyArtifactsMoveThePrice
<1> DEFINE Moved == /\ AppendOnly(Probes, Probes')
                    /\ UNCHANGED <<claim.head, claim.survival, Forks>> => UNCHANGED Price
                    /\ Price.state = "refuted" => Price'.state = "refuted"
<1>1. Truthful /\ [Next]_vars => [Moved]_vars
  <2> SUFFICES ASSUME Truthful, Next PROVE Moved
    OBVIOUS
  <2>0. Counted /\ DOMAIN claim = {"head", "count", "survival", "refutations"}
    BY DEF Truthful, Counted, TypeOK
  <2>1. /\ AppendOnly(Probes, Probes')
        /\ \A i \in 0 .. Len(Probes) - 1 : Settled(i)' = Settled(i)
    BY <2>0, ProbesGrow
  <2>2. claim'.count = claim.count /\ claim.refutations \subseteq claim'.refutations
    <3>1. CASE Pin
      BY <2>0, <3>1 DEF Pin
    <3>2. ASSUME NEW s, NEW i, NEW answer, Survive(s, i, answer)
          PROVE  claim'.count = claim.count /\ claim'.refutations = claim.refutations
      BY <2>0, <3>2 DEF Survive
    <3>3. ASSUME NEW type, NEW certificate, File(type, certificate)
          PROVE  claim'.count = claim.count /\ claim.refutations \subseteq claim'.refutations
      BY <2>0, <3>3 DEF File
    <3> QED
      BY <3>1, <3>2, <3>3 DEF Next, Contribute, Sign, Commit, AddRow
  <2>3. \A c : Upheld(c) = {f \in c.refutations :
                              f.type = "fork" /\ DivergenceState(f.certificate) = "diverged"}
    BY Zenon DEF Upheld
  <2>4. /\ Today.refutations = claim.refutations /\ Today'.refutations = claim'.refutations
        /\ Today.count = claim.count /\ Today'.count = claim'.count
        /\ Today.head = claim.head /\ Today'.head = claim'.head
        /\ Today.survival = claim.survival /\ Today'.survival = claim'.survival
        /\ Today.truths = [i \in {t.index : t \in claim.survival} |-> Settled(i)]
        /\ Today'.truths = [i \in {t.index : t \in claim'.survival} |-> Settled(i)']
    BY DEF Today
  <2>5. Upheld(Today) \subseteq Upheld(Today')
    BY <2>2, <2>3, <2>4
  <2>6. Price.state = "refuted" => Price'.state = "refuted"
    <3>1. Price.state = "refuted" <=> Upheld(Today) # {}
      BY RefutedPrice DEF Price
    <3>2. Price'.state = "refuted" <=> Upheld(Today') # {}
      BY RefutedPrice DEF Price
    <3> QED
      BY <2>5, <3>1, <3>2
  <2>7. ASSUME UNCHANGED <<claim.head, claim.survival, Forks>> PROVE Price' = Price
    <3>1. Today'.truths = Today.truths
      <4>1. \A t \in claim.survival : Settled(t.index)' = Settled(t.index)
        BY <2>1 DEF Truthful
      <4>2. claim'.survival = claim.survival
        BY <2>7
      <4>3. \A i \in {t.index : t \in claim.survival} : Settled(i)' = Settled(i)
        BY <4>1
      <4> QED
        BY <2>4, <4>2, <4>3
    <3>2. Today'.head = Today.head /\ Today'.survival = Today.survival /\ Today'.count = Today.count
      BY <2>2, <2>4, <2>7
    <3>3. PICK c, d : c = Today /\ d = Today'
      OBVIOUS
    <3>4. \A s : Credited(c, s) <=> Credited(d, s)
      BY <3>1, <3>2, <3>3 DEF Credited, AsCertificate
    <3>5. Covered(c) = Covered(d)
      BY <3>2, <3>3, <3>4 DEF Covered
    <3>6. Upheld(c) = Upheld(d)
      BY <2>3, <2>4, <2>7, <3>3 DEF Forks
    <3>7. PriceClaim(c) = PriceClaim(d)
      BY <3>2, <3>3, <3>5, <3>6, PriceFollows
    <3> QED
      BY <3>3, <3>7 DEF Price
  <2> QED
    BY <2>1, <2>6, <2>7
<1> QED
  BY <1>1, TruthfulHolds, PTL DEF Spec, OnlyArtifactsMoveThePrice
===============================================================================
