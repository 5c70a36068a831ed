----------------------------- MODULE LineageProofs -----------------------------
(***************************************************************************)
(* Theorems about LineageWatch, for every set of scenes: however many      *)
(* generations are born and shown, whatever their parents and lifetimes.   *)
(***************************************************************************)
EXTENDS LineageWatch, TLAPS, WellFoundedInduction

-------------------------------------------------------------------------------
(* Types. *)

LEMMA BirthsAreNumbers == TypeOK => Len(births) \in Nat /\ DOMAIN births = 1 .. Len(births)
BY DEF TypeOK

\* What is entered is a generation, if its certificate is one.
LEMMA IncludeTypes ==
  ASSUME TypeOK, NEW g \in Generation, Include(g)
  PROVE  TypeOK'
<1>1. bundle' \in Seq(Generation)
  BY DEF Include, TypeOK
<1> QED
  BY <1>1 DEF Include, TypeOK

LEMMA LineageTypesStep == TypeOK /\ [Next]_vars => TypeOK'
<1> SUFFICES ASSUME TypeOK, [Next]_vars PROVE TypeOK'
  OBVIOUS
<1>0. clock \in Nat /\ scene.maxClock \in Nat /\ scene.lifetimes \subseteq Nat \cup {Null}
  BY ScenesAssumption DEF TypeOK
<1>1. ASSUME NEW parents \in SUBSET {b \in DOMAIN births : births[b].child # Null},
             NEW hashed \in BOOLEAN, NEW life \in scene.lifetimes,
             Birth(parents, hashed, life)
      PROVE  TypeOK'
  <2> DEFINE cert == [birth |-> Len(births) + 1,
                      child |-> IF hashed THEN Len(births) + 1 ELSE Null,
                      parents |-> parents,
                      until |-> IF life = Null THEN Null ELSE clock + life,
                      genuine |-> TRUE]
  <2>1. Len(births) + 1 \in Nat /\ parents \in SUBSET Nat
    BY BirthsAreNumbers
  <2>2. (IF life = Null THEN Null ELSE clock + life) \in Nat \cup {Null}
    BY <1>0
  <2>3. cert \in Certificate /\ births' = Append(births, cert)
    BY <1>1, <2>1, <2>2 DEF Birth, Certificate
  <2> HIDE DEF cert
  <2>4. births' \in Seq(Certificate) /\ DOMAIN births \subseteq DOMAIN births'
    BY <2>3 DEF TypeOK
  <2> QED
    BY <1>1, <2>4 DEF Birth, TypeOK
<1>2. ASSUME NEW b \in DOMAIN births, Revoke(b) PROVE TypeOK'
  BY <1>2 DEF Revoke, TypeOK
<1>3. CASE Tick
  BY <1>0, <1>3 DEF Tick, TypeOK
<1>4. ASSUME NEW b \in DOMAIN births, NEW advised \in BOOLEAN, Serve(b, advised)
      PROVE  TypeOK'
  <2>1. births[b] \in Certificate
    BY DEF TypeOK
  <2>2. Verifies(births[b], clock) \in BOOLEAN
    BY <2>1 DEF Verifies, Certificate
  <2>3. [cert |-> births[b], revoked |-> b \in revoked,
         advisory |-> IF advised THEN Verifies(births[b], clock) ELSE Null] \in Generation
    BY <2>1, <2>2 DEF Generation
  <2> QED
    BY <1>4, <2>3, IncludeTypes DEF Serve
<1>5. ASSUME NEW b \in DOMAIN births, NEW cert \in {births[b], Altered(b), Null},
             NEW advisory \in BOOLEAN \cup {Null}, Forge(cert, advisory)
      PROVE  TypeOK'
  <2>1. births[b] \in Certificate /\ DOMAIN births \in SUBSET Nat
    BY BirthsAreNumbers DEF TypeOK
  <2>2. cert \in Certificate \cup {Null}
    BY <2>1 DEF Altered, Certificate
  <2>3. [cert |-> cert, revoked |-> FALSE, advisory |-> advisory] \in Generation
    BY <2>2 DEF Generation
  <2> QED
    BY <1>5, <2>3, IncludeTypes DEF Forge
<1>6. CASE UNCHANGED vars
  BY <1>6 DEF vars, TypeOK
<1> QED
  BY <1>1, <1>2, <1>3, <1>4, <1>5, <1>6 DEF Next

LEMMA LineageInit == Init => TypeOK
BY ScenesAssumption DEF Init, TypeOK

(* Type correctness of a family, its certificates and its bundle.          *)
THEOREM LineageTypes == Spec => []TypeOK
BY LineageInit, LineageTypesStep, PTL DEF Spec

-------------------------------------------------------------------------------
(* The inductive invariant. *)

\* A birth has the hash of its own number, or none, and earlier parents.
Family ==
  \A b \in DOMAIN births :
    /\ births[b].birth = b /\ births[b].child \in {b, Null}
    /\ births[b].parents \subseteq 1 .. b - 1
    /\ births[b].genuine = TRUE

\* What is shown under a signature that holds was issued; what an honest server
\* shows carries the flag of a revocation known then, and a verdict that only time
\* can contradict.
Shown(g) ==
  /\ g.cert # Null /\ (g.cert.genuine = TRUE \/ scene.honest) =>
        g.cert.birth \in DOMAIN births /\ g.cert = births[g.cert.birth]
  /\ scene.honest =>
        /\ g.cert # Null
        /\ g.cert.birth \in known => g.revoked = TRUE
        /\ g.advisory = TRUE \/ g.advisory = Null
             \/ (g.cert.until # Null /\ g.cert.until < clock)

Line == TypeOK /\ Family /\ known \subseteq revoked /\ \A i \in DOMAIN bundle : Shown(bundle[i])

LEMMA IncludeKeepsLine ==
  ASSUME Line, NEW g \in Generation, Include(g), Shown(g),
         scene.honest => (g.cert.birth \in revoked => g.revoked = TRUE)
  PROVE  Line'
<1>1. TypeOK'
  BY IncludeTypes DEF Line
<1>2. UNCHANGED <<scene, clock, births, revoked>> /\ bundle' = Append(bundle, g)
      /\ known' \subseteq revoked' /\ (bundle # <<>> => known' = known)
  BY DEF Include, Line
<1>3. Family'
  BY <1>2 DEF Family, Line
<1>4. bundle \in Seq(Generation)
  BY DEF Line, TypeOK
<1>5. ASSUME NEW i \in DOMAIN bundle' PROVE Shown(bundle[i])'
  <2>1. CASE i \in DOMAIN bundle
    <3>1. bundle'[i] = bundle[i] /\ bundle # <<>>
      BY <1>2, <1>4, <2>1
    <3> QED
      BY <1>2, <2>1, <3>1 DEF Shown, Line
  <2>2. CASE i \notin DOMAIN bundle
    <3>1. bundle'[i] = g
      BY <1>2, <1>4, <1>5, <2>2
    <3> QED
      BY <1>2, <3>1 DEF Shown
  <2> QED
    BY <2>1, <2>2
<1> QED
  BY <1>1, <1>2, <1>3, <1>5 DEF Line

LEMMA LineStep == Line /\ [Next]_vars => Line'
<1> SUFFICES ASSUME Line, [Next]_vars PROVE Line'
  OBVIOUS
<1>0. TypeOK /\ TypeOK' /\ Family
  BY LineageTypesStep DEF Line
<1>1. ASSUME NEW parents \in SUBSET {b \in DOMAIN births : births[b].child # Null},
             NEW hashed \in BOOLEAN, NEW life \in scene.lifetimes,
             Birth(parents, hashed, life)
      PROVE  Line'
  <2> DEFINE n == Len(births) + 1
  <2>1. births \in Seq(Certificate) /\ n \in Nat /\ DOMAIN births = 1 .. n - 1
    BY <1>0, BirthsAreNumbers DEF TypeOK
  <2>2. UNCHANGED <<scene, clock, revoked, bundle, known>>
    BY <1>1 DEF Birth
  <2>3. PICK cert : /\ births' = Append(births, cert)
                    /\ cert.birth = n /\ cert.child \in {n, Null}
                    /\ cert.parents = parents /\ cert.genuine = TRUE
    BY <1>1 DEF Birth
  <2>4. births'[n] = cert /\ DOMAIN births' = 1 .. n
        /\ \A b \in DOMAIN births : births'[b] = births[b]
    BY <2>1, <2>3
  <2> HIDE DEF n
  <2>5. Family'
    <3> SUFFICES ASSUME NEW b \in DOMAIN births'
                 PROVE  /\ births'[b].birth = b /\ births'[b].child \in {b, Null}
                        /\ births'[b].parents \subseteq 1 .. b - 1
                        /\ births'[b].genuine = TRUE
      BY DEF Family
    <3>1. CASE b = n
      BY <2>1, <2>3, <2>4, <3>1
    <3>2. CASE b \in DOMAIN births
      BY <1>0, <2>4, <3>2 DEF Family
    <3>3. b = n \/ b \in DOMAIN births
      BY <2>1, <2>4
    <3> QED
      BY <3>1, <3>2, <3>3
  <2>6. ASSUME NEW i \in DOMAIN bundle PROVE Shown(bundle[i])'
    <3> DEFINE c == bundle[i].cert
    <3>1. Shown(bundle[i])
      BY DEF Line
    <3>2. c.birth \in DOMAIN births =>
            c.birth \in DOMAIN births' /\ births'[c.birth] = births[c.birth]
      BY <2>1, <2>4
    <3>3. bundle'[i].cert = c /\ bundle'[i] = bundle[i]
          /\ scene' = scene /\ clock' = clock /\ known' = known
      BY <2>2
    <3>4. c # Null /\ (c.genuine = TRUE \/ scene.honest) =>
            c.birth \in DOMAIN births' /\ c = births'[c.birth]
      BY <3>1, <3>2 DEF Shown
    <3> HIDE DEF c
    <3> QED
      BY <3>1, <3>3, <3>4 DEF Shown
  <2> QED
    BY <1>0, <2>2, <2>5, <2>6 DEF Line
<1>2. ASSUME NEW b \in DOMAIN births, Revoke(b) PROVE Line'
  BY <1>0, <1>2 DEF Revoke, Line, Family, Shown
<1>3. CASE Tick
  <2>1. clock \in Nat /\ clock' = clock + 1
    BY <1>0, <1>3, ScenesAssumption DEF Tick, TypeOK
  <2>2. UNCHANGED <<scene, births, revoked, bundle, known>>
    BY <1>3 DEF Tick
  <2>3. ASSUME NEW i \in DOMAIN bundle PROVE Shown(bundle[i])'
    <3>1. Shown(bundle[i]) /\ bundle[i] \in Generation
      BY <1>0 DEF Line, TypeOK
    <3>2. (bundle[i].cert # Null /\ bundle[i].cert.until # Null) => bundle[i].cert.until \in Nat
      BY <3>1 DEF Generation, Certificate
    <3> QED
      BY <2>1, <2>2, <3>1, <3>2 DEF Shown
  <2> QED
    BY <1>0, <2>2, <2>3 DEF Line, Family
<1>4. ASSUME NEW b \in DOMAIN births, NEW advised \in BOOLEAN, Serve(b, advised)
      PROVE  Line'
  <2> DEFINE g == [cert |-> births[b], revoked |-> b \in revoked,
                   advisory |-> IF advised THEN Verifies(births[b], clock) ELSE Null]
  <2>1. births[b] \in Certificate /\ births[b].birth = b /\ births[b].genuine = TRUE
    BY <1>0 DEF Family, TypeOK
  <2>2. Verifies(births[b], clock) \in BOOLEAN
    BY <2>1 DEF Verifies, Certificate
  <2>3. g \in Generation /\ Include(g)
    BY <1>4, <2>1, <2>2 DEF Generation, Serve
  <2>4. births[b] # Null
    BY <2>1, ScenesAssumption
  <2>5. g.advisory = TRUE \/ g.advisory = Null
        \/ (births[b].until # Null /\ births[b].until < clock)
    <3>1. clock \in Nat /\ births[b].until \in Nat \cup {Null}
      BY <1>0, <2>1, ScenesAssumption DEF TypeOK, Certificate
    <3>2. CASE Verifies(births[b], clock)
      BY <3>2
    <3>3. CASE ~Verifies(births[b], clock)
      BY <2>1, <3>1, <3>3 DEF Verifies
    <3> QED
      BY <3>2, <3>3
  <2>6. b \in known => g.revoked = TRUE
    BY DEF Line
  <2>7. Shown(g)
    BY <2>1, <2>4, <2>5, <2>6 DEF Shown
  <2>8. g.cert.birth \in revoked => g.revoked = TRUE
    BY <2>1
  <2> HIDE DEF g
  <2> QED
    BY <2>3, <2>7, <2>8, IncludeKeepsLine
<1>5. ASSUME NEW b \in DOMAIN births, NEW cert \in {births[b], Altered(b), Null},
             NEW advisory \in BOOLEAN \cup {Null}, Forge(cert, advisory)
      PROVE  Line'
  <2> DEFINE g == [cert |-> cert, revoked |-> FALSE, advisory |-> advisory]
  <2>1. births[b] \in Certificate /\ births[b].birth = b /\ DOMAIN births \in SUBSET Nat
    BY <1>0, BirthsAreNumbers DEF Family, TypeOK
  <2>2. cert \in Certificate \cup {Null} /\ (cert # Null /\ cert.genuine = TRUE => cert = births[b])
    BY <2>1 DEF Altered, Certificate
  <2>3. g \in Generation /\ Include(g) /\ ~scene.honest
    BY <1>5, <2>2 DEF Generation, Forge
  <2>4. Shown(g)
    BY <2>1, <2>2, <2>3 DEF Shown
  <2> HIDE DEF g
  <2> QED
    BY <2>3, <2>4, IncludeKeepsLine
<1>6. CASE UNCHANGED vars
  BY <1>0, <1>6 DEF vars, Line, Family, Shown
<1> QED
  BY <1>1, <1>2, <1>3, <1>4, <1>5, <1>6 DEF Next

LEMMA LineInit == Init => Line
BY LineageInit DEF Init, Line, Family

LEMMA LineHolds == Spec => []Line
BY LineInit, LineStep, PTL DEF Spec

-------------------------------------------------------------------------------
(* What an accepted bundle shows. *)

\* A non-empty set of numbers up to n has a greatest.
LEMMA BoundedMax ==
  ASSUME NEW n \in Nat, NEW S, S \subseteq 0 .. n, S # {}
  PROVE  \E m \in S : \A s \in S : s <= m
<1> DEFINE Dist == {n - s : s \in S}
<1>1. Dist \subseteq Nat /\ Dist # {}
  <2>1. PICK s \in S : TRUE
    OBVIOUS
  <2>2. \A t \in S : n - t \in Nat
    OBVIOUS
  <2> QED
    BY <2>1, <2>2
<1>2. PICK d \in Dist : \A e \in Dist : ~ (<<e, d>> \in OpToRel(<, Nat))
  BY <1>1, WFMin, NatLessThanWellFounded
<1>3. PICK m \in S : d = n - m
  BY <1>2
<1>4. ASSUME NEW s \in S PROVE s <= m
  <2>1. n - s \in Nat /\ n - m \in Nat /\ n - s \in Dist
    OBVIOUS
  <2>2. ~ (n - s < n - m)
    BY <1>2, <1>3, <2>1 DEF OpToRel
  <2> QED
    BY <2>1, <2>2
<1> QED
  BY <1>4

\* Every generation of an accepted bundle shows a birth, in date.
LEMMA AcceptedAreBirths ==
  ASSUME Line, Accepted, NEW i \in DOMAIN bundle
  PROVE  /\ bundle[i].cert # Null /\ Shown(bundle[i]) /\ bundle[i].revoked = FALSE
         /\ bundle[i].cert.birth \in DOMAIN births
         /\ bundle[i].cert = births[bundle[i].cert.birth]
         /\ bundle[i].cert.until # Null => clock <= bundle[i].cert.until
         /\ i \in Certified(bundle)
<1>1. bundle[i] \in Generation /\ Shown(bundle[i])
  BY DEF Line, TypeOK
<1>2. bundle[i].cert # Null /\ Verifies(bundle[i].cert, clock) /\ i \in Certified(bundle)
  BY DEF Accepted, VerifyBundle, Certified
<1>3. bundle[i].revoked = FALSE
  BY <1>1, <1>2 DEF Accepted, VerifyBundle, Flagged, Generation
<1> QED
  BY <1>1, <1>2, <1>3 DEF Shown, Verifies

LEMMA DescentOfLine == Line => AcceptedIsDescent
<1> SUFFICES ASSUME Line, Accepted
             PROVE  /\ \A i \in DOMAIN bundle :
                         /\ bundle[i].cert.birth \in DOMAIN births
                         /\ bundle[i].cert = births[bundle[i].cert.birth]
                         /\ bundle[i].cert.until # Null => clock <= bundle[i].cert.until
                    /\ scene.honest => Included \cap known = {}
                    /\ \A group \in (SUBSET (Named \ {bundle[1].cert.birth})) \ {{}} :
                         \E b \in group, d \in Included \ group : b \in births[d].parents
  BY DEF AcceptedIsDescent
<1>1. \A i \in DOMAIN bundle :
         /\ bundle[i].cert.birth \in DOMAIN births
         /\ bundle[i].cert = births[bundle[i].cert.birth]
         /\ bundle[i].cert.until # Null => clock <= bundle[i].cert.until
  BY AcceptedAreBirths
<1>2. scene.honest => Included \cap known = {}
  BY AcceptedAreBirths DEF Included, Shown
<1>3. ASSUME NEW group \in (SUBSET (Named \ {bundle[1].cert.birth})) \ {{}}
      PROVE  \E b \in group, d \in Included \ group : b \in births[d].parents
  <2>1. Len(births) \in Nat /\ DOMAIN births = 1 .. Len(births) /\ Included \subseteq DOMAIN births
    BY <1>1, BirthsAreNumbers DEF Line, Included
  <2>2. group # {} /\ group \subseteq 0 .. Len(births)
    <3>1. Named \subseteq 1 .. Len(births) /\ group \subseteq Named /\ group # {}
      BY <2>1 DEF Named
    <3> QED
      BY <2>1, <3>1
  <2>3. PICK m \in group : \A b \in group : b <= m
    BY <2>1, <2>2, BoundedMax
  <2>4. PICK i \in DOMAIN bundle : bundle[i].cert.birth = m /\ births[m].child # Null
    BY <2>3 DEF Named, Included
  <2>5. i # 1 /\ bundle[i].cert = births[m] /\ m \in DOMAIN births /\ births[m].child = m
    BY <1>1, <2>4 DEF Line, Family
  <2>6. m \in ParentHashes(bundle)
    <3>1. i \in Certified(bundle) \ {1} /\ Unlinked(bundle) = {}
      BY <2>5, AcceptedAreBirths DEF Accepted, VerifyBundle
    <3>2. bundle[i].cert.child = m /\ m # Null
      BY <2>1, <2>4, <2>5, ScenesAssumption
    <3> QED
      BY <3>1, <3>2 DEF Unlinked
  <2>7. PICK j \in DOMAIN bundle : m \in bundle[j].cert.parents
    BY <2>6 DEF ParentHashes, Certified
  <2> DEFINE d == bundle[j].cert.birth
  <2>8. d \in Included /\ d \in DOMAIN births /\ m \in births[d].parents
    BY <1>1, <2>7 DEF Included
  <2>9. m \in 1 .. d - 1
    BY <2>8 DEF Line, Family
  <2>10. d \notin group
    BY <2>1, <2>3, <2>8, <2>9
  <2> QED
    BY <2>8, <2>10
<1> QED
  BY <1>1, <1>2, <1>3

(* An accepted bundle shows one line of certificates that were issued so.  *)
THEOREM LineageDescent == Spec => []AcceptedIsDescent
BY LineHolds, DescentOfLine, PTL

(* A divergence from an honest server is a certificate that has run out.   *)
THEOREM LineageDivergence == Spec => []DivergenceIsExpiry
<1>1. Line => DivergenceIsExpiry
  <2> SUFFICES ASSUME Line, scene.honest, NEW i \in Divergent(bundle, clock)
               PROVE  bundle[i].cert.until # Null /\ bundle[i].cert.until < clock
    BY DEF DivergenceIsExpiry
  <2> DEFINE c == bundle[i].cert
  <2>1. /\ i \in DOMAIN bundle /\ c # Null
        /\ bundle[i].advisory # Null /\ bundle[i].advisory # Verifies(c, clock)
    BY DEF Divergent, Certified
  <2>2. Shown(bundle[i]) /\ Family
    BY <2>1 DEF Line
  <2>3. c.genuine = TRUE /\ c \in Certificate
    BY <2>1, <2>2 DEF Shown, Family, Line, TypeOK
  <2>4. clock \in Nat /\ c.until \in Nat \cup {Null}
    BY <2>3, ScenesAssumption DEF Certificate, Line, TypeOK
  <2>5. CASE bundle[i].advisory = TRUE
    <3>1. Verifies(c, clock) \in BOOLEAN
      BY <2>3 DEF Verifies, Certificate
    <3>2. ~Verifies(c, clock)
      BY <2>1, <2>5, <3>1
    <3> QED
      BY <2>3, <2>4, <3>2 DEF Verifies
  <2> QED
    BY <2>1, <2>2, <2>5 DEF Shown
<1> QED
  BY <1>1, LineHolds, PTL
===============================================================================
