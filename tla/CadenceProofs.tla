----------------------------- MODULE CadenceProofs -----------------------------
(***************************************************************************)
(* Theorems about CadenceWatch, for every set of scenes: whatever was      *)
(* promised, for however many rounds, and whatever relays alter and forge. *)
(***************************************************************************)
EXTENDS CadenceWatch, FiniteSetTheorems, TLAPS, WellFoundedInduction

-------------------------------------------------------------------------------
(* Maxima. *)

\* Max is a member of a non-empty set of numbers up to n, and bounds it.
LEMMA BoundedMax ==
  ASSUME NEW n \in Nat, NEW S, S \subseteq 0 .. n, S # {}
  PROVE  Max(S) \in S /\ \A s \in S : s <= Max(S)
<1> DEFINE Dist == {n - s : s \in S}
<1>1. Dist \subseteq Nat /\ Dist # {}
  <2>1. PICK s \in S : TRUE
    OBVIOUS
  <2>2. \A t \in S : n - t \in Nat
    OBVIOUS
  <2> QED
    BY <2>1, <2>2
<1>2. PICK d \in Dist : \A e \in Dist : ~ (<<e, d>> \in OpToRel(<, Nat))
  BY <1>1, WFMin, NatLessThanWellFounded
<1>3. PICK m \in S : d = n - m
  BY <1>2
<1>4. ASSUME NEW s \in S PROVE m >= s
  <2>1. n - s \in Nat /\ n - m \in Nat /\ n - s \in Dist
    OBVIOUS
  <2>2. ~ (n - s < n - m)
    BY <1>2, <1>3, <2>1 DEF OpToRel
  <2> QED
    BY <2>1, <2>2
<1>5. Max(S) \in S /\ \A s \in S : Max(S) >= s
  BY <1>3, <1>4 DEF Max
<1> QED
  BY <1>5

-------------------------------------------------------------------------------
(* Types, and what was signed. *)

\* The party signs no round before it comes; a signature that verifies, on file
\* or surfaced, is over a round the party spoke in.
Signed ==
  /\ TypeOK
  /\ \A h \in spoken : h.round \in 0 .. now
  /\ \A h \in Range(filed) \cup surfaced : h.sig = TRUE => h.round \in SpokenRounds

LEMMA SceneTypes ==
  TypeOK => scene.maxRound \in Nat /\ now \in Nat
BY WatchAssumption DEF TypeOK

\* The party's last round, if it spoke, is one it spoke in.
LEMMA LastSpokenType == Signed => LastSpoken \in Nat \cup {Null}
<1> SUFFICES ASSUME Signed, spoken # {} PROVE LastSpoken \in Nat
  BY DEF LastSpoken
<1>1. now \in Nat /\ SpokenRounds \subseteq 0 .. now /\ SpokenRounds # {}
  BY SceneTypes DEF Signed, SpokenRounds
<1>2. Max(SpokenRounds) \in SpokenRounds
  BY <1>1, BoundedMax
<1>3. PICK m \in SpokenRounds : m = Max(SpokenRounds)
  BY <1>2
<1>4. m \in Nat
  BY <1>1
<1> QED
  BY <1>3, <1>4 DEF LastSpoken

\* What can be delivered is a heartbeat; if it verifies the party spoke in its round.
LEMMA DeliverableIsSigned ==
  ASSUME Signed, NEW h \in Deliverable
  PROVE  h \in Heartbeat /\ (h.sig = TRUE => h.round \in SpokenRounds)
<1>0. now \in Nat /\ scene.maxRound \in Nat /\ spoken \subseteq Heartbeat
  BY SceneTypes DEF Signed, TypeOK
<1>1. CASE h \in spoken
  BY <1>0, <1>1 DEF SpokenRounds
<1>2. ASSUME NEW g \in spoken, NEW i \in {Null, scene.maxRound + 1}, h = [g EXCEPT !.id = i]
      PROVE  h \in Heartbeat /\ (h.sig = TRUE => h.round \in SpokenRounds)
  <2>1. g \in Heartbeat /\ i \in Nat \cup {Null} /\ g.round \in SpokenRounds
    BY <1>0 DEF SpokenRounds
  <2>2. h \in Heartbeat /\ h.round = g.round
    BY <1>2, <2>1 DEF Heartbeat, Ids
  <2> QED
    BY <2>1, <2>2
<1>3. CASE h \in [round: 0 .. now, prev: {Null, LastSpoken}, id: {now}, sig: {FALSE}]
  <2>1. {Null, LastSpoken} \subseteq Nat \cup {Null} /\ 0 .. now \subseteq Nat /\ {now} \subseteq Nat
    BY <1>0, LastSpokenType
  <2>2. h.sig = FALSE
    BY <1>3
  <2> QED
    BY <1>3, <2>1, <2>2 DEF Heartbeat, Ids, Rounds
<1> DEFINE Relabelled == {[g EXCEPT !.id = i] : g \in spoken, i \in {Null, scene.maxRound + 1}}
           Forged == [round: 0 .. now, prev: {Null, LastSpoken}, id: {now}, sig: {FALSE}]
<1>4. h \in Relabelled =>
         \E g \in spoken, i \in {Null, scene.maxRound + 1} : h = [g EXCEPT !.id = i]
  OBVIOUS
<1>5. Altered = Relabelled \cup Forged
  BY DEF Altered
<1> HIDE DEF Relabelled, Forged
<1>6. h \in spoken \/ h \in Relabelled \/ h \in Forged
  BY <1>5 DEF Deliverable
<1> QED
  BY <1>1, <1>2, <1>3, <1>4, <1>6 DEF Forged

LEMMA SignedInit == Init => Signed
<1> SUFFICES ASSUME Init PROVE Signed
  OBVIOUS
<1>1. scene.maxRound \in Nat
  BY WatchAssumption DEF Init
<1>2. TypeOK
  BY <1>1 DEF Init, TypeOK
<1>3. Range(filed) = {}
  BY DEF Init, Range
<1> QED
  BY <1>2, <1>3 DEF Init, Signed

LEMMA SignedStep == Signed /\ [Next]_vars => Signed'
<1> SUFFICES ASSUME Signed, [Next]_vars PROVE Signed'
  OBVIOUS
<1>0. /\ TypeOK /\ now \in Nat /\ scene.maxRound \in Nat
      /\ filed \in Seq(Heartbeat) /\ surfaced \subseteq Heartbeat
  BY SceneTypes DEF Signed, TypeOK
<1>1. CASE Speak
  <2> DEFINE new == [round |-> now, prev |-> LastSpoken, id |-> now, sig |-> TRUE]
  <2>1. new \in Heartbeat /\ new.round = now
    BY <1>0, LastSpokenType DEF Heartbeat, Ids, Rounds
  <2>2. spoken' = spoken \cup {new} /\ UNCHANGED <<scene, promise, now, filed, surfaced>>
    BY <1>1 DEF Speak
  <2> HIDE DEF new
  <2>3. TypeOK'
    BY <1>0, <2>1, <2>2 DEF TypeOK
  <2>4. SpokenRounds \subseteq SpokenRounds'
    BY <2>2 DEF SpokenRounds
  <2>5. \A h \in spoken' : h.round \in 0 .. now'
    BY <1>0, <2>1, <2>2 DEF Signed
  <2> QED
    BY <2>2, <2>3, <2>4, <2>5 DEF Signed, Range
<1>2. CASE Tick
  <2>1. now' = now + 1 /\ now' <= scene.maxRound
        /\ UNCHANGED <<scene, promise, spoken, filed, surfaced>>
    BY <1>0, <1>2 DEF Tick
  <2>2. TypeOK'
    BY <1>0, <2>1 DEF TypeOK
  <2>3. SpokenRounds' = SpokenRounds /\ \A h \in spoken' : h.round \in 0 .. now'
    BY <1>0, <2>1 DEF Signed, SpokenRounds
  <2> QED
    BY <2>1, <2>2, <2>3 DEF Signed, Range
<1>3. ASSUME NEW h \in Deliverable, File(h) PROVE Signed'
  <2>1. h \in Heartbeat /\ (h.sig = TRUE => h.round \in SpokenRounds)
    BY DeliverableIsSigned
  <2>2. filed' = Append(filed, h) /\ UNCHANGED <<scene, promise, now, spoken, surfaced>>
    BY <1>3 DEF File
  <2>3. filed' \in Seq(Heartbeat) /\ Range(filed') \subseteq Range(filed) \cup {h}
    BY <1>0, <2>1, <2>2 DEF Range
  <2>4. TypeOK' /\ SpokenRounds' = SpokenRounds
    BY <1>0, <2>2, <2>3 DEF TypeOK, SpokenRounds
  <2> QED
    BY <2>1, <2>2, <2>3, <2>4 DEF Signed
<1>4. ASSUME NEW h \in Deliverable, Surface(h) PROVE Signed'
  <2>1. h \in Heartbeat /\ (h.sig = TRUE => h.round \in SpokenRounds)
    BY DeliverableIsSigned
  <2>2. surfaced' = {h} /\ UNCHANGED <<scene, promise, now, spoken, filed>>
    BY <1>4 DEF Surface
  <2>3. TypeOK' /\ SpokenRounds' = SpokenRounds
    BY <1>0, <2>1, <2>2 DEF TypeOK, SpokenRounds
  <2> QED
    BY <2>1, <2>2, <2>3 DEF Signed, Range
<1>5. CASE UNCHANGED vars
  BY <1>0, <1>5 DEF vars, Signed, TypeOK, SpokenRounds, Range
<1> QED
  BY <1>1, <1>2, <1>3, <1>4, <1>5 DEF Next

LEMMA SignedHolds == Spec => []Signed
BY SignedInit, SignedStep, PTL DEF Spec

(* Type correctness of the promise, the heartbeats signed and those filed. *)
THEOREM CadenceTypes == Spec => []TypeOK
<1>1. Signed => TypeOK
  BY DEF Signed
<1> QED
  BY <1>1, SignedHolds, PTL

-------------------------------------------------------------------------------
(* Speech, refutation and kept promises. *)

\* What stands for a round is a heartbeat on file for that round.
LEMMA ByRoundIsFiled ==
  ASSUME NEW hbs \in Seq(Heartbeat), NEW r, ByRound(hbs, r) # Null
  PROVE  ByRound(hbs, r) \in Range(hbs) /\ ByRound(hbs, r).round = r
<1>1. Filings(hbs, r) # {} /\ Filings(hbs, r) \subseteq 0 .. Len(hbs) /\ Len(hbs) \in Nat
  BY DEF ByRound, Filings
<1>2. Max(Filings(hbs, r)) \in Filings(hbs, r)
  BY <1>1, BoundedMax
<1> QED
  BY <1>1, <1>2 DEF ByRound, Filings, Range

\* A refutation is an answer from inside a gap, to a promise that can be priced.
LEMMA RefutedMeans ==
  ASSUME NEW c, NEW hbs, NEW counters, NEW t
  PROVE  CheckCadence(c, hbs, counters, t) = "refuted" <=>
           /\ ~(c = Null \/ ~c.sig \/ c.step <= 0)
           /\ Expected(c, t) # {} /\ Missing(c, hbs, t) # {}
           /\ \E cr \in counters : Refutes(cr, Missing(c, hbs, t))
BY DEF CheckCadence

(* A relay cannot manufacture speech, whatever it relabels and forges.     *)
THEOREM SpeechIsSigned == Spec => []NoManufacturedSpeech
<1>1. Signed => NoManufacturedSpeech
  <2> SUFFICES ASSUME Signed PROVE NoManufacturedSpeech
    OBVIOUS
  <2>0. filed \in Seq(Heartbeat) /\ surfaced \subseteq Heartbeat
    BY DEF Signed, TypeOK
  <2>1. ASSUME NEW r \in Present(promise, filed, now) PROVE r \in SpokenRounds
    <3> DEFINE h == ByRound(filed, r)
    <3>1. h # Null /\ h.sig
      BY DEF Present, Accepts
    <3>2. h \in Range(filed) /\ h.round = r
      BY <2>0, <3>1, ByRoundIsFiled
    <3>3. h \in Heartbeat
      BY <2>0, <3>2 DEF Range
    <3>4. h.sig = TRUE
      BY <3>1, <3>3 DEF Heartbeat
    <3> QED
      BY <3>2, <3>4 DEF Signed
  <2>2. ASSUME Verdict = "refuted" PROVE Gaps \cap SpokenRounds # {}
    <3>1. PICK cr \in surfaced : cr.round \in Gaps /\ cr.sig
      BY <2>2, RefutedMeans DEF Verdict, Gaps, Refutes
    <3>2. cr.sig = TRUE
      BY <2>0, <3>1 DEF Heartbeat
    <3> QED
      BY <3>1, <3>2 DEF Signed
  <2> QED
    BY <2>1, <2>2 DEF NoManufacturedSpeech
<1> QED
  BY <1>1, SignedHolds, PTL

(* Neither time nor a filing undoes a refutation while the gap is open.    *)
THEOREM RefutationLasts == Spec => RefutationOutlivesTime
<1> DEFINE Lasts == Verdict = "refuted" /\ Gaps \subseteq Gaps' => Verdict' = "refuted"
<1>1. [Next]_vars => [Lasts]_vars
  <2> SUFFICES ASSUME Next, Verdict = "refuted", Gaps \subseteq Gaps'
               PROVE  Verdict' = "refuted"
    OBVIOUS
  <2>1. promise' = promise /\ surfaced \subseteq surfaced'
    BY DEF Next, Speak, Tick, File, Surface
  <2>2. /\ ~(promise = Null \/ ~promise.sig \/ promise.step <= 0)
        /\ Gaps # {} /\ \E cr \in surfaced : Refutes(cr, Gaps)
    BY RefutedMeans DEF Verdict, Gaps
  <2>3. \E cr \in surfaced' : Refutes(cr, Gaps')
    BY <2>1, <2>2 DEF Refutes
  <2>4. Gaps' # {} /\ Gaps' = Missing(promise, filed', now')
    BY <2>1, <2>2 DEF Gaps
  <2>5. Expected(promise, now') # {}
    BY <2>4 DEF Missing
  <2> QED
    BY <2>1, <2>2, <2>3, <2>4, <2>5, RefutedMeans DEF Verdict
<1> QED
  BY <1>1, PTL DEF Spec, RefutationOutlivesTime

\* Once a promise has run out, the rounds that are due no longer change.
LEMMA ExpectedStandsStill ==
  ASSUME NEW c, c.until \in Nat \ {0}, NEW s \in Nat, NEW t \in Nat,
         c.until <= s, c.until <= t
  PROVE  Expected(c, s) = Expected(c, t)
<1>1. ASSUME NEW u \in Nat, c.until <= u PROVE Min({Until(c, u), u}) = c.until
  <2>1. Until(c, u) = c.until
    BY NullAssumption DEF Until
  <2>2. \A x \in {c.until, u} : (\A y \in {c.until, u} : x <= y) <=> x = c.until
    BY <1>1
  <2>3. Min({c.until, u}) = c.until
    BY <2>2 DEF Min
  <2> QED
    BY <2>1, <2>3
<1>2. Min({Until(c, s), s}) = c.until /\ Min({Until(c, t), t}) = c.until
  BY <1>1
<1> QED
  BY <1>2, Zenon DEF Expected

\* What is due decides, with the filings, what is missing.
LEMMA MissingFollowsExpected ==
  ASSUME NEW c, NEW hbs, NEW s, NEW t, Expected(c, s) = Expected(c, t)
  PROVE  Missing(c, hbs, s) = Missing(c, hbs, t)
<1>1. Present(c, hbs, s) = Present(c, hbs, t)
  BY Zenon DEF Present
<1> QED
  BY <1>1, Zenon DEF Missing

(* A promise that has run out and was kept stays kept as rounds go by.     *)
THEOREM KeptStaysKept == Spec => KeptPromiseStaysKept
<1> DEFINE Kept == /\ Promised /\ promise.until \in Nat \ {0} /\ now >= promise.until
                   /\ Verdict = "live" /\ filed' = filed
<1>1. Signed /\ [Next]_vars => [Kept => Verdict' = "live"]_vars
  <2> SUFFICES ASSUME Signed, Next, Kept PROVE Verdict' = "live"
    OBVIOUS
  <2>1. now \in Nat /\ (now' = now \/ now' = now + 1) /\ promise' = promise
    BY SceneTypes DEF Signed, Next, Speak, Tick, File, Surface
  <2>2. Expected(promise, now) = Expected(promise, now')
    BY <2>1, ExpectedStandsStill
  <2>3. Missing(promise, filed, now) = Missing(promise, filed, now')
    BY <2>2, MissingFollowsExpected
  <2>4. /\ ~(promise = Null \/ ~promise.sig \/ promise.step <= 0)
        /\ Expected(promise, now) # {} /\ Missing(promise, filed, now) = {}
    BY DEF Verdict, CheckCadence
  <2>5. Verdict' = CheckCadence(promise, filed, surfaced', now')
    BY <2>1 DEF Verdict
  <2> QED
    BY <2>2, <2>3, <2>4, <2>5 DEF CheckCadence
<1> QED
  BY <1>1, SignedHolds, PTL DEF Spec, KeptPromiseStaysKept

-------------------------------------------------------------------------------
(* The chain of what was signed. *)

\* p names the last round the party spoke in before round x, if there is one.
IsLastBefore(p, x) ==
  \/ p = Null /\ \A q \in SpokenRounds : q >= x
  \/ p \in SpokenRounds /\ p < x /\ \A q \in SpokenRounds : q < x => q <= p

\* The inductive invariant of the remaining theorems.  Every heartbeat signed
\* names the one before it, there is one a round, a relay that is not hostile
\* files only these, and a plain party speaks only in rounds it promised.
Chained ==
  /\ Signed
  /\ \A h \in spoken : h.sig = TRUE /\ h.id = h.round /\ IsLastBefore(h.prev, h.round)
  /\ \A g, h \in spoken : g.round = h.round => g = h
  /\ ~scene.hostile => Range(filed) \subseteq spoken
  /\ Plain => \A r \in SpokenRounds : Due(r)

\* There is only one last round before x.
LEMMA LastBeforeIsOne ==
  ASSUME Signed, NEW x \in Nat, NEW p, NEW q, IsLastBefore(p, x), IsLastBefore(q, x)
  PROVE  p = q
<1>1. SpokenRounds \subseteq Nat
  BY SceneTypes DEF Signed, SpokenRounds
<1>2. ASSUME NEW a \in SpokenRounds, NEW b \in SpokenRounds, a < x, b < x,
             \A c \in SpokenRounds : c < x => c <= a,
             \A c \in SpokenRounds : c < x => c <= b
      PROVE  a = b
  <2>1. a <= b /\ b <= a /\ a \in Nat /\ b \in Nat
    BY <1>1, <1>2
  <2> QED
    BY <2>1
<1>3. ASSUME NEW a \in SpokenRounds, a < x, \A c \in SpokenRounds : c >= x
      PROVE  FALSE
  BY <1>1, <1>3
<1> QED
  BY <1>2, <1>3 DEF IsLastBefore

\* The chain head is the last round before any that is still to come.
LEMMA LastSpokenIsLast ==
  ASSUME Signed, NEW x \in Nat, \A q \in SpokenRounds : q < x
  PROVE  IsLastBefore(LastSpoken, x)
<1>1. now \in Nat /\ SpokenRounds \subseteq 0 .. now
  BY SceneTypes DEF Signed, SpokenRounds
<1>2. CASE spoken = {}
  BY <1>2 DEF LastSpoken, IsLastBefore, SpokenRounds
<1>3. CASE spoken # {}
  <2>1. SpokenRounds # {}
    BY <1>3 DEF SpokenRounds
  <2>2. Max(SpokenRounds) \in SpokenRounds /\ \A s \in SpokenRounds : s <= Max(SpokenRounds)
    BY <1>1, <2>1, BoundedMax
  <2>3. PICK m \in SpokenRounds : m = Max(SpokenRounds)
    BY <2>2
  <2>4. LastSpoken = m /\ \A s \in SpokenRounds : s <= m
    BY <1>3, <2>2, <2>3 DEF LastSpoken
  <2> QED
    BY <2>4 DEF IsLastBefore
<1> QED
  BY <1>2, <1>3

LEMMA ChainedInit == Init => Chained
<1> SUFFICES ASSUME Init PROVE Chained
  OBVIOUS
<1>1. Range(filed) = {} /\ SpokenRounds = {}
  BY DEF Init, Range, SpokenRounds
<1> QED
  BY <1>1, SignedInit DEF Init, Chained

LEMMA ChainedStep == Chained /\ [Next]_vars => Chained'
<1> SUFFICES ASSUME Chained, [Next]_vars PROVE Chained'
  OBVIOUS
<1>0. /\ Signed /\ TypeOK /\ Signed' /\ now \in Nat
      /\ filed \in Seq(Heartbeat) /\ spoken \subseteq Heartbeat
      /\ SpokenRounds \subseteq 0 .. now
  BY SignedStep, SceneTypes DEF Chained, Signed, TypeOK, SpokenRounds
<1>1. CASE Speak
  <2> DEFINE new == [round |-> now, prev |-> LastSpoken, id |-> now, sig |-> TRUE]
  <2>1. spoken' = spoken \cup {new} /\ UNCHANGED <<scene, promise, now, filed, surfaced>>
    BY <1>1 DEF Speak
  <2>2. new.round = now /\ new.id = now /\ new.sig = TRUE /\ new.prev = LastSpoken
    OBVIOUS
  <2>3. now \notin SpokenRounds /\ \A q \in SpokenRounds : q < now
    BY <1>0, <1>1 DEF Speak
  <2>4. IsLastBefore(LastSpoken, now)
    BY <1>0, <2>3, LastSpokenIsLast
  <2> HIDE DEF new
  <2>5. SpokenRounds' = SpokenRounds \cup {now}
    BY <2>1, <2>2 DEF SpokenRounds
  <2>6. ASSUME NEW p, NEW x \in 0 .. now, IsLastBefore(p, x)
        PROVE  IsLastBefore(p, x)'
    <3>1. \A q \in SpokenRounds' : q \in SpokenRounds \/ (q = now /\ ~(q < x) /\ q >= x)
      BY <1>0, <2>5, <2>6
    <3> QED
      BY <2>5, <2>6, <3>1 DEF IsLastBefore
  <2>7. \A h \in spoken' : h.sig = TRUE /\ h.id = h.round /\ IsLastBefore(h.prev, h.round)'
    <3>1. ASSUME NEW h \in spoken
          PROVE  h.sig = TRUE /\ h.id = h.round /\ IsLastBefore(h.prev, h.round)'
      <4>1. h.round \in 0 .. now /\ IsLastBefore(h.prev, h.round)
        BY <1>0 DEF Chained, Signed
      <4>2. IsLastBefore(h.prev, h.round)'
        BY <2>6, <4>1
      <4> QED
        BY <4>2 DEF Chained
    <3>2. PICK n : n = new
      OBVIOUS
    <3>3. n.round = now /\ n.id = now /\ n.sig = TRUE /\ IsLastBefore(n.prev, n.round)
      BY <2>2, <2>4, <3>2
    <3>4. n.round \in 0 .. now
      BY <1>0, <3>3
    <3>5. n.sig = TRUE /\ n.id = n.round /\ IsLastBefore(n.prev, n.round)'
      BY <2>6, <3>3, <3>4
    <3> QED
      BY <2>1, <3>1, <3>2, <3>5
  <2>8. \A g, h \in spoken' : g.round = h.round => g = h
    <3>1. \A h \in spoken : h.round # new.round
      BY <2>2, <2>3 DEF SpokenRounds
    <3> QED
      BY <2>1, <3>1 DEF Chained
  <2>9. ~scene'.hostile => Range(filed)' \subseteq spoken'
    BY <2>1 DEF Chained, Range
  <2>10. Plain' => \A r \in SpokenRounds' : Due(r)'
    <3>1. Plain => Due(now)
      BY <1>1 DEF Speak, Plain
    <3>2. \A r : Due(r)' = Due(r)
      BY <2>1 DEF Due, Promised
    <3> QED
      BY <2>1, <2>5, <3>1, <3>2 DEF Chained, Plain
  <2> QED
    BY <1>0, <2>7, <2>8, <2>9, <2>10 DEF Chained
<1>2. ASSUME UNCHANGED <<scene, promise, spoken, filed>> PROVE Chained'
  <2>1. SpokenRounds' = SpokenRounds
    BY <1>2 DEF SpokenRounds
  <2>2. \A p, x : IsLastBefore(p, x)' = IsLastBefore(p, x)
    BY <2>1 DEF IsLastBefore
  <2>3. \A r : Due(r)' = Due(r)
    BY <1>2 DEF Due, Promised
  <2> QED
    BY <1>0, <1>2, <2>1, <2>2, <2>3 DEF Chained, Plain, Range
<1>3. ASSUME NEW h \in Deliverable, File(h) PROVE Chained'
  <2>1. filed' = Append(filed, h) /\ UNCHANGED <<scene, promise, now, spoken, surfaced>>
    BY <1>3 DEF File
  <2>2. SpokenRounds' = SpokenRounds
    BY <2>1 DEF SpokenRounds
  <2>3. \A p, x : IsLastBefore(p, x)' = IsLastBefore(p, x)
    BY <2>2 DEF IsLastBefore
  <2>4. \A r : Due(r)' = Due(r)
    BY <2>1 DEF Due, Promised
  <2>5. ~scene.hostile => h \in spoken
    BY DEF Deliverable
  <2>6. Range(filed') \subseteq Range(filed) \cup {h}
    BY <1>0, <2>1 DEF Range
  <2> QED
    BY <1>0, <2>1, <2>2, <2>3, <2>4, <2>5, <2>6 DEF Chained, Plain
<1> QED
  BY <1>1, <1>2, <1>3 DEF Next, Tick, Surface, vars

LEMMA ChainedHolds == Spec => []Chained
BY ChainedInit, ChainedStep, PTL DEF Spec

-------------------------------------------------------------------------------
(* The walk over the rounds that are due. *)

\* A non-empty set of naturals has a least element.
LEMMA NatMin ==
  ASSUME NEW T, T \subseteq Nat, T # {}
  PROVE  \E n \in T : \A m \in T : n <= m
<1>1. PICK n \in T : \A m \in T : ~ (<<m, n>> \in OpToRel(<, Nat))
  BY WFMin, NatLessThanWellFounded
<1>2. ASSUME NEW m \in T PROVE n <= m
  <2>1. ~ (m < n)
    BY <1>1 DEF OpToRel
  <2> QED
    BY <2>1
<1> QED
  BY <1>2

\* Induction on the naturals, of a set.
LEMMA AllNaturals ==
  ASSUME NEW T, 0 \in T, \A n \in Nat : n \in T => n + 1 \in T
  PROVE  Nat \subseteq T
<1>1. SUFFICES ASSUME (Nat \ T) # {} PROVE FALSE
  OBVIOUS
<1>2. PICK n \in Nat \ T : \A m \in Nat \ T : n <= m
  BY <1>1, NatMin
<1>3. n - 1 \in Nat /\ n - 1 < n
  BY <1>2
<1>4. n - 1 \in T
  BY <1>2, <1>3
<1>5. (n - 1) + 1 = n
  BY <1>2
<1> QED
  BY <1>2, <1>3, <1>4, <1>5

\* The lesser of two naturals.
LEMMA MinOfTwo ==
  ASSUME NEW a \in Nat, NEW b \in Nat
  PROVE  Min({a, b}) \in Nat /\ \A r \in Int : r <= Min({a, b}) <=> r <= a /\ r <= b
<1>1. \E x \in {a, b} : \A y \in {a, b} : x <= y
  OBVIOUS
<1>2. Min({a, b}) \in {a, b} /\ \A y \in {a, b} : Min({a, b}) <= y
  BY <1>1 DEF Min
<1>3. PICK m \in {a, b} : m = Min({a, b}) /\ \A y \in {a, b} : m <= y
  BY <1>2
<1> QED
  BY <1>3

\* The rounds that have come due.
LEMMA ExpectedIs ==
  ASSUME NEW c \in Commitment, NEW t \in Nat, NEW r
  PROVE  r \in Expected(c, t) <=>
           /\ r \in Nat /\ c.from <= r /\ r <= t
           /\ c.until \in {Null, 0} \/ r <= c.until
           /\ (r - c.from) % c.step = 0
<1>1. c.from \in Nat /\ c.until \in Nat \cup {Null}
  BY DEF Commitment, Rounds
<1>2. CASE c.until \in {Null, 0}
  <2>1. Until(c, t) = t
    BY <1>2 DEF Until
  <2> DEFINE m == Min({t, t})
  <2>2. m \in Nat /\ \A x \in Int : x <= m <=> x <= t
    BY MinOfTwo
  <2>3. Expected(c, t) = {x \in c.from .. m : (x - c.from) % c.step = 0}
    BY <2>1, Zenon DEF Expected
  <2> HIDE DEF m
  <2>4. m = t
    BY <2>2
  <2>5. r \in c.from .. t <=> r \in Nat /\ c.from <= r /\ r <= t
    BY <1>1
  <2> QED
    BY <1>2, <2>3, <2>4, <2>5
<1>3. CASE c.until \notin {Null, 0}
  <2>1. Until(c, t) = c.until /\ c.until \in Nat
    BY <1>1, <1>3 DEF Until
  <2> DEFINE m == Min({c.until, t})
  <2>2. m \in Nat /\ \A x \in Int : x <= m <=> x <= c.until /\ x <= t
    BY <2>1, MinOfTwo
  <2>3. Expected(c, t) = {x \in c.from .. m : (x - c.from) % c.step = 0}
    BY <2>1, Zenon DEF Expected
  <2> HIDE DEF m
  <2> QED
    BY <1>1, <1>3, <2>2, <2>3
<1> QED
  BY <1>2, <1>3

\* Multiples of a step.
LEMMA Multiples ==
  ASSUME NEW s \in Nat, s > 0, NEW j \in Nat, NEW k \in Nat
  PROVE  /\ k * s \in Nat /\ (k + 1) * s = k * s + s
         /\ (k * s) % s = 0 /\ (k * s) \div s = k
         /\ j < k => j * s + s <= k * s
<1>1. k * s \in Nat /\ (k + 1) * s = k * s + s
  OBVIOUS
<1>2. (k * s) % s = 0
  OBVIOUS
<1>3. (k * s) \div s = k
  OBVIOUS
<1>4. j < k => j * s + s <= k * s
  OBVIOUS
<1> QED
  BY <1>1, <1>2, <1>3, <1>4

\* A round that is due is a whole number of steps from the start, and no more
\* of them than there are rounds due.
LEMMA IndexOfRound ==
  ASSUME NEW c \in Commitment, c.step > 0, NEW t \in Nat, NEW r \in Expected(c, t)
  PROVE  /\ (r - c.from) \div c.step \in 0 .. Cardinality(Expected(c, t))
         /\ r = c.from + ((r - c.from) \div c.step) * c.step
         /\ Cardinality(Expected(c, t)) \in Nat
<1> DEFINE s == c.step
           k == (r - c.from) \div s
           E == Expected(c, t)
           f == [j \in 0 .. k |-> c.from + j * s]
<1>1. c.from \in Nat /\ s \in Nat /\ s > 0 /\ r \in Nat /\ c.from <= r /\ (r - c.from) % s = 0
  BY ExpectedIs DEF Commitment, Rounds
<1>2. PICK d \in Nat : d = r - c.from /\ d % s = 0
  BY <1>1
<1> HIDE DEF s
<1>3. d \div s \in Nat /\ d = (d \div s) * s
  BY <1>1, <1>2
<1>4. k \in Nat /\ r = c.from + k * s
  BY <1>1, <1>2, <1>3
<1> HIDE DEF k
<1>5. ASSUME NEW j \in 0 .. k PROVE c.from + j * s \in E
  <2>1. j \in Nat /\ j * s \in Nat /\ (j * s) % s = 0
    BY <1>1, Multiples
  <2>2. j * s <= k * s
    BY <1>1, <1>4, <2>1, Multiples
  <2>3. PICK a \in Nat, b \in Nat : a = j * s /\ b = k * s
    BY <1>1, <1>4, <2>1, Multiples
  <2>4. PICK x \in Nat : x = c.from + a
    BY <1>1, <2>3
  <2>5. c.from <= x /\ x <= r /\ (x - c.from) % s = 0
    <3>1. x - c.from = a /\ c.from <= x
      BY <1>1, <2>3, <2>4
    <3>2. x <= r
      BY <1>1, <1>4, <2>2, <2>3, <2>4
    <3> QED
      BY <2>1, <2>3, <3>1, <3>2
  <2>6. x <= t /\ (c.until \in {Null, 0} \/ x <= c.until)
    <3>1. r <= t /\ (c.until \in {Null, 0} \/ r <= c.until) /\ c.until \in Nat \cup {Null}
      BY ExpectedIs DEF Commitment, Rounds
    <3> QED
      BY <1>1, <2>5, <3>1
  <2> QED
    BY <2>3, <2>4, <2>5, <2>6, ExpectedIs DEF s
<1>6. \A i, j \in 0 .. k : i # j => c.from + i * s # c.from + j * s
  <2> SUFFICES ASSUME NEW i \in 0 .. k, NEW j \in 0 .. k, i < j
               PROVE  c.from + i * s # c.from + j * s
    <3>1. \A i, j \in 0 .. k : i # j => i < j \/ j < i
      OBVIOUS
    <3> QED
      BY <3>1
  <2>1. i * s + s <= j * s /\ i * s \in Nat /\ j * s \in Nat
    BY <1>1, Multiples
  <2> QED
    BY <1>1, <2>1
<1>7. f \in Injection(0 .. k, E)
  BY <1>5, <1>6 DEF Injection, IsInjective
<1>8. IsFiniteSet(E)
  <2>1. E \subseteq 0 .. t
    BY ExpectedIs
  <2>2. IsFiniteSet(0 .. t)
    BY FS_Interval
  <2> QED
    BY <2>1, <2>2, FS_Subset
<1>9. Cardinality(0 .. k) <= Cardinality(E)
  BY <1>7, <1>8, FS_Injection
<1>10. Cardinality(0 .. k) = k + 1
  BY <1>4, FS_Interval
<1>11. Cardinality(E) \in Nat
  BY <1>8, FS_CardinalityType
<1>12. k \in 0 .. Cardinality(E)
  BY <1>4, <1>9, <1>10, <1>11
<1> QED
  BY <1>4, <1>11, <1>12 DEF k, s

\* The prev that stands after k rounds of the walk.
WalkStep(c, hbs, walk, k) ==
  IF k = 0 THEN Null
  ELSE NextPrev(ByRound(hbs, c.from + (k - 1) * c.step), walk[k - 1])

\* The walk can be taken to any length.
LEMMA WalkExists ==
  ASSUME NEW c, NEW hbs, NEW L \in Nat
  PROVE  \E walk : walk = [k \in 0 .. L |-> WalkStep(c, hbs, walk, k)]
<1> DEFINE T == {n \in Nat : \E f : f = [k \in 0 .. n |-> WalkStep(c, hbs, f, k)]}
<1>1. 0 \in T
  <2> DEFINE f == [k \in 0 .. 0 |-> Null]
  <2>1. \A k \in 0 .. 0 : WalkStep(c, hbs, f, k) = Null
    BY DEF WalkStep
  <2>2. f = [k \in 0 .. 0 |-> WalkStep(c, hbs, f, k)]
    BY <2>1
  <2> QED
    BY <2>2
<1>2. ASSUME NEW n \in Nat, n \in T PROVE n + 1 \in T
  <2>1. PICK f : f = [k \in 0 .. n |-> WalkStep(c, hbs, f, k)]
    BY <1>2
  <2> DEFINE g == [k \in 0 .. n + 1 |-> WalkStep(c, hbs, f, k)]
  <2>2. \A k \in 0 .. n : k \in 0 .. n + 1 /\ g[k] = f[k]
    BY <2>1
  <2>3. ASSUME NEW k \in 0 .. n + 1 PROVE WalkStep(c, hbs, g, k) = WalkStep(c, hbs, f, k)
    <3>1. k # 0 => k - 1 \in 0 .. n
      OBVIOUS
    <3> QED
      BY <2>2, <3>1 DEF WalkStep
  <2>4. g = [k \in 0 .. n + 1 |-> WalkStep(c, hbs, g, k)]
    BY <2>3
  <2> HIDE DEF g
  <2> QED
    BY <2>4
<1> HIDE DEF T
<1>3. L \in T
  BY <1>1, <1>2, AllNaturals
<1> QED
  BY <1>3 DEF T

\* Prevs reads, for each round that is due, the walk where it reaches that round.
LEMMA PrevsWalk ==
  ASSUME NEW c, NEW hbs, NEW due, Cardinality(due) \in Nat
  PROVE  \E walk : /\ \A k \in 0 .. Cardinality(due) : walk[k] = WalkStep(c, hbs, walk, k)
                   /\ \A r \in due : Prevs(c, hbs, due)[r] = walk[(r - c.from) \div c.step]
<1> DEFINE walk == CHOOSE w : w = [k \in 0 .. Cardinality(due) |-> WalkStep(c, hbs, w, k)]
<1>1. \E w : w = [k \in 0 .. Cardinality(due) |-> WalkStep(c, hbs, w, k)]
  BY WalkExists
<1>2. walk = [k \in 0 .. Cardinality(due) |-> WalkStep(c, hbs, walk, k)]
  BY Zenon, <1>1
<1>3. Prevs(c, hbs, due) = [r \in due |-> walk[(r - c.from) \div c.step]]
  BY Zenon DEF Prevs, WalkStep
<1> HIDE DEF walk
<1>4. \A k \in 0 .. Cardinality(due) : walk[k] = WalkStep(c, hbs, walk, k)
  BY <1>2
<1>5. \A r \in due : Prevs(c, hbs, due)[r] = walk[(r - c.from) \div c.step]
  BY <1>3
<1> QED
  BY <1>4, <1>5

\* Finitely many rounds have come due.
LEMMA ExpectedFinite ==
  ASSUME NEW c \in Commitment, NEW t \in Nat
  PROVE  Cardinality(Expected(c, t)) \in Nat
<1>1. Expected(c, t) \subseteq 0 .. t
  BY ExpectedIs
<1>2. IsFiniteSet(0 .. t)
  BY FS_Interval
<1> QED
  BY <1>1, <1>2, FS_Subset, FS_CardinalityType

\* A round counts as present when its heartbeat names what the walk has reached.
LEMMA PresentWalk ==
  ASSUME NEW c \in Commitment, c.step > 0, NEW t \in Nat, NEW hbs
  PROVE  \E w : /\ w[0] = Null
                /\ \A k \in Nat : k < Cardinality(Expected(c, t)) =>
                     w[k + 1] = NextPrev(ByRound(hbs, c.from + k * c.step), w[k])
                /\ \A r : r \in Present(c, hbs, t) <=>
                     /\ r \in Expected(c, t)
                     /\ Accepts(ByRound(hbs, r), w[(r - c.from) \div c.step])
<1> DEFINE E == Expected(c, t)
<1>1. Cardinality(E) \in Nat
  BY ExpectedFinite
<1> HIDE DEF E
<1> DEFINE index(r) == (r - c.from) \div c.step
<1>2. PICK w : /\ \A k \in 0 .. Cardinality(E) : w[k] = WalkStep(c, hbs, w, k)
               /\ \A r \in E : Prevs(c, hbs, E)[r] = w[index(r)]
  BY <1>1, PrevsWalk
<1>3. Present(c, hbs, t) = {r \in E : Accepts(ByRound(hbs, r), Prevs(c, hbs, E)[r])}
  BY Zenon DEF Present, E
<1> HIDE DEF index
<1>4. \A r : r \in Present(c, hbs, t) <=>
           r \in E /\ Accepts(ByRound(hbs, r), w[index(r)])
  BY <1>2, <1>3
<1>5. w[0] = Null
  BY <1>1, <1>2 DEF WalkStep
<1>6. ASSUME NEW k \in Nat, k < Cardinality(E)
      PROVE  w[k + 1] = NextPrev(ByRound(hbs, c.from + k * c.step), w[k])
  <2>1. k + 1 \in 0 .. Cardinality(E) /\ k + 1 # 0 /\ (k + 1) - 1 = k
    BY <1>1, <1>6
  <2>2. w[k + 1] = WalkStep(c, hbs, w, k + 1)
    BY <1>2, <2>1
  <2> QED
    BY <2>1, <2>2 DEF WalkStep
<1> QED
  BY <1>4, <1>5, <1>6 DEF E, index

-------------------------------------------------------------------------------
(* What a relay that alters nothing files. *)

\* What stands for a round is the one heartbeat the party signed for it, if it
\* was filed.
LEMMA HonestByRound ==
  ASSUME Chained, NEW hbs \in Seq(Heartbeat), Range(hbs) \subseteq spoken, NEW r
  PROVE  /\ \A g \in Range(hbs) : g.round = r => ByRound(hbs, r) = g
         /\ ByRound(hbs, r) # Null =>
              /\ ByRound(hbs, r) \in Range(hbs) /\ ByRound(hbs, r).round = r
              /\ ByRound(hbs, r) \in spoken
<1>1. ASSUME ByRound(hbs, r) # Null
      PROVE  /\ ByRound(hbs, r) \in Range(hbs) /\ ByRound(hbs, r).round = r
             /\ ByRound(hbs, r) \in spoken
  BY <1>1, ByRoundIsFiled
<1>2. ASSUME NEW g \in Range(hbs), g.round = r PROVE ByRound(hbs, r) = g
  <2>1. PICK i \in DOMAIN hbs : hbs[i] = g
    BY DEF Range
  <2>2. Filings(hbs, r) # {} /\ Filings(hbs, r) \subseteq 0 .. Len(hbs) /\ Len(hbs) \in Nat
    BY <1>2, <2>1 DEF Filings
  <2>3. Max(Filings(hbs, r)) \in Filings(hbs, r)
    BY <2>2, BoundedMax
  <2>4. ByRound(hbs, r) = hbs[Max(Filings(hbs, r))]
    BY <2>2 DEF ByRound
  <2>5. ByRound(hbs, r) \in Heartbeat
    BY <2>3, <2>4 DEF Filings
  <2>6. ByRound(hbs, r) \in spoken /\ ByRound(hbs, r).round = r
    BY <1>1, <2>5, NullAssumption
  <2> QED
    BY <1>2, <2>6 DEF Chained
<1> QED
  BY <1>1, <1>2

\* The promise that is kept, or broken, is one that can be priced.
LEMMA PromiseTypes ==
  ASSUME TypeOK, Promised
  PROVE  /\ promise \in Commitment /\ promise.step > 0
         /\ promise.from \in Nat /\ promise.step \in Nat /\ now \in Nat
<1>1. promise \in Commitment \cup {Null}
  BY WatchAssumption DEF TypeOK
<1> QED
  BY <1>1, SceneTypes DEF Promised, Commitment, Rounds

\* One round of the walk: a heartbeat that names what the walk has reached moves
\* it on to its round, and any other, or none, leaves it where it is.
LEMMA HonestStep ==
  ASSUME Chained, NEW g \in spoken \cup {Null}, NEW p
  PROVE  NextPrev(g, p) = IF g \in spoken /\ g.prev = p THEN g.round ELSE p
<1>0. spoken \subseteq Heartbeat
  BY DEF Chained, Signed, TypeOK
<1>1. CASE g \in spoken
  <2>1. g # Null /\ g.sig = TRUE /\ g.id = g.round /\ g.id # Null
    BY <1>0, <1>1, NullAssumption DEF Chained, Heartbeat, Rounds
  <2> QED
    BY <1>1, <2>1 DEF NextPrev, Accepts
<1>2. CASE g \notin spoken
  BY <1>2 DEF NextPrev, Accepts
<1> QED
  BY <1>1, <1>2

-------------------------------------------------------------------------------
(* A party that keeps to its promised rounds. *)

\* It speaks a whole number of steps from the start, so never between two
\* promised rounds.
LEMMA PlainRounds ==
  ASSUME Chained, Promised, Plain, NEW q \in SpokenRounds
  PROVE  /\ q \in Nat /\ promise.from <= q
         /\ \A n \in Nat : q < promise.from + n * promise.step + promise.step
                             => q <= promise.from + n * promise.step
<1>1. /\ promise \in Commitment /\ promise.step > 0
      /\ promise.from \in Nat /\ promise.step \in Nat /\ now \in Nat
  BY PromiseTypes DEF Chained, Signed
<1>2. q \in Nat /\ q \in Expected(promise, q)
  BY <1>1 DEF Chained, Signed, SpokenRounds, Due
<1>3. promise.from <= q
  BY <1>1, <1>2, ExpectedIs
<1> DEFINE j == (q - promise.from) \div promise.step
<1>4. /\ j \in 0 .. Cardinality(Expected(promise, q))
      /\ q = promise.from + j * promise.step
      /\ Cardinality(Expected(promise, q)) \in Nat
  BY <1>1, <1>2, IndexOfRound
<1> HIDE DEF j
<1>5. ASSUME NEW n \in Nat, q < promise.from + n * promise.step + promise.step
      PROVE  q <= promise.from + n * promise.step
  <2>1. PICK a \in Nat, b \in Nat : a = j * promise.step /\ b = n * promise.step
    BY <1>1, <1>4, Multiples
  <2>2. j \in Nat /\ (n < j => b + promise.step <= a) /\ (j < n => a + promise.step <= b)
    BY <1>1, <1>4, <2>1, Multiples
  <2>3. q = promise.from + a /\ q < promise.from + b + promise.step
    BY <1>4, <1>5, <2>1
  <2>4. ~ (n < j)
    BY <1>1, <2>1, <2>2, <2>3
  <2>5. j = n => a = b
    BY <2>1
  <2>6. a <= b
    BY <1>1, <2>1, <2>2, <2>4, <2>5
  <2>7. q <= promise.from + b
    BY <1>1, <2>1, <2>3, <2>6
  <2> QED
    BY <2>1, <2>7
<1> QED
  BY <1>2, <1>3, <1>5

\* With every earlier heartbeat on file, the walk comes to a promised round with
\* the last round the party spoke in before it, whatever rounds it skipped.
LEMMA PlainWalk ==
  ASSUME Chained, Promised, Plain, NEW N \in Nat, NEW w, w[0] = Null,
         \A k \in Nat : k < N =>
           w[k + 1] = NextPrev(ByRound(filed, promise.from + k * promise.step), w[k]),
         NEW m \in 0 .. N,
         \A h \in spoken : h.round < promise.from + m * promise.step => h \in Range(filed)
  PROVE  IsLastBefore(w[m], promise.from + m * promise.step)
<1> DEFINE x(n) == promise.from + n * promise.step
           T == {n \in Nat : n <= m => IsLastBefore(w[n], x(n))}
<1>0. /\ Signed /\ promise.step > 0 /\ promise.from \in Nat /\ promise.step \in Nat
      /\ SpokenRounds \subseteq Nat
      /\ filed \in Seq(Heartbeat) /\ Range(filed) \subseteq spoken
  BY PromiseTypes, PlainRounds DEF Chained, Signed, TypeOK, Plain
<1>1. \A n \in Nat : x(n) \in Nat /\ x(n + 1) = x(n) + promise.step
  <2> TAKE n \in Nat
  <2>1. PICK b \in Nat, s \in Nat, f \in Nat :
           b = n * promise.step /\ s = promise.step /\ f = promise.from
    BY <1>0, Multiples
  <2>2. (n + 1) * promise.step = b + s
    BY <1>0, <2>1, Multiples
  <2>3. x(n) = f + b /\ x(n + 1) = f + (b + s)
    BY <2>1, <2>2
  <2> HIDE DEF x
  <2> QED
    BY <2>1, <2>3
<1>2. 0 \in T
  <2>1. x(0) = promise.from
    BY <1>0
  <2>2. \A q \in SpokenRounds : q >= x(0)
    BY <1>0, <2>1, PlainRounds
  <2> QED
    BY <2>2 DEF IsLastBefore
<1>3. ASSUME NEW n \in Nat, n \in T PROVE n + 1 \in T
  <2> SUFFICES ASSUME n + 1 <= m PROVE IsLastBefore(w[n + 1], x(n + 1))
    OBVIOUS
  <2>1. n < N /\ n <= m
    OBVIOUS
  <2>2. IsLastBefore(w[n], x(n))
    BY <1>3, <2>1
  <2>3. \A q \in SpokenRounds : q < x(n + 1) => q <= x(n)
    BY <1>0, <1>1, PlainRounds
  <2>5. x(n) < x(m)
    <3>1. n < m /\ m \in Nat
      BY <2>1
    <3>2. n * promise.step + promise.step <= m * promise.step
      BY <1>0, <3>1, Multiples
    <3>3. PICK a \in Nat, b \in Nat, s \in Nat, f \in Nat :
             /\ a = n * promise.step /\ b = m * promise.step
             /\ s = promise.step /\ f = promise.from
      BY <1>0, <3>1, Multiples
    <3>4. f + a < f + b
      <4>1. a + s <= b /\ s > 0
        BY <1>0, <3>2, <3>3
      <4> QED
        BY <4>1
    <3>5. x(n) = f + a /\ x(m) = f + b
      BY <3>3
    <3> HIDE DEF x
    <3> QED
      BY <3>4, <3>5
  <2>6. w[n + 1] = NextPrev(ByRound(filed, x(n)), w[n])
    BY <2>1
  <2> HIDE DEF x
  <2>4. x(n) < x(n + 1) /\ x(n) \in Nat /\ x(n + 1) \in Nat
    <3>1. n + 1 \in Nat /\ \A k \in Nat : x(k) \in Nat
      BY <1>1
    <3>2. x(n + 1) = x(n) + promise.step /\ x(n) \in Nat /\ x(n + 1) \in Nat
      BY <1>1, <3>1
    <3> QED
      BY <1>0, <3>2
  <2>7. CASE \E h \in spoken : h.round = x(n)
    <3>1. PICK h \in spoken : h.round = x(n)
      BY <2>7
    <3>2. ByRound(filed, x(n)) = h
      <4>1. h \in Range(filed)
        BY <2>5, <3>1 DEF x
      <4> QED
        BY <1>0, <3>1, <4>1, HonestByRound
    <3>3. h.prev = w[n]
      <4>1. IsLastBefore(h.prev, x(n))
        BY <3>1 DEF Chained
      <4> QED
        BY <1>0, <2>2, <2>4, <4>1, LastBeforeIsOne
    <3>4. w[n + 1] = x(n)
      BY <2>6, <3>1, <3>2, <3>3, HonestStep
    <3>5. x(n) \in SpokenRounds
      BY <3>1 DEF SpokenRounds
    <3> QED
      BY <2>3, <2>4, <3>4, <3>5 DEF IsLastBefore
  <2>8. CASE \A h \in spoken : h.round # x(n)
    <3>1. ByRound(filed, x(n)) = Null
      BY <1>0, <2>8, HonestByRound
    <3>2. w[n + 1] = w[n]
      BY <2>6, <3>1 DEF NextPrev, Accepts
    <3>3. \A q \in SpokenRounds : q # x(n)
      BY <2>8 DEF SpokenRounds
    <3>4. \A q \in SpokenRounds : q < x(n + 1) <=> q < x(n)
      BY <1>0, <2>3, <2>4, <3>3
    <3>5. PICK p : p = w[n]
      OBVIOUS
    <3>6. CASE p = Null /\ \A q \in SpokenRounds : q >= x(n)
      <4>1. \A q \in SpokenRounds : q >= x(n + 1)
        BY <1>0, <2>4, <3>4, <3>6
      <4> QED
        BY <3>2, <3>5, <3>6, <4>1 DEF IsLastBefore
    <3>7. CASE p \in SpokenRounds /\ p < x(n) /\ \A q \in SpokenRounds : q < x(n) => q <= p
      <4>1. p < x(n + 1) /\ \A q \in SpokenRounds : q < x(n + 1) => q <= p
        BY <3>4, <3>7
      <4> QED
        BY <3>2, <3>5, <3>7, <4>1 DEF IsLastBefore
    <3> QED
      BY <2>2, <3>5, <3>6, <3>7 DEF IsLastBefore
  <2> QED
    BY <2>7, <2>8
<1> HIDE DEF T
<1>4. m \in T
  BY <1>2, <1>3, AllNaturals
<1> QED
  BY <1>4 DEF T

\* A promised round the party spoke in counts once its heartbeat and every
\* earlier one are on file.
LEMMA PlainCounts ==
  ASSUME Chained, Promised, Plain, NEW r \in Expected(promise, now),
         NEW h \in spoken, h.round = r, h \in Range(filed),
         \A g \in spoken : g.round < r => g \in Range(filed)
  PROVE  r \in Present(promise, filed, now)
<1> DEFINE N == Cardinality(Expected(promise, now))
           k == (r - promise.from) \div promise.step
<1>0. /\ promise \in Commitment /\ promise.step > 0 /\ now \in Nat /\ r \in Nat
      /\ filed \in Seq(Heartbeat) /\ Range(filed) \subseteq spoken /\ Signed
      /\ spoken \subseteq Heartbeat
  BY PromiseTypes, ExpectedIs DEF Chained, Signed, TypeOK, Plain
<1>1. k \in 0 .. N /\ r = promise.from + k * promise.step /\ N \in Nat
  BY <1>0, IndexOfRound
<1>2. PICK w : /\ w[0] = Null
               /\ \A n \in Nat : n < N =>
                    w[n + 1] = NextPrev(ByRound(filed, promise.from + n * promise.step), w[n])
               /\ \A q : q \in Present(promise, filed, now) <=>
                    /\ q \in Expected(promise, now)
                    /\ Accepts(ByRound(filed, q), w[(q - promise.from) \div promise.step])
  BY <1>0, PresentWalk
<1>3. r \in Present(promise, filed, now) <=> Accepts(ByRound(filed, r), w[k])
  BY <1>2
<1> HIDE DEF N, k
<1>4. IsLastBefore(w[k], r)
  BY <1>1, <1>2, PlainWalk
<1>5. h.prev = w[k]
  BY <1>0, <1>4, LastBeforeIsOne DEF Chained
<1>6. ByRound(filed, r) = h
  BY <1>0, HonestByRound
<1>7. Accepts(h, w[k])
  BY <1>0, <1>5, NullAssumption DEF Accepts, Chained
<1> QED
  BY <1>3, <1>6, <1>7

\* Nothing but what the party spoke counts.
LEMMA PresentIsSpoken ==
  ASSUME Chained, Promised, ~scene.hostile
  PROVE  Present(promise, filed, now) \subseteq Expected(promise, now) \cap SpokenRounds
<1>1. filed \in Seq(Heartbeat) /\ Range(filed) \subseteq spoken
  BY DEF Chained, Signed, TypeOK
<1>2. ASSUME NEW r \in Present(promise, filed, now)
      PROVE  r \in Expected(promise, now) /\ ByRound(filed, r) # Null
  BY DEF Present, Accepts
<1> QED
  BY <1>1, <1>2, HonestByRound DEF SpokenRounds

(* With every heartbeat on file the missing rounds are exactly the promised *)
(* rounds the party was silent in, whatever the order of arrival.           *)
THEOREM SilenceExact == Spec => []SilenceIsExact
<1>1. Chained => SilenceIsExact
  <2> SUFFICES ASSUME Chained, Promised, Plain, spoken \subseteq Range(filed)
               PROVE  Gaps = Expected(promise, now) \ SpokenRounds
    BY DEF SilenceIsExact
  <2>1. Present(promise, filed, now) \subseteq Expected(promise, now) \cap SpokenRounds
    BY PresentIsSpoken DEF Plain
  <2>2. ASSUME NEW r \in Expected(promise, now), r \in SpokenRounds
        PROVE  r \in Present(promise, filed, now)
    <3>1. PICK h \in spoken : h.round = r
      BY <2>2 DEF SpokenRounds
    <3>2. h \in Range(filed) /\ \A g \in spoken : g.round < r => g \in Range(filed)
      OBVIOUS
    <3> QED
      BY <3>1, <3>2, PlainCounts
  <2> QED
    BY <2>1, <2>2 DEF Gaps, Missing
<1> QED
  BY <1>1, ChainedHolds, PTL

(* A heartbeat on file that does not count betrays a relay: the party signed *)
(* an earlier one that was withheld.                                         *)
THEOREM RejectionBetraysRelay == Spec => []RejectionMeansWithheld
<1>1. Chained => RejectionMeansWithheld
  <2> SUFFICES ASSUME Chained, Promised, Plain, NEW r \in Rejected(promise, filed, now),
                      \A h \in spoken \ Range(filed) : ~ (h.round < r)
               PROVE  FALSE
    BY DEF RejectionMeansWithheld
  <2>0. filed \in Seq(Heartbeat) /\ Range(filed) \subseteq spoken
    BY DEF Chained, Signed, TypeOK, Plain
  <2>1. /\ r \in Expected(promise, now) /\ r \notin Present(promise, filed, now)
        /\ ByRound(filed, r) # Null
    BY DEF Rejected, Missing
  <2>2. PICK h \in spoken : h.round = r /\ h \in Range(filed)
    BY <2>0, <2>1, HonestByRound
  <2>3. \A g \in spoken : g.round < r => g \in Range(filed)
    OBVIOUS
  <2> QED
    BY <2>1, <2>2, <2>3, PlainCounts
<1> QED
  BY <1>1, ChainedHolds, PTL

-------------------------------------------------------------------------------
(* One more heartbeat on file. *)

\* While a heartbeat is withheld the walk stays before its round.
LEMMA WithheldStops ==
  ASSUME Chained, Promised, ~scene.hostile, NEW N \in Nat, NEW w, w[0] = Null,
         \A k \in Nat : k < N =>
           w[k + 1] = NextPrev(ByRound(filed, promise.from + k * promise.step), w[k]),
         NEW m \in 0 .. N, NEW h \in spoken, h \notin Range(filed)
  PROVE  w[m] = Null \/ (w[m] \in Nat /\ w[m] < h.round)
<1> DEFINE T == {n \in Nat : n <= N => w[n] = Null \/ (w[n] \in Nat /\ w[n] < h.round)}
<1>0. /\ Signed /\ filed \in Seq(Heartbeat) /\ Range(filed) \subseteq spoken
      /\ SpokenRounds \subseteq Nat /\ h.round \in SpokenRounds
      /\ \A g \in spoken : g.round \in Nat
  BY SceneTypes DEF Chained, Signed, TypeOK, SpokenRounds
<1>1. 0 \in T
  OBVIOUS
<1>2. ASSUME NEW n \in Nat, n \in T PROVE n + 1 \in T
  <2> SUFFICES ASSUME n + 1 <= N
               PROVE  w[n + 1] = Null \/ (w[n + 1] \in Nat /\ w[n + 1] < h.round)
    OBVIOUS
  <2>1. w[n] = Null \/ (w[n] \in Nat /\ w[n] < h.round)
    BY <1>2
  <2> DEFINE g == ByRound(filed, promise.from + n * promise.step)
  <2>2. w[n + 1] = NextPrev(g, w[n])
    OBVIOUS
  <2>3. g \in spoken \cup {Null} /\ (g # Null => g \in Range(filed))
    BY <1>0, HonestByRound
  <2> HIDE DEF g
  <2>4. CASE g \in spoken /\ g.prev = w[n] /\ g # Null
    <3>1. w[n + 1] = g.round /\ g.round \in Nat
      BY <1>0, <2>2, <2>3, <2>4, HonestStep
    <3>2. g.round # h.round
      BY <2>3, <2>4 DEF Chained
    <3>3. ~ (h.round < g.round)
      <4> SUFFICES ASSUME h.round < g.round PROVE FALSE
        OBVIOUS
      <4>1. IsLastBefore(w[n], g.round)
        BY <2>4 DEF Chained
      <4>2. PICK p : p = w[n]
        OBVIOUS
      <4>3. ~ (\A q \in SpokenRounds : q >= g.round)
        BY <1>0, <3>1
      <4>4. p \in SpokenRounds /\ h.round <= p
        BY <1>0, <4>1, <4>2, <4>3 DEF IsLastBefore
      <4> QED
        BY <1>0, <2>1, <4>2, <4>4, NullAssumption
    <3> QED
      BY <1>0, <3>1, <3>2, <3>3
  <2>5. CASE ~ (g \in spoken /\ g.prev = w[n] /\ g # Null)
    <3>1. w[n + 1] = w[n]
      BY <2>2, <2>3, <2>5, HonestStep DEF NextPrev, Accepts
    <3> QED
      BY <2>1, <3>1
  <2> QED
    BY <2>4, <2>5
<1> HIDE DEF T
<1>3. m \in T
  BY <1>1, <1>2, AllNaturals
<1> QED
  BY <1>3 DEF T

\* A heartbeat is the last word on its own round only.
LEMMA FiledElsewhere ==
  ASSUME Chained, ~scene.hostile, NEW h \in spoken, NEW y, y # h.round
  PROVE  ByRound(Append(filed, h), y) = ByRound(filed, y)
<1> DEFINE hbs == Append(filed, h)
<1>1. /\ filed \in Seq(Heartbeat) /\ Range(filed) \subseteq spoken /\ spoken \subseteq Heartbeat
  BY DEF Chained, Signed, TypeOK
<1>2. hbs \in Seq(Heartbeat) /\ Range(hbs) = Range(filed) \cup {h}
  <2>1. hbs \in Seq(Heartbeat) /\ Len(hbs) = Len(filed) + 1 /\ Len(filed) \in Nat
    BY <1>1
  <2>2. \A i \in 1 .. Len(hbs) : hbs[i] = IF i \in 1 .. Len(filed) THEN filed[i] ELSE h
    BY <1>1
  <2>3. Len(hbs) \in 1 .. Len(hbs) /\ Len(hbs) \notin 1 .. Len(filed)
    BY <2>1
  <2>4. 1 .. Len(filed) \subseteq 1 .. Len(hbs)
    BY <2>1
  <2>5. DOMAIN hbs = 1 .. Len(hbs) /\ DOMAIN filed = 1 .. Len(filed)
    BY <1>1, <2>1
  <2> HIDE DEF hbs
  <2> QED
    BY <2>1, <2>2, <2>3, <2>4, <2>5 DEF Range
<1> HIDE DEF hbs
<1>3. CASE ByRound(filed, y) # Null
  <2>1. ByRound(filed, y) \in Range(filed) /\ ByRound(filed, y).round = y
    BY <1>1, <1>3, HonestByRound
  <2>2. ByRound(hbs, y) = ByRound(filed, y)
    BY <1>1, <1>2, <2>1, HonestByRound
  <2> QED
    BY <2>2 DEF hbs
<1>4. CASE ByRound(filed, y) = Null
  <2> SUFFICES ASSUME ByRound(hbs, y) # Null PROVE FALSE
    BY <1>4 DEF hbs
  <2>1. ByRound(hbs, y) \in Range(hbs) /\ ByRound(hbs, y).round = y /\ ByRound(hbs, y) \in spoken
    BY <1>1, <1>2, HonestByRound
  <2>2. ByRound(hbs, y) \in Range(filed)
    BY <1>2, <2>1
  <2>3. ByRound(hbs, y) = Null
    BY <1>1, <1>4, <2>1, <2>2, HonestByRound
  <2> QED
    BY <2>3
<1> QED
  BY <1>3, <1>4

\* A round that counts lies before every heartbeat withheld, so that filing one
\* of these leaves the walk up to it as it was.
LEMMA FilingKeeps ==
  ASSUME Chained, Promised, ~scene.hostile, NEW h \in spoken, h \notin Range(filed)
  PROVE  Present(promise, filed, now) \subseteq Present(promise, Append(filed, h), now)
<1> SUFFICES ASSUME NEW r \in Present(promise, filed, now)
             PROVE  r \in Present(promise, Append(filed, h), now)
  OBVIOUS
<1> DEFINE N == Cardinality(Expected(promise, now))
           hbs == Append(filed, h)
           x(n) == promise.from + n * promise.step
           k == (r - promise.from) \div promise.step
           g == ByRound(filed, r)
<1>0. /\ promise \in Commitment /\ promise.step > 0 /\ now \in Nat
      /\ promise.from \in Nat /\ promise.step \in Nat
      /\ filed \in Seq(Heartbeat) /\ Range(filed) \subseteq spoken /\ Signed
      /\ SpokenRounds \subseteq Nat /\ h.round \in SpokenRounds /\ h.round \in Nat
      /\ r \in Expected(promise, now)
  <2>1. r \in Expected(promise, now)
    BY Zenon DEF Present
  <2> QED
    BY <2>1, PromiseTypes, SceneTypes DEF Chained, Signed, TypeOK, SpokenRounds
<1>1. k \in 0 .. N /\ r = x(k) /\ N \in Nat /\ r \in Nat
  BY <1>0, IndexOfRound, ExpectedIs
<1>2. PICK w : /\ w[0] = Null
               /\ \A n \in Nat : n < N => w[n + 1] = NextPrev(ByRound(filed, x(n)), w[n])
               /\ \A q : q \in Present(promise, filed, now) <=>
                    /\ q \in Expected(promise, now)
                    /\ Accepts(ByRound(filed, q), w[(q - promise.from) \div promise.step])
  BY <1>0, PresentWalk
<1>3. PICK v : /\ v[0] = Null
               /\ \A n \in Nat : n < N => v[n + 1] = NextPrev(ByRound(hbs, x(n)), v[n])
               /\ \A q : q \in Present(promise, hbs, now) <=>
                    /\ q \in Expected(promise, now)
                    /\ Accepts(ByRound(hbs, q), v[(q - promise.from) \div promise.step])
  BY <1>0, PresentWalk
<1>4. Accepts(g, w[k]) /\ (r \in Present(promise, hbs, now) <=> Accepts(ByRound(hbs, r), v[k]))
  BY <1>0, <1>2, <1>3
<1>5. w[k] = Null \/ (w[k] \in Nat /\ w[k] < h.round)
  BY <1>1, <1>2, WithheldStops
<1> HIDE DEF N, hbs, x, k, g
<1>6. /\ g # Null /\ g.prev = w[k]
      /\ g \in Range(filed) /\ g.round = r /\ g \in spoken
  <2>1. g # Null /\ g.prev = w[k]
    BY <1>4 DEF Accepts
  <2> QED
    BY <1>0, <2>1, HonestByRound DEF g
<1>7. r < h.round
  <2>1. r # h.round
    BY <1>6 DEF Chained
  <2>2. ~ (h.round < r)
    <3> SUFFICES ASSUME h.round < r PROVE FALSE
      OBVIOUS
    <3>1. PICK p : p = w[k]
      OBVIOUS
    <3>2. IsLastBefore(p, r)
      BY <1>6, <3>1 DEF Chained
    <3>3. ~ (\A q \in SpokenRounds : q >= r)
      BY <1>0, <1>1
    <3>4. p \in SpokenRounds /\ h.round <= p
      BY <1>0, <3>2, <3>3 DEF IsLastBefore
    <3> QED
      BY <1>0, <1>5, <3>1, <3>4, NullAssumption
  <2> QED
    BY <1>0, <1>1, <2>1, <2>2
<1>8. v[k] = w[k]
  <2> DEFINE T == {n \in Nat : n <= k => v[n] = w[n]}
  <2>1. 0 \in T
    BY <1>2, <1>3
  <2>2. ASSUME NEW n \in Nat, n \in T PROVE n + 1 \in T
    <3> SUFFICES ASSUME n + 1 <= k PROVE v[n + 1] = w[n + 1]
      OBVIOUS
    <3>1. n < k /\ k \in Nat /\ n < N /\ v[n] = w[n]
      BY <1>1, <2>2
    <3>2. n * promise.step + promise.step <= k * promise.step
      BY <1>0, <3>1, Multiples
    <3>3. PICK a \in Nat, b \in Nat, s \in Nat, f \in Nat :
             /\ a = n * promise.step /\ b = k * promise.step
             /\ s = promise.step /\ f = promise.from
      BY <1>0, <3>1, Multiples
    <3>4. f + a < f + b
      <4>1. a + s <= b /\ s > 0
        BY <1>0, <3>2, <3>3
      <4> QED
        BY <4>1
    <3>5. x(n) = f + a /\ x(k) = f + b
      BY <3>3 DEF x
    <3>6. x(n) # h.round
      BY <1>0, <1>1, <1>7, <3>3, <3>4, <3>5
    <3>7. ByRound(hbs, x(n)) = ByRound(filed, x(n))
      BY <3>6, FiledElsewhere DEF hbs
    <3> QED
      BY <1>2, <1>3, <3>1, <3>7
  <2> HIDE DEF T
  <2>3. k \in T
    BY <1>1, <2>1, <2>2, AllNaturals
  <2> QED
    BY <1>1, <2>3 DEF T
<1>9. ByRound(hbs, r) = g
  <2>1. r # h.round
    BY <1>0, <1>1, <1>7
  <2> QED
    BY <2>1, FiledElsewhere DEF hbs, g
<1> QED
  BY <1>4, <1>8, <1>9 DEF hbs

(* Filing one more genuine heartbeat never turns a present round into a gap. *)
THEOREM FilingHelps == Spec => FilingNeverHurts
<1> DEFINE Helps == Promised /\ ~scene.hostile /\ now' = now => Gaps' \subseteq Gaps
<1>1. Chained /\ [Next]_vars => [Helps]_vars
  <2> SUFFICES ASSUME Chained, Next, Promised, ~scene.hostile, now' = now
               PROVE  Gaps' \subseteq Gaps
    OBVIOUS
  <2>0. promise' = promise
    BY DEF Next, Speak, Tick, File, Surface
  <2>1. CASE filed' = filed
    <3>1. Gaps' = Gaps
      BY <2>0, <2>1, Zenon DEF Gaps
    <3> QED
      BY <3>1
  <2>2. ASSUME NEW h \in Deliverable, File(h) PROVE Gaps' \subseteq Gaps
    <3>1. h \in spoken /\ h \notin Range(filed) /\ filed' = Append(filed, h)
      BY <2>2 DEF File, Deliverable
    <3>2. Present(promise, filed, now) \subseteq Present(promise, Append(filed, h), now)
      BY <3>1, FilingKeeps
    <3>3. Gaps' = Missing(promise, Append(filed, h), now)
      BY <2>0, <3>1 DEF Gaps
    <3> QED
      BY <3>2, <3>3 DEF Gaps, Missing
  <2> QED
    BY <2>1, <2>2 DEF Next, Speak, Tick, Surface
<1> QED
  BY <1>1, ChainedHolds, PTL DEF Spec, FilingNeverHurts
===============================================================================
