---------------------------- MODULE StandingProofs ----------------------------
(***************************************************************************)
(* Theorems about StandingRead, for every set of contest channels, any     *)
(* number of contests, checkpoints and blocks, and any declared lag.       *)
(***************************************************************************)
EXTENDS StandingRead, TLAPS, NaturalsInduction, WellFoundedInduction, SequenceTheorems

-------------------------------------------------------------------------------
(* What a read rests on. *)

FeedEntry == [id: Nat, status: {"pending", "confirmed"}, time: Nat]
ServedContest == [seq: Nat, payload: Payloads, sig: Signatures, folds: BOOLEAN,
                  anchored: BOOLEAN]
ChannelState == {"none", "skipped", "undeclared", "contested", "stale", "clear"}

ReadType ==
  [pc: {"idle", "feed", "included", "contests", "done", "folded"},
   now: Nat, known: BOOLEAN, attFeed: SUBSET FeedEntry, feed: SUBSET FeedEntry,
   resp: [latest: Nat, contests: SUBSET ServedContest],
   cstate: ChannelState, through: [id: Nat, time: Nat \cup {Null}],
   state: {"none", "unanchored", "anchored", "stale", "contested"}]

\* A checkpoint is over entries there are, and was cut or confirmed by now.
CutsRest ==
  \A r \in Recorder : \A k \in DOMAIN cut[r] :
    cut[r][k].size <= Len(log[r]) /\ cut[r][k].time <= clock

\* A bound says what its recorder's checkpoint says to this day.
TrueBound(b, r) ==
  /\ b.id \in DOMAIN cut[r]
  /\ cut[r][b.id].status = "confirmed" /\ cut[r][b.id].time = b.time

\* A feed in hand may be old: what it calls confirmed is confirmed for good.
FeedRests(feed, r) ==
  \A e \in feed : e.status = "confirmed" => TrueBound(e, r)

\* Past the inclusion proof, and for any standing but unanchored, a confirmed
\* checkpoint covers the attestation.
AttestationRests ==
  read.pc \in {"included", "contests"} => Anchored(AttRecorder, 1)

\* The bound a channel state is about is a bound of the contest recorder, no
\* older than the state allows.
ThroughRests ==
  read.cstate \in {"clear", "stale"} =>
    /\ read.through # NoBound /\ TrueBound(read.through, ContestRecorder)
    /\ read.cstate = "clear" => ~Stale(read.through, read.now)

\* Before a channel was folded it has no state.
NotYetFolded ==
  read.pc \in {"idle", "feed", "included", "contests"} =>
    read.cstate = "none" /\ read.state = "none"

IInv ==
  /\ TypeOK /\ read \in ReadType /\ CutsRest
  /\ FeedRests(read.attFeed, AttRecorder) /\ FeedRests(read.feed, ContestRecorder)
  /\ AttestationRests /\ ThroughRests /\ NotYetFolded
  /\ StandingIsAnchored /\ DisputeIsReal /\ NoContestThrough /\ SilencingIsExposed
-------------------------------------------------------------------------------
(* The recorders move on, and take nothing back. *)

\* Logs are appended to; a checkpoint keeps its prefix, and once confirmed its
\* time.
Grows ==
  /\ channel' = channel /\ clock <= clock'
  /\ \A r \in Recorder :
      /\ \A i \in DOMAIN log[r] : i \in DOMAIN log'[r] /\ log'[r][i] = log[r][i]
      /\ \A k \in DOMAIN cut[r] :
          /\ k \in DOMAIN cut'[r] /\ cut'[r][k].size = cut[r][k].size
          /\ cut[r][k].status = "confirmed" => cut'[r][k] = cut[r][k]

RecordersOK == TypeOK /\ CutsRest

\* The recorders' logs and checkpoints, element by element.
LEMMA RecorderTypes ==
  ASSUME TypeOK
  PROVE  /\ clock \in Nat /\ AttRecorder \in Recorder /\ ContestRecorder \in Recorder
         /\ DOMAIN log = Recorder /\ DOMAIN cut = Recorder
         /\ \A r \in Recorder :
              /\ log[r] \in Seq(Contests \cup {Attestation, Unrelated})
              /\ Len(log[r]) \in Nat /\ DOMAIN log[r] = 1 .. Len(log[r])
              /\ \A i \in DOMAIN log[r] : /\ i \in Nat
                                          /\ log[r][i] \in Contests \cup {Attestation, Unrelated}
              /\ cut[r] \in Seq(Cut)
              /\ Len(cut[r]) \in Nat /\ DOMAIN cut[r] = 1 .. Len(cut[r])
              /\ \A k \in DOMAIN cut[r] : k \in Nat \ {0} /\ cut[r][k] \in Cut
<1>1. clock \in Nat /\ AttRecorder \in Recorder /\ ContestRecorder \in Recorder
  BY ReadAssumption DEF TypeOK, Recorder
<1>2. ASSUME NEW r \in Recorder
      PROVE  /\ log[r] \in Seq(Contests \cup {Attestation, Unrelated})
             /\ Len(log[r]) \in Nat /\ DOMAIN log[r] = 1 .. Len(log[r])
             /\ cut[r] \in Seq(Cut)
             /\ Len(cut[r]) \in Nat /\ DOMAIN cut[r] = 1 .. Len(cut[r])
  BY DEF TypeOK
<1>3. ASSUME NEW r \in Recorder, NEW i \in DOMAIN log[r]
      PROVE  i \in Nat /\ log[r][i] \in Contests \cup {Attestation, Unrelated}
  BY <1>2, ElementOfSeq
<1>4. ASSUME NEW r \in Recorder, NEW k \in DOMAIN cut[r]
      PROVE  k \in Nat \ {0} /\ cut[r][k] \in Cut
  BY <1>2, ElementOfSeq
<1> QED
  BY <1>1, <1>2, <1>3, <1>4 DEF TypeOK

\* A contest filed: the log of its recorder grows by it.
LEMMA FileContestGrows ==
  ASSUME RecordersOK, NEW c \in Contests, FileContest(c)
  PROVE  Grows /\ RecordersOK'
<1> DEFINE r == ContestRecorder
<1> USE DEF RecordersOK
<1>1. /\ log' = [log EXCEPT ![r] = Append(@, c)]
      /\ UNCHANGED <<channel, clock, cut, read>>
  BY DEF FileContest
<1>2. /\ r \in Recorder /\ Recorder' = Recorder /\ clock \in Nat
      /\ \A q \in Recorder : log[q] \in Seq(Contests \cup {Attestation, Unrelated})
      /\ DOMAIN log = Recorder
  BY <1>1, ReadAssumption DEF TypeOK, Recorder, ContestRecorder
<1>3. /\ Append(log[r], c) \in Seq(Contests \cup {Attestation, Unrelated})
      /\ Len(Append(log[r], c)) = Len(log[r]) + 1
      /\ \A i \in 1 .. Len(log[r]) : Append(log[r], c)[i] = log[r][i]
  BY <1>2, AppendProperties
<1>4. \A q \in Recorder : log'[q] = IF q = r THEN Append(log[r], c) ELSE log[q]
  BY <1>1, <1>2
<1> HIDE DEF r
<1>5. Grows
  BY <1>1, <1>2, <1>3, <1>4 DEF Grows
<1>6. TypeOK'
  <2>1. log' \in [Recorder -> Seq(Contests \cup {Attestation, Unrelated})]
    BY <1>1, <1>2, <1>3 DEF r
  <2> QED
    BY <1>1, <1>2, <2>1 DEF TypeOK
<1>7. CutsRest'
  <2>1. \A q \in Recorder : Len(log[q]) <= Len(log'[q])
    <3>1. Len(log[r]) <= Len(Append(log[r], c))
      BY <1>2, <1>3, RecorderTypes
    <3>2. ASSUME NEW q \in Recorder PROVE Len(log[q]) <= Len(log'[q])
      <4>1. CASE q = r
        BY <1>4, <3>1, <4>1
      <4>2. CASE q # r
        <5>1. log'[q] = log[q] /\ Len(log[q]) \in Nat
          BY <1>2, <1>4, <4>2
        <5> QED
          BY <5>1
      <4> QED
        BY <4>1, <4>2
    <3> QED
      BY <3>2
  <2>2. \A q \in Recorder : Len(log[q]) \in Nat /\ Len(log'[q]) \in Nat
    BY <1>2, <1>3, <1>4
  <2>3. ASSUME NEW q \in Recorder, NEW k \in DOMAIN cut[q]
        PROVE  cut[q][k].size <= Len(log'[q]) /\ cut[q][k].time <= clock
    <3>1. cut[q][k].size \in Nat
      BY RecorderTypes DEF Cut
    <3> QED
      BY <2>1, <2>2, <3>1 DEF CutsRest
  <2> QED
    BY <1>1, <1>2, <2>3 DEF CutsRest
<1> QED
  BY <1>5, <1>6, <1>7

\* A checkpoint cut: pending, over the whole log.
LEMMA CutCheckpointGrows ==
  ASSUME RecordersOK, NEW r \in Recorder, CutCheckpoint(r)
  PROVE  Grows /\ RecordersOK'
<1> DEFINE new == [size |-> Len(log[r]), status |-> "pending", time |-> clock]
<1> USE DEF RecordersOK
<1>1. /\ cut' = [cut EXCEPT ![r] = Append(@, new)]
      /\ UNCHANGED <<channel, clock, log, read>>
  BY DEF CutCheckpoint
<1>2. /\ Recorder' = Recorder /\ clock \in Nat
      /\ \A q \in Recorder : cut[q] \in Seq(Cut) /\ Len(log[q]) \in Nat
      /\ DOMAIN cut = Recorder
  BY <1>1, ReadAssumption DEF TypeOK, Recorder, ContestRecorder
<1>3. new \in Cut
  BY <1>2 DEF Cut
<1>4. new.size = Len(log[r]) /\ new.time = clock
  OBVIOUS
<1> HIDE DEF new
<1>5. /\ Append(cut[r], new) \in Seq(Cut)
      /\ Len(Append(cut[r], new)) = Len(cut[r]) + 1
      /\ \A i \in 1 .. Len(cut[r]) : Append(cut[r], new)[i] = cut[r][i]
      /\ Append(cut[r], new)[Len(cut[r]) + 1] = new
  BY <1>2, <1>3, AppendProperties
<1>6. \A q \in Recorder : cut'[q] = IF q = r THEN Append(cut[r], new) ELSE cut[q]
  BY <1>1, <1>2
<1>7. Grows
  BY <1>1, <1>2, <1>5, <1>6 DEF Grows
<1>8. TypeOK'
  <2>1. cut' \in [Recorder -> Seq(Cut)]
    BY <1>1, <1>2, <1>5
  <2> QED
    BY <1>1, <1>2, <2>1 DEF TypeOK
<1>9. CutsRest'
  <2>1. ASSUME NEW q \in Recorder, NEW k \in DOMAIN cut'[q]
        PROVE  cut'[q][k].size <= Len(log[q]) /\ cut'[q][k].time <= clock
    <3>1. CASE q = r /\ k = Len(cut[r]) + 1
      <4>1. cut'[q][k] = new
        BY <3>1, <1>5, <1>6
      <4> QED
        BY <3>1, <4>1, <1>2, <1>4
    <3>2. CASE ~ (q = r /\ k = Len(cut[r]) + 1)
      <4>1. k \in DOMAIN cut[q] /\ cut'[q][k] = cut[q][k]
        <5>1. CASE q = r
          <6>1. /\ DOMAIN cut'[r] = 1 .. Len(cut[r]) + 1
                /\ DOMAIN cut[r] = 1 .. Len(cut[r]) /\ Len(cut[r]) \in Nat
            <7>1. \A t \in Seq(Cut) : DOMAIN t = 1 .. Len(t) /\ Len(t) \in Nat
              OBVIOUS
            <7> QED
              BY <1>2, <1>5, <1>6, <7>1
          <6>2. k \in 1 .. Len(cut[r])
            BY <3>2, <5>1, <6>1
          <6> QED
            BY <5>1, <6>1, <6>2, <1>5, <1>6
        <5>2. CASE q # r
          BY <5>2, <1>6
        <5> QED
          BY <5>1, <5>2
      <4> QED
        BY <4>1 DEF CutsRest
    <3> QED
      BY <3>1, <3>2
  <2> QED
    BY <1>1, <1>2, <2>1 DEF CutsRest
<1> QED
  BY <1>7, <1>8, <1>9

\* An anchor confirmed: a pending checkpoint gets its block time.
LEMMA ConfirmGrows ==
  ASSUME RecordersOK, NEW r \in Recorder, NEW k \in Nat, Confirm(r, k)
  PROVE  Grows /\ RecordersOK'
<1> DEFINE now == [cut[r][k] EXCEPT !.status = "confirmed", !.time = clock]
<1> USE DEF RecordersOK
<1>1. /\ k \in DOMAIN cut[r] /\ cut[r][k].status = "pending"
      /\ cut' = [cut EXCEPT ![r][k].status = "confirmed", ![r][k].time = clock]
      /\ UNCHANGED <<channel, clock, log, read>>
  BY DEF Confirm
<1>2. /\ Recorder' = Recorder /\ clock \in Nat
      /\ \A q \in Recorder : cut[q] \in Seq(Cut) /\ Len(log[q]) \in Nat
      /\ DOMAIN cut = Recorder
  BY <1>1, ReadAssumption DEF TypeOK, Recorder, ContestRecorder
<1>3. cut[r][k] \in Cut
  BY <1>1, RecorderTypes
<1>4. now \in Cut /\ now.size = cut[r][k].size /\ now.time = clock
  BY <1>2, <1>3 DEF Cut
<1>5. cut' = [cut EXCEPT ![r] = [@ EXCEPT ![k] = now]]
  BY <1>1, <1>2, <1>3 DEF Cut
<1> HIDE DEF now
<1>6. [cut[r] EXCEPT ![k] = now] \in Seq(Cut)
  BY <1>1, <1>2, <1>4, ExceptSeq
<1>7. \A q \in Recorder : cut'[q] = IF q = r THEN [cut[r] EXCEPT ![k] = now] ELSE cut[q]
  BY <1>2, <1>5
<1>8. \A q \in Recorder : DOMAIN cut'[q] = DOMAIN cut[q]
  BY <1>7
<1>9. \A q \in Recorder : \A j \in DOMAIN cut[q] :
        cut'[q][j] = IF q = r /\ j = k THEN now ELSE cut[q][j]
  BY <1>7
<1>10. Grows
  BY <1>1, <1>2, <1>4, <1>8, <1>9 DEF Grows
<1>11. TypeOK'
  <2>1. cut' \in [Recorder -> Seq(Cut)]
    BY <1>2, <1>5, <1>6
  <2> QED
    BY <1>1, <1>2, <2>1 DEF TypeOK
<1>12. CutsRest'
  <2>1. ASSUME NEW q \in Recorder, NEW j \in DOMAIN cut'[q]
        PROVE  cut'[q][j].size <= Len(log[q]) /\ cut'[q][j].time <= clock
    BY <1>1, <1>2, <1>4, <1>8, <1>9 DEF CutsRest
  <2> QED
    BY <1>1, <1>2, <2>1 DEF CutsRest
<1> QED
  BY <1>10, <1>11, <1>12

\* A block found.
LEMMA TickGrows ==
  ASSUME RecordersOK, Tick
  PROVE  Grows /\ RecordersOK'
<1>1. clock < channel.maxClock /\ clock' = clock + 1 /\ UNCHANGED <<channel, log, cut, read>>
  BY DEF Tick
<1>2. clock \in Nat /\ channel.maxClock \in Nat /\ Recorder' = Recorder
  BY <1>1, ReadAssumption DEF RecordersOK, TypeOK, Recorder, ContestRecorder
<1>3. Grows
  BY <1>1, <1>2 DEF Grows
<1>4. TypeOK'
  BY <1>1, <1>2 DEF RecordersOK, TypeOK
<1>5. CutsRest'
  <2>1. ASSUME NEW r \in Recorder, NEW k \in DOMAIN cut[r]
        PROVE  cut[r][k].size <= Len(log[r]) /\ cut[r][k].time <= clock'
    <3>1. cut[r][k].time \in Nat
      BY RecorderTypes DEF RecordersOK, Cut
    <3> QED
      BY <1>1, <1>2, <3>1 DEF RecordersOK, CutsRest
  <2> QED
    BY <1>1, <1>2, <2>1 DEF CutsRest
<1> QED
  BY <1>3, <1>4, <1>5 DEF RecordersOK
-------------------------------------------------------------------------------
(* What was true of the recorders stays true. *)

\* The same log, or a longer one, and contests stay what they are.
LEMMA EntriesPersist ==
  ASSUME RecordersOK, RecordersOK', Grows
  PROVE  /\ ContestRecorder' = ContestRecorder /\ Recorder' = Recorder
         /\ \A i \in DOMAIN log[ContestRecorder] :
              /\ i \in DOMAIN log'[ContestRecorder]
              /\ log'[ContestRecorder][i] = log[ContestRecorder][i]
              /\ i \in Filed' <=> i \in Filed
<1>1. ContestRecorder' = ContestRecorder /\ Recorder' = Recorder
  BY DEF Grows, ContestRecorder, Recorder
<1>2. ContestRecorder \in Recorder
  BY RecorderTypes DEF RecordersOK
<1>3. ASSUME NEW i \in DOMAIN log[ContestRecorder]
      PROVE  /\ i \in DOMAIN log'[ContestRecorder]
             /\ log'[ContestRecorder][i] = log[ContestRecorder][i]
             /\ i \in Filed' <=> i \in Filed
  <2>1. /\ i \in DOMAIN log'[ContestRecorder]
        /\ log'[ContestRecorder][i] = log[ContestRecorder][i]
    BY <1>2 DEF Grows
  <2> QED
    BY <1>1, <2>1 DEF Filed, IsContest
<1> QED
  BY <1>1, <1>3

\* An anchored entry stays anchored.
LEMMA AnchoredPersists ==
  ASSUME RecordersOK, Grows, NEW r \in Recorder, NEW i, Anchored(r, i)
  PROVE  Anchored(r, i)'
<1>1. PICK k \in Covering(r, i) : cut[r][k].status = "confirmed"
  BY DEF Anchored
<1>2. k \in DOMAIN cut'[r] /\ cut'[r][k] = cut[r][k]
  BY <1>1 DEF Grows, Covering
<1> QED
  BY <1>1, <1>2 DEF Anchored, Covering

\* So does a bound, which goes on covering the entries it covered.
LEMMA BoundPersists ==
  ASSUME RecordersOK, RecordersOK', Grows, NEW r \in Recorder, NEW b, TrueBound(b, r)
  PROVE  TrueBound(b, r)'
BY DEF TrueBound, Grows

\* What a bound speaks for never changes, and is on the log.
LEMMA CoverageIsFixed ==
  ASSUME RecordersOK, RecordersOK', Grows, NEW b, TrueBound(b, ContestRecorder)
  PROVE  /\ CoveredThrough(b)' = CoveredThrough(b)
         /\ \A i \in CoveredThrough(b) : log'[ContestRecorder][i] = log[ContestRecorder][i]
<1> DEFINE r == ContestRecorder
           size == cut[r][b.id].size
<1>1. /\ r \in Recorder /\ b.id \in DOMAIN cut[r] /\ size \in Nat /\ size <= Len(log[r])
      /\ DOMAIN log[r] = 1 .. Len(log[r]) /\ Len(log[r]) \in Nat
  BY RecorderTypes DEF RecordersOK, TrueBound, CutsRest, Cut
<1>2. cut'[r][b.id].size = size
  BY <1>1 DEF Grows
<1>3. r' = r /\ DOMAIN log'[r] \subseteq Nat \ {0}
  <2>1. r' = r /\ Recorder' = Recorder
    BY EntriesPersist
  <2>2. log'[r] \in Seq(Contests \cup {Attestation, Unrelated})
    BY <1>1, <2>1 DEF RecordersOK, TypeOK, Contests, Attestation, Unrelated
  <2>3. DOMAIN log'[r] = 1 .. Len(log'[r]) /\ Len(log'[r]) \in Nat
    BY <2>2
  <2> QED
    BY <2>1, <2>3
<1>4. \A i \in DOMAIN log[r] :
        /\ i \in DOMAIN log'[r] /\ log'[r][i] = log[r][i] /\ (i \in Filed' <=> i \in Filed)
  BY EntriesPersist
<1>5. \A i \in Nat \ {0} : i <= size => i \in DOMAIN log[r]
  BY <1>1
<1>6. CoveredThrough(b) = IF b = NoBound THEN {} ELSE {i \in Filed : i <= size}
  BY DEF CoveredThrough
<1>7. CoveredThrough(b)' = IF b = NoBound THEN {} ELSE {i \in Filed' : i <= size}
  BY <1>2, <1>3 DEF CoveredThrough
<1>8. Filed \subseteq DOMAIN log[r] /\ Filed' \subseteq Nat \ {0}
  BY <1>3 DEF Filed
<1> HIDE DEF r, size
<1> QED
  <2>1. \A i \in Filed' : i <= size => i \in Filed
    BY <1>4, <1>5, <1>8
  <2>2. \A i \in Filed : i \in Filed'
    BY <1>4, <1>8
  <2>3. CoveredThrough(b)' = CoveredThrough(b)
    BY <1>6, <1>7, <2>1, <2>2
  <2>4. \A i \in CoveredThrough(b) : i \in DOMAIN log[r]
    BY <1>6, <1>8
  <2> QED
    BY <2>3, <2>4, <1>4 DEF r

\* Whatever the recorders do between the fetches of a read, what the read
\* established stands.
LEMMA RecorderStepInvariant ==
  ASSUME IInv, Grows, RecordersOK', read' = read
  PROVE  IInv'
<1> USE DEF IInv
<1>0. RecordersOK /\ AttRecorder \in Recorder /\ ContestRecorder \in Recorder
      /\ ContestRecorder' = ContestRecorder
  BY RecorderTypes, EntriesPersist DEF RecordersOK
<1>1. (read \in ReadType)'
  BY DEF ReadType, FeedEntry, ServedContest, ChannelState
<1>2. FeedRests(read.attFeed, AttRecorder)' /\ FeedRests(read.feed, ContestRecorder)'
  <2>1. \A e \in read.attFeed : e.status = "confirmed" => TrueBound(e, AttRecorder)'
    BY <1>0, BoundPersists DEF FeedRests
  <2>2. \A e \in read.feed : e.status = "confirmed" => TrueBound(e, ContestRecorder)'
    BY <1>0, BoundPersists DEF FeedRests
  <2> QED
    BY <2>1, <2>2, <1>0 DEF FeedRests, TrueBound
<1>3. AttestationRests'
  BY <1>0, AnchoredPersists DEF AttestationRests
<1>4. ThroughRests'
  <2>1. TrueBound(read.through, ContestRecorder) =>
          TrueBound(read.through, ContestRecorder)'
    BY <1>0, BoundPersists
  <2> QED
    BY <2>1, <1>0 DEF ThroughRests, TrueBound, Stale
<1>5. NotYetFolded'
  BY DEF NotYetFolded
<1>6. StandingIsAnchored'
  BY <1>0, AnchoredPersists DEF StandingIsAnchored
<1>7. DisputeIsReal'
  <2>1. SUFFICES ASSUME read.pc = "done" /\ read.state = "contested"
                 PROVE  (\E i \in Filed : Countable(i) /\ Anchored(ContestRecorder, i))'
    BY DEF DisputeIsReal
  <2>2. PICK i \in Filed : Countable(i) /\ Anchored(ContestRecorder, i)
    BY <2>1 DEF DisputeIsReal
  <2>3. i \in Filed' /\ log'[ContestRecorder][i] = log[ContestRecorder][i]
    BY <1>0, EntriesPersist DEF Filed
  <2>4. Anchored(ContestRecorder, i)'
    BY <1>0, <2>2, AnchoredPersists DEF Anchored, Covering
  <2> QED
    BY <1>0, <2>2, <2>3, <2>4 DEF Countable
<1>8. NoContestThrough'
  <2>1. SUFFICES ASSUME ~channel.withholds, read.cstate \in {"clear", "stale"},
                        NEW i \in CoveredThrough(read.through)'
                 PROVE  ~Countable(i)'
    BY DEF NoContestThrough, Grows
  <2>2. TrueBound(read.through, ContestRecorder)
    BY <2>1 DEF ThroughRests
  <2>3. /\ i \in CoveredThrough(read.through)
        /\ log'[ContestRecorder][i] = log[ContestRecorder][i]
    BY <1>0, <2>1, <2>2, CoverageIsFixed DEF CoveredThrough
  <2> QED
    BY <1>0, <2>1, <2>3 DEF NoContestThrough, Countable
<1>9. SilencingIsExposed'
  <2>1. SUFFICES ASSUME read.pc = "done", read.cstate \in {"clear", "stale"},
                        NEW i \in CoveredThrough(read.through)',
                        log'[ContestRecorder][i].sig \in {"bound", "self-asserted"}
                 PROVE  (/\ \/ SignedButAbsent(Served(i), read.resp) = "SIGNED_BUT_ABSENT"
                            \/ \E d \in read.resp.contests : StandsIn(d, i)
                         /\ \A d \in read.resp.contests : StandsIn(d, i) =>
                               d.sig = "bad" \/ (d.seq # i /\ ~d.anchored))'
    BY <1>0 DEF SilencingIsExposed
  <2>2. TrueBound(read.through, ContestRecorder)
    BY <2>1 DEF ThroughRests
  <2>3. /\ i \in CoveredThrough(read.through)
        /\ log'[ContestRecorder][i] = log[ContestRecorder][i]
    BY <1>0, <2>1, <2>2, CoverageIsFixed DEF CoveredThrough
  <2>4. /\ \/ SignedButAbsent(Served(i), read.resp) = "SIGNED_BUT_ABSENT"
           \/ \E d \in read.resp.contests : StandsIn(d, i)
        /\ \A d \in read.resp.contests : StandsIn(d, i) =>
              d.sig = "bad" \/ (d.seq # i /\ ~d.anchored)
    BY <2>1, <2>3 DEF SilencingIsExposed
\* An entry under a confirmed bound is served the same ever after.
  <2>5. Served(i)' = Served(i)
    <3>1. Anchored(ContestRecorder, i)
      BY <1>0, <2>2, <2>3 DEF TrueBound, CoveredThrough, Anchored, Covering
    <3>2. Anchored(ContestRecorder, i)'
      BY <1>0, <3>1, AnchoredPersists DEF Anchored, Covering
    <3> QED
      BY <1>0, <2>3, <3>1, <3>2 DEF Served, Anchored
  <2> QED
    BY <1>0, <2>3, <2>4, <2>5 DEF SignedButAbsent, StandsIn
<1> QED
  BY <1>1, <1>2, <1>3, <1>4, <1>5, <1>6, <1>7, <1>8, <1>9 DEF RecordersOK
-------------------------------------------------------------------------------
(* The fetches. *)

\* A non-empty set of naturals has a least element.
LEMMA NatMin ==
  ASSUME NEW T, T \subseteq Nat, T # {}
  PROVE  \E n \in T : \A m \in T : n <= m
<1>1. PICK n \in T : \A m \in T : ~ (<<m, n>> \in OpToRel(<, Nat))
  BY WFMin, NatLessThanWellFounded
<1>2. ASSUME NEW m \in T PROVE n <= m
  <2>1. ~ (m < n)
    BY <1>1 DEF OpToRel
  <2> QED
    BY <2>1
<1> QED
  BY <1>2

\* The contest recorder's feed is true when it is fetched, and stays so.
LEMMA FeedIsTrue ==
  ASSUME TypeOK, NEW r \in Recorder
  PROVE  FeedOf(r) \in SUBSET FeedEntry /\ FeedRests(FeedOf(r), r)
<1>1. \A k \in DOMAIN cut[r] : k \in Nat /\ cut[r][k] \in Cut
  BY RecorderTypes
<1>2. FeedOf(r) \in SUBSET FeedEntry
  BY <1>1 DEF FeedOf, FeedEntry, Cut
<1>3. ASSUME NEW e \in FeedOf(r), e.status = "confirmed"
      PROVE  TrueBound(e, r)
  <2>1. PICK k \in DOMAIN cut[r] :
          e = [id |-> k, status |-> cut[r][k].status, time |-> cut[r][k].time]
    BY DEF FeedOf
  <2> QED
    BY <1>3, <2>1 DEF TrueBound
<1> QED
  BY <1>2, <1>3 DEF FeedRests

\* A bound looked up in a feed is a bound of the checkpoint it was asked for.
LEMMA LookupIsTrue ==
  ASSUME NEW feed \in SUBSET FeedEntry, NEW r, FeedRests(feed, r), NEW id,
         AnchorFromFeed(feed, id) # NoBound
  PROVE  LET b == AnchorFromFeed(feed, id) IN
         b.id = id /\ b \in [id: Nat, time: Nat \cup {Null}] /\ TrueBound(b, r)
<1>1. \E e \in feed : e.id = id
  BY DEF AnchorFromFeed
<1>2. PICK e \in feed : e.id = id /\ AnchorFromFeed(feed, id) = LowerBound(e)
  BY <1>1 DEF AnchorFromFeed
<1>3. e.status = "confirmed" /\ AnchorFromFeed(feed, id) = [id |-> e.id, time |-> e.time]
  BY <1>2 DEF LowerBound
<1> QED
  BY <1>2, <1>3 DEF FeedRests, TrueBound, FeedEntry

\* A read begins.
LEMMA FetchFeedInvariant ==
  ASSUME IInv, FetchFeed
  PROVE  IInv'
<1>1. /\ UNCHANGED <<channel, clock, log, cut>>
      /\ read' = [NoRead EXCEPT !.pc = "feed", !.now = clock, !.known = ContestAnchored,
                                !.attFeed = FeedOf(AttRecorder)]
  BY DEF FetchFeed
<1>2. /\ read'.pc = "feed" /\ read'.cstate = "none" /\ read'.state = "none"
      /\ read'.attFeed = FeedOf(AttRecorder) /\ read'.feed = {}
  BY <1>1 DEF NoRead
<1>3. TypeOK /\ clock \in Nat /\ AttRecorder \in Recorder /\ ContestAnchored \in BOOLEAN
  BY RecorderTypes DEF IInv, ContestAnchored
<1>4. FeedOf(AttRecorder) \in SUBSET FeedEntry /\ FeedRests(FeedOf(AttRecorder), AttRecorder)
  BY <1>3, FeedIsTrue
<1>5. (read \in ReadType)'
  BY <1>1, <1>3, <1>4 DEF ReadType, NoRead, NoResponse, NoBound, ChannelState
<1>6. TypeOK' /\ CutsRest'
  BY <1>1, <1>2 DEF IInv, TypeOK, CutsRest, Recorder, ContestRecorder
<1>7. FeedRests(read.attFeed, AttRecorder)' /\ FeedRests(read.feed, ContestRecorder)'
  BY <1>1, <1>2, <1>4 DEF FeedRests, TrueBound
<1>8. AttestationRests' /\ ThroughRests' /\ NotYetFolded'
  BY <1>2 DEF AttestationRests, ThroughRests, NotYetFolded
<1>9. StandingIsAnchored' /\ DisputeIsReal' /\ NoContestThrough' /\ SilencingIsExposed'
  BY <1>2 DEF StandingIsAnchored, DisputeIsReal, NoContestThrough, SilencingIsExposed
<1> QED
  BY <1>5, <1>6, <1>7, <1>8, <1>9 DEF IInv

\* The inclusion proof names a checkpoint that covers the attestation; the feed
\* fetched before says that one is confirmed, and it still is.
LEMMA FetchInclusionInvariant ==
  ASSUME IInv, FetchInclusion
  PROVE  IInv'
<1> DEFINE r == AttRecorder
           first == Min(Covering(r, 1))
           found == AnchorFromFeed(read.attFeed, first) # NoBound
<1>1. /\ UNCHANGED <<channel, clock, log, cut>> /\ read.pc = "feed" /\ Covering(r, 1) # {}
      /\ read' = IF found THEN [read EXCEPT !.pc = "included"]
                 ELSE [read EXCEPT !.pc = "done", !.state = "unanchored"]
  BY DEF FetchInclusion, StandingState
<1>2. /\ TypeOK /\ read \in ReadType /\ read.cstate = "none" /\ read.state = "none"
      /\ r \in Recorder /\ \A k \in DOMAIN cut[r] : k \in Nat \ {0}
  BY <1>1, RecorderTypes DEF IInv, NotYetFolded
<1>3. first \in Covering(r, 1)
  <2>1. Covering(r, 1) \in SUBSET Nat
    BY <1>2 DEF Covering
  <2>2. \E n \in Covering(r, 1) : \A m \in Covering(r, 1) : n <= m
    BY <1>1, <2>1, NatMin
  <2> QED
    BY <2>2 DEF Min
<1>4. found => Anchored(r, 1)
  <2>1. SUFFICES ASSUME found PROVE Anchored(r, 1)
    OBVIOUS
  <2>2. read.attFeed \in SUBSET FeedEntry /\ FeedRests(read.attFeed, r)
    BY DEF IInv, ReadType
  <2>3. cut[r][first].status = "confirmed"
    BY <2>1, <2>2, LookupIsTrue DEF TrueBound
  <2> QED
    BY <1>3, <2>3 DEF Anchored
<1>5. /\ read'.cstate = "none" /\ read'.attFeed = read.attFeed /\ read'.feed = read.feed
      /\ read'.pc \in {"included", "done"} /\ read'.state \in {"none", "unanchored"}
      /\ read'.pc = "included" => Anchored(r, 1) /\ read'.state = "none"
      /\ read' \in ReadType
  BY <1>1, <1>2, <1>4 DEF ReadType
<1> HIDE DEF first, found, r
<1>6. TypeOK' /\ CutsRest'
  BY <1>1, <1>5 DEF IInv, TypeOK, CutsRest, Recorder, ContestRecorder
<1>7. FeedRests(read.attFeed, AttRecorder)' /\ FeedRests(read.feed, ContestRecorder)'
  BY <1>1, <1>5 DEF IInv, FeedRests, TrueBound, ContestRecorder
<1>8. AttestationRests' /\ ThroughRests' /\ NotYetFolded'
  BY <1>1, <1>5 DEF AttestationRests, ThroughRests, NotYetFolded, Anchored, Covering, r
<1>9. StandingIsAnchored' /\ DisputeIsReal' /\ NoContestThrough' /\ SilencingIsExposed'
  BY <1>5 DEF StandingIsAnchored, DisputeIsReal, NoContestThrough, SilencingIsExposed
<1>10. (read \in ReadType)'
  BY <1>5 DEF ReadType, FeedEntry, ServedContest, ChannelState, Signatures
<1> QED
  BY <1>6, <1>7, <1>8, <1>9, <1>10 DEF IInv

\* The contest recorder's own feed, or the one in hand once more.
LEMMA FetchContestFeedInvariant ==
  ASSUME IInv, FetchContestFeed
  PROVE  IInv'
<1> DEFINE feed == IF ContestRecorder = AttRecorder THEN read.attFeed
                   ELSE FeedOf(ContestRecorder)
<1>1. /\ UNCHANGED <<channel, clock, log, cut>> /\ read.pc = "included"
      /\ read' = [read EXCEPT !.pc = "contests", !.feed = feed]
  BY DEF FetchContestFeed
<1>2. /\ TypeOK /\ read \in ReadType /\ read.cstate = "none" /\ read.state = "none"
      /\ ContestRecorder \in Recorder /\ Anchored(AttRecorder, 1)
  BY <1>1, RecorderTypes DEF IInv, NotYetFolded, AttestationRests
<1>3. feed \in SUBSET FeedEntry /\ FeedRests(feed, ContestRecorder)
  <2>1. /\ read.attFeed \in SUBSET FeedEntry /\ FeedRests(read.attFeed, AttRecorder)
        /\ FeedOf(ContestRecorder) \in SUBSET FeedEntry
        /\ FeedRests(FeedOf(ContestRecorder), ContestRecorder)
    BY <1>2, FeedIsTrue DEF IInv, ReadType
  <2> QED
    BY <2>1
<1> HIDE DEF feed
<1>4. /\ read'.cstate = "none" /\ read'.attFeed = read.attFeed /\ read'.feed = feed
      /\ read'.pc = "contests" /\ read'.state = "none" /\ read' \in ReadType
  BY <1>1, <1>2, <1>3 DEF ReadType
<1>6. TypeOK' /\ CutsRest'
  BY <1>1, <1>4 DEF IInv, TypeOK, CutsRest, Recorder, ContestRecorder
<1>7. FeedRests(read.attFeed, AttRecorder)' /\ FeedRests(read.feed, ContestRecorder)'
  BY <1>1, <1>3, <1>4 DEF IInv, FeedRests, TrueBound, ContestRecorder
<1>8. AttestationRests' /\ ThroughRests' /\ NotYetFolded'
  BY <1>1, <1>2, <1>4 DEF AttestationRests, ThroughRests, NotYetFolded, Anchored, Covering
<1>9. StandingIsAnchored' /\ DisputeIsReal' /\ NoContestThrough' /\ SilencingIsExposed'
  BY <1>4 DEF StandingIsAnchored, DisputeIsReal, NoContestThrough, SilencingIsExposed
<1>10. (read \in ReadType)'
  BY <1>4 DEF ReadType, FeedEntry, ServedContest, ChannelState, Signatures
<1> QED
  BY <1>6, <1>7, <1>8, <1>9, <1>10 DEF IInv
\* The contests an endpoint shows are served as what they are, or spoilt.
LEMMA ResponseType ==
  ASSUME TypeOK, NEW shown \in SUBSET Filed, NEW spoilt \in SUBSET Filed
  PROVE  Response(shown, spoilt) \in [latest: Nat, contests: SUBSET ServedContest]
<1>1. /\ Len(cut[ContestRecorder]) \in Nat
      /\ \A i \in DOMAIN log[ContestRecorder] :
           i \in Nat /\ log[ContestRecorder][i] \in Contests \cup {Attestation, Unrelated}
  BY RecorderTypes
<1>2. \A i \in Filed : /\ i \in Nat /\ log[ContestRecorder][i].sig \in Signatures
                       /\ log[ContestRecorder][i].payload \in Payloads
  BY <1>1 DEF Filed, IsContest, Contests, Attestation, Unrelated, Signatures
<1>3. \A i \in Filed : Served(i) \in ServedContest
  BY <1>2 DEF Served, ServedContest, Anchored
<1>4. \A i \in Filed : Spoilt(i) \in ServedContest
  BY <1>3 DEF Spoilt, ServedContest, Signatures
<1> QED
  BY <1>1, <1>3, <1>4 DEF Response

\* What the contest channel says, and of which bound, when the response shows
\* these contests.
LEMMA ContestChannelSays ==
  ASSUME NEW resp, NEW feed, NEW now
  PROVE  LET leg == ContestChannel(resp, feed, now) IN
         /\ leg.through = AnchorFromFeed(feed, resp.latest)
         /\ leg.state \in {"undeclared", "contested", "stale", "clear"}
         /\ leg.state = "contested" => \E c \in resp.contests : Counts(c)
         /\ leg.state \in {"clear", "stale"} =>
              leg.through # NoBound /\ \A c \in resp.contests : ~Counts(c)
         /\ leg.state = "clear" => ~Stale(leg.through, now)
BY DEF ContestChannel

\* The contests are fetched last: a bound from the older feed covers nothing that
\* the response, cut from the log of now, does not show, unless it withholds.
LEMMA FetchContestsInvariant ==
  ASSUME IInv, NEW shown \in SUBSET Filed, NEW spoilt \in SUBSET (Filed \ shown),
         FetchContests(shown, spoilt)
  PROVE  IInv'
<1> DEFINE r == ContestRecorder
           resp == Response(shown, spoilt)
           leg == ContestChannel(resp, read.feed, read.now)
<1>1. /\ UNCHANGED <<channel, clock, log, cut>> /\ read.pc = "contests"
      /\ channel.withholds \/ (shown = Filed /\ spoilt = {})
      /\ read' = [read EXCEPT !.pc = "done", !.resp = resp, !.cstate = leg.state,
                              !.through = leg.through,
                              !.state = StandingState(TRUE, leg.state)]
  BY DEF FetchContests
<1>2. /\ TypeOK /\ read \in ReadType /\ r \in Recorder /\ Anchored(AttRecorder, 1)
      /\ read.feed \in SUBSET FeedEntry /\ FeedRests(read.feed, r)
  BY <1>1, RecorderTypes DEF IInv, AttestationRests, ReadType
<1>3. /\ leg.through = AnchorFromFeed(read.feed, resp.latest)
      /\ leg.state \in {"undeclared", "contested", "stale", "clear"}
      /\ leg.state = "contested" => \E c \in resp.contests : Counts(c)
      /\ leg.state \in {"clear", "stale"} =>
           leg.through # NoBound /\ \A c \in resp.contests : ~Counts(c)
      /\ leg.state = "clear" => ~Stale(leg.through, read.now)
  BY ContestChannelSays
<1>4. leg.through # NoBound =>
        leg.through \in [id: Nat, time: Nat \cup {Null}] /\ TrueBound(leg.through, r)
  BY <1>2, <1>3, LookupIsTrue
<1>5. /\ resp \in [latest: Nat, contests: SUBSET ServedContest]
      /\ resp.contests = {Served(i) : i \in shown} \cup {Spoilt(i) : i \in spoilt}
  BY <1>2, ResponseType DEF Response
<1>6. leg.through \in [id: Nat, time: Nat \cup {Null}]
  BY <1>4 DEF NoBound
<1> HIDE DEF leg, resp
<1>7. StandingState(TRUE, leg.state) \in {"anchored", "stale", "contested"}
      /\ (StandingState(TRUE, leg.state) = "contested" => leg.state = "contested")
  BY DEF StandingState
<1>8. /\ read'.pc = "done" /\ read'.resp = resp /\ read'.cstate = leg.state
      /\ read'.through = leg.through /\ read'.now = read.now
      /\ read'.attFeed = read.attFeed /\ read'.feed = read.feed
      /\ read'.state = StandingState(TRUE, leg.state) /\ read' \in ReadType
  BY <1>1, <1>2, <1>3, <1>5, <1>6, <1>7 DEF ReadType, ChannelState
\* A contest shown under a confirmed checkpoint of its recorder counts.
<1>9. ASSUME NEW i \in Filed, i \in CoveredThrough(leg.through), Countable(i),
             leg.through # NoBound
      PROVE  Counts(Served(i))
  <2>1. leg.through.id \in Covering(r, i) /\ Anchored(r, i)
    BY <1>4, <1>9 DEF CoveredThrough, TrueBound, Anchored, Covering
  <2>2. log[r][i].sig \in Signatures \ {"bad"}
    BY <1>9, RecorderTypes, <1>2
       DEF Countable, Filed, Contests, Attestation, Unrelated, Signatures
  <2> QED
    BY <2>1, <2>2 DEF Counts, Served, Grade, Signatures
<1>10. TypeOK' /\ CutsRest' /\ (read \in ReadType)'
  <2>1. TypeOK' /\ CutsRest'
    BY <1>1, <1>7, <1>8 DEF IInv, TypeOK, CutsRest, Recorder, ContestRecorder
  <2> QED
    BY <2>1, <1>8 DEF ReadType, FeedEntry, ServedContest, ChannelState, Signatures
<1>11. FeedRests(read.attFeed, AttRecorder)' /\ FeedRests(read.feed, ContestRecorder)'
  BY <1>1, <1>8 DEF IInv, FeedRests, TrueBound, ContestRecorder
<1>12. AttestationRests' /\ NotYetFolded'
  BY <1>8 DEF AttestationRests, NotYetFolded
<1>13. ThroughRests'
  BY <1>1, <1>3, <1>4, <1>8 DEF ThroughRests, TrueBound, Stale, ContestRecorder
<1>14. StandingIsAnchored'
  BY <1>1, <1>2 DEF StandingIsAnchored, Anchored, Covering
<1>15. DisputeIsReal'
  <2>1. SUFFICES ASSUME leg.state = "contested"
                 PROVE  \E i \in Filed : Countable(i) /\ Anchored(r, i)
    BY <1>1, <1>7, <1>8
       DEF DisputeIsReal, Filed, IsContest, Countable, Anchored, Covering, ContestRecorder
  <2>2. PICK i \in shown : Counts(Served(i))
    <3>1. PICK c \in resp.contests : Counts(c)
      BY <1>3, <2>1
    <3>2. \A i \in spoilt : ~Counts(Spoilt(i))
      BY DEF Counts, Spoilt, Served, Grade
    <3> QED
      BY <1>5, <3>1, <3>2
  <2>3. Countable(i) /\ Anchored(r, i)
    BY <2>2 DEF Counts, Served, Countable, Grade
  <2> QED
    BY <2>3
<1>16. NoContestThrough'
  <2>1. SUFFICES ASSUME ~channel.withholds, leg.state \in {"clear", "stale"},
                        NEW i \in CoveredThrough(leg.through)
                 PROVE  ~Countable(i)
    BY <1>1, <1>8 DEF NoContestThrough, CoveredThrough, Filed, IsContest, Countable,
                      ContestRecorder
  <2>2. i \in Filed /\ Served(i) \in resp.contests
    BY <1>1, <1>5, <2>1 DEF CoveredThrough
  <2> QED
    BY <1>3, <1>9, <2>1, <2>2
<1>17. SilencingIsExposed'
  <2>1. SUFFICES ASSUME leg.state \in {"clear", "stale"},
                        NEW i \in CoveredThrough(leg.through),
                        log[r][i].sig \in {"bound", "self-asserted"}
                 PROVE  /\ \/ SignedButAbsent(Served(i), resp) = "SIGNED_BUT_ABSENT"
                           \/ \E d \in resp.contests : StandsIn(d, i)
                        /\ \A d \in resp.contests : StandsIn(d, i) =>
                              d.sig = "bad" \/ (d.seq # i /\ ~d.anchored)
    BY <1>1, <1>8 DEF SilencingIsExposed, CoveredThrough, Filed, IsContest, Served,
                      StandsIn, Anchored, Covering, ContestRecorder
  <2>2. /\ Counts(Served(i)) /\ Served(i).sig = log[r][i].sig /\ Served(i).seq = i
        /\ Served(i).payload = log[r][i].payload
    BY <1>3, <1>9, <2>1 DEF CoveredThrough, Countable, Served
\* Whatever is listed does not count: it is spoilt or not anchored, and the
\* contest itself, were it listed, would count.
  <2>3. ASSUME NEW d \in resp.contests
        PROVE  d.sig = "bad" \/ (d.seq # i /\ ~d.anchored)
    <3>1. ~Counts(d)
      BY <1>3, <2>1
    <3>2. CASE \E j \in spoilt : d = Spoilt(j)
      BY <3>2 DEF Spoilt, Served
    <3>3. ASSUME NEW j \in shown, d = Served(j), d.sig # "bad"
          PROVE  d.seq # i /\ ~d.anchored
      <4>1. d.seq = j /\ d.seq # i
        BY <2>2, <3>1, <3>3 DEF Served
      <4>2. d.anchored => d.folds
        BY <3>3 DEF Served, Anchored
      <4>3. d.sig \in Signatures
        BY <1>5 DEF ServedContest
      <4>4. Grade(d) \in {"verified", "claimed", "server-attested"}
        BY <3>3, <4>3 DEF Grade, Signatures
      <4> QED
        BY <3>1, <4>1, <4>2, <4>4 DEF Counts
    <3> QED
      BY <1>5, <3>2, <3>3
  <2> QED
    BY <2>1, <2>2, <2>3 DEF SignedButAbsent, StandsIn
<1> QED
  BY <1>10, <1>11, <1>12, <1>13, <1>14, <1>15, <1>16, <1>17 DEF IInv

\* The newest of the bounds in a feed: there is one.
LEMMA NewestBound ==
  ASSUME NEW bounds, bounds # {}, NEW top \in Nat,
         \A b \in bounds : b.time \in Nat /\ b.time <= top
  PROVE  \E b \in bounds : \A a \in bounds : a.time <= b.time
<1> DEFINE Age(b) == top - b.time
           Ages == {Age(b) : b \in bounds}
<1>1. \A b \in bounds : Age(b) \in Nat
  OBVIOUS
<1>2. Ages \subseteq Nat /\ Ages # {}
  BY <1>1
<1>3. PICK n \in Ages : \A m \in Ages : n <= m
  BY <1>2, NatMin
<1>4. PICK b \in bounds : n = Age(b)
  BY <1>3
<1>5. ASSUME NEW a \in bounds PROVE a.time <= b.time
  <2>1. Age(b) <= Age(a)
    BY <1>3, <1>4
  <2> QED
    BY <2>1
<1> QED
  BY <1>5

\* What the folding reader says of a contest feed, and of which bound.
LEMMA ContestLegSays ==
  ASSUME TypeOK, CutsRest, NEW shown \in SUBSET Filed, NEW reachable \in BOOLEAN, NEW now
  PROVE  LET r == ContestRecorder
             feed == IF ~reachable THEN Null
                     ELSE [checkpoints |-> FeedOf(r), contests |-> shown]
             leg == ContestLeg(feed, now)
         IN  /\ leg.state \in {"undeclared", "contested", "stale", "clear"}
             /\ leg.through \in [id: Nat, time: Nat \cup {Null}]
             /\ leg.state \in {"clear", "stale"} =>
                  leg.through # NoBound /\ TrueBound(leg.through, r) /\ shown = {}
             /\ leg.state = "clear" => ~Stale(leg.through, now)
<1> DEFINE r == ContestRecorder
           feed == IF ~reachable THEN Null
                   ELSE [checkpoints |-> FeedOf(r), contests |-> shown]
           leg == ContestLeg(feed, now)
           bounds == {LowerBound(cp) : cp \in FeedOf(r)} \ {NoBound}
           through == CHOOSE b \in bounds : \A a \in bounds : a.time <= b.time
<1>1. CASE feed = Null \/ bounds = {}
  <2>1. leg = [through |-> NoBound, state |-> "undeclared"]
    BY <1>1 DEF ContestLeg
  <2> QED
    BY <2>1 DEF NoBound
<1>2. CASE ~(feed = Null \/ bounds = {})
  <2>1. leg = [through |-> through,
               state |-> IF shown # {} THEN "contested"
                         ELSE IF Stale(through, now) THEN "stale" ELSE "clear"]
    BY <1>2 DEF ContestLeg
  <2>2. r \in Recorder /\ clock \in Nat
    BY RecorderTypes
  <2>3. \A e \in FeedOf(r) : /\ e \in FeedEntry /\ (e.status = "confirmed" => TrueBound(e, r))
                             /\ e.time <= clock
    BY <2>2, FeedIsTrue DEF FeedRests, CutsRest, FeedOf
  <2>4. ASSUME NEW b \in bounds
        PROVE  /\ b \in [id: Nat, time: Nat \cup {Null}] /\ TrueBound(b, r)
               /\ b.time \in Nat /\ b.time <= clock
    <3>1. PICK e \in FeedOf(r) : b = LowerBound(e) /\ b # NoBound
      OBVIOUS
    <3>2. e.status = "confirmed" /\ b = [id |-> e.id, time |-> e.time]
      BY <3>1 DEF LowerBound
    <3> QED
      BY <2>3, <3>2 DEF FeedEntry, TrueBound
  <2>5. through \in bounds
    <3> HIDE DEF bounds
    <3>1. \E b \in bounds : \A a \in bounds : a.time <= b.time
      BY <1>2, <2>2, <2>4, NewestBound
    <3> QED
      BY <3>1
  <2>6. /\ through \in [id: Nat, time: Nat \cup {Null}] /\ TrueBound(through, r)
        /\ through # NoBound
    BY <2>4, <2>5
  <2> HIDE DEF through
  <2> QED
    BY <2>1, <2>6
<1> QED
  BY <1>1, <1>2
\* check reads everything at once: what it calls clear is clear of all there is.
LEMMA FoldInvariant ==
  ASSUME IInv, NEW offline \in BOOLEAN, NEW reachable \in BOOLEAN,
         NEW shown \in SUBSET Filed, Fold(offline, reachable, shown)
  PROVE  IInv'
<1> DEFINE r == ContestRecorder
           attested == \E k \in Covering(AttRecorder, 1) :
                         cut[AttRecorder][k].status = "confirmed"
           feed == IF ~reachable THEN Null
                   ELSE [checkpoints |-> FeedOf(r), contests |-> shown]
           online == ContestLeg(feed, clock)
           leg == IF offline THEN [state |-> "skipped", through |-> NoBound] ELSE online
           cstate == IF attested THEN leg.state ELSE "none"
           through == IF attested THEN leg.through ELSE NoBound
           state == StandingState(attested, cstate)
<1>1. /\ UNCHANGED <<channel, clock, log, cut>>
      /\ channel.withholds \/ shown = Filed
      /\ read' = [NoRead EXCEPT !.pc = "folded", !.now = clock, !.cstate = cstate,
                                !.through = through, !.state = state]
  BY DEF Fold
<1>2. TypeOK /\ CutsRest /\ clock \in Nat
  BY RecorderTypes DEF IInv
<1>3. /\ online.state \in {"undeclared", "contested", "stale", "clear"}
      /\ online.through \in [id: Nat, time: Nat \cup {Null}]
      /\ online.state \in {"clear", "stale"} =>
           online.through # NoBound /\ TrueBound(online.through, r) /\ shown = {}
      /\ online.state = "clear" => ~Stale(online.through, clock)
  BY <1>2, ContestLegSays
<1>4. attested <=> Anchored(AttRecorder, 1)
  BY DEF Anchored
<1> HIDE DEF online, attested
<1>5. /\ cstate \in {"none", "skipped", "undeclared", "contested", "stale", "clear"}
      /\ through \in [id: Nat, time: Nat \cup {Null}]
      /\ cstate \in {"clear", "stale"} =>
           through # NoBound /\ TrueBound(through, r) /\ shown = {}
      /\ cstate = "clear" => ~Stale(through, clock)
  BY <1>3 DEF NoBound
<1>6. /\ state \in {"unanchored", "anchored", "stale", "contested"}
      /\ state # "unanchored" => attested
  BY DEF StandingState
<1> HIDE DEF cstate, through, state
<1>7. /\ read'.pc = "folded" /\ read'.now = clock /\ read'.cstate = cstate
      /\ read'.through = through /\ read'.state = state
      /\ read'.attFeed = {} /\ read'.feed = {}
  BY <1>1 DEF NoRead
<1>8. (read \in ReadType)'
  BY <1>1, <1>2, <1>5, <1>6 DEF ReadType, NoRead, NoResponse, NoBound, ChannelState
<1>9. TypeOK' /\ CutsRest'
  BY <1>1, <1>2, <1>6, <1>7 DEF TypeOK, CutsRest, Recorder, ContestRecorder
<1>10. FeedRests(read.attFeed, AttRecorder)' /\ FeedRests(read.feed, ContestRecorder)'
  BY <1>7 DEF FeedRests
<1>11. AttestationRests' /\ NotYetFolded' /\ DisputeIsReal' /\ SilencingIsExposed'
  BY <1>7 DEF AttestationRests, NotYetFolded, DisputeIsReal, SilencingIsExposed
<1>12. ThroughRests'
  BY <1>1, <1>5, <1>7 DEF ThroughRests, TrueBound, Stale, ContestRecorder
<1>13. StandingIsAnchored'
  BY <1>1, <1>4, <1>6, <1>7 DEF StandingIsAnchored, Anchored, Covering
<1>14. NoContestThrough'
  <2>1. SUFFICES ASSUME ~channel.withholds, cstate \in {"clear", "stale"}
                 PROVE  CoveredThrough(through) = {}
    BY <1>1, <1>7 DEF NoContestThrough, CoveredThrough, Filed, IsContest, ContestRecorder
  <2>2. Filed = {}
    BY <1>1, <1>5, <2>1
  <2> QED
    BY <2>2 DEF CoveredThrough
<1> QED
  BY <1>8, <1>9, <1>10, <1>11, <1>12, <1>13, <1>14 DEF IInv

-------------------------------------------------------------------------------
(* The invariant, and what follows from it. *)

\* Nothing has been read, and every recorder starts with one entry.
LEMMA InitInvariant ==
  ASSUME Init
  PROVE  IInv
<1>1. /\ channel \in Channels /\ clock = 0 /\ read = NoRead
      /\ log = [r \in Recorder |-> IF r = AttRecorder THEN <<Attestation>> ELSE <<Unrelated>>]
      /\ cut = [r \in Recorder |-> <<>>]
  BY DEF Init
<1>2. channel.maxClock \in Nat
  BY <1>1, ReadAssumption
<1>3. /\ <<Attestation>> \in Seq(Contests \cup {Attestation, Unrelated})
      /\ <<Unrelated>> \in Seq(Contests \cup {Attestation, Unrelated})
      /\ <<>> \in Seq(Cut)
  OBVIOUS
<1>4. TypeOK
  <2>1. /\ log \in [Recorder -> Seq(Contests \cup {Attestation, Unrelated})]
        /\ cut \in [Recorder -> Seq(Cut)]
    BY <1>1, <1>3
  <2>2. read.pc = "idle" /\ read.state = "none"
    BY <1>1 DEF NoRead
  <2>3. channel \in Channels /\ clock \in 0 .. channel.maxClock
    BY <1>1, <1>2
  <2> QED
    BY <2>1, <2>2, <2>3 DEF TypeOK
<1>5. read \in ReadType
  BY <1>1 DEF ReadType, NoRead, NoResponse, NoBound, ChannelState
<1>6. CutsRest
  BY <1>1 DEF CutsRest
<1>7. read.pc = "idle" /\ read.cstate = "none" /\ read.state = "none"
      /\ read.attFeed = {} /\ read.feed = {}
  BY <1>1 DEF NoRead
<1> QED
  BY <1>4, <1>5, <1>6, <1>7
     DEF IInv, FeedRests, AttestationRests, ThroughRests, NotYetFolded, StandingIsAnchored,
         DisputeIsReal, NoContestThrough, SilencingIsExposed

\* Every step of the recorders and of the readers preserves the invariant.
LEMMA NextInvariant ==
  ASSUME IInv, [Next]_vars
  PROVE  IInv'
<1>0. RecordersOK
  BY DEF IInv, RecordersOK
<1>1. ASSUME NEW c \in Contests, FileContest(c) PROVE IInv'
  BY <1>0, <1>1, FileContestGrows, RecorderStepInvariant DEF FileContest
<1>2. ASSUME NEW r \in Recorder, CutCheckpoint(r) PROVE IInv'
  BY <1>0, <1>2, CutCheckpointGrows, RecorderStepInvariant DEF CutCheckpoint
<1>3. ASSUME NEW r \in Recorder, NEW k \in 1 .. channel.maxCheckpoints, Confirm(r, k)
      PROVE  IInv'
  <2>1. k \in Nat
    OBVIOUS
  <2> QED
    BY <1>0, <1>3, <2>1, ConfirmGrows, RecorderStepInvariant DEF Confirm
<1>4. CASE Tick
  BY <1>0, <1>4, TickGrows, RecorderStepInvariant DEF Tick
<1>5. CASE FetchFeed
  BY <1>5, FetchFeedInvariant
<1>6. CASE FetchInclusion
  BY <1>6, FetchInclusionInvariant
<1>7. CASE FetchContestFeed
  BY <1>7, FetchContestFeedInvariant
<1>8. ASSUME NEW shown \in SUBSET Filed, NEW spoilt \in SUBSET (Filed \ shown),
             FetchContests(shown, spoilt)
      PROVE  IInv'
  BY <1>8, FetchContestsInvariant
<1>9. ASSUME NEW offline \in BOOLEAN, NEW reachable \in BOOLEAN, NEW shown \in SUBSET Filed,
             Fold(offline, reachable, shown)
      PROVE  IInv'
  BY <1>9, FoldInvariant
<1>10. CASE UNCHANGED vars
  <2>1. UNCHANGED <<channel, clock, log, cut, read>>
    BY <1>10 DEF vars
  <2>2. Recorder' = Recorder /\ clock \in Nat
    BY <2>1, <1>0, RecorderTypes DEF Recorder, ContestRecorder, RecordersOK
  <2>3. Grows /\ RecordersOK'
    BY <1>0, <2>1, <2>2 DEF Grows, RecordersOK, TypeOK, CutsRest
  <2> QED
    BY <2>1, <2>3, RecorderStepInvariant
<1> QED
  BY <1>1, <1>2, <1>3, <1>4, <1>5, <1>6, <1>7, <1>8, <1>9, <1>10 DEF Next

\* The invariant holds throughout.
THEOREM StandingInvariant == Spec => []IInv
BY InitInvariant, NextInvariant, PTL DEF Spec

\* Every reachable state of the recorders and the reads is well typed, however
\* many contests, checkpoints and blocks there are.
THEOREM StandingTypes == Spec => []TypeOK
BY StandingInvariant, PTL DEF IInv

\* A standing better than unanchored has a confirmed checkpoint over the
\* attestation, although proof and anchor are fetched apart.
THEOREM StandingAnchored == Spec => []StandingIsAnchored
BY StandingInvariant, PTL DEF IInv

\* The live reader reports no dispute that is not recorded and anchored.
THEOREM StandingDisputeIsReal == Spec => []DisputeIsReal
BY StandingInvariant, PTL DEF IInv

\* No countable contest of an honest recorder lies under the bound that a clear or
\* stale channel is reported through.
THEOREM StandingNoContestThrough == Spec => []NoContestThrough
BY StandingInvariant, PTL DEF IInv

\* A signed contest under that bound is provably absent from the response that was
\* folded, or something stands there under its hashes which is badly signed or is
\* another entry, not anchored.
THEOREM StandingSilencingIsExposed == Spec => []SilencingIsExposed
BY StandingInvariant, PTL DEF IInv

\* A channel that reads clear was anchored within the declared lag of the read.
THEOREM StandingClearIsFresh == Spec => []ClearIsFresh
<1>1. IInv => ClearIsFresh
  <2>1. SUFFICES ASSUME IInv, read.cstate = "clear", MaxLag # Null
                 PROVE  \E k \in DOMAIN cut[ContestRecorder] :
                          /\ cut[ContestRecorder][k].status = "confirmed"
                          /\ read.now - cut[ContestRecorder][k].time <= MaxLag
    BY DEF ClearIsFresh
  <2>2. TrueBound(read.through, ContestRecorder) /\ ~Stale(read.through, read.now)
    BY <2>1 DEF IInv, ThroughRests
  <2>3. /\ read.now \in Nat /\ MaxLag \in Nat
        /\ \A k \in DOMAIN cut[ContestRecorder] : cut[ContestRecorder][k].time \in Nat
    BY <2>1, RecorderTypes, ReadAssumption DEF IInv, ReadType, Cut
  <2> QED
    BY <2>1, <2>2, <2>3 DEF TrueBound, Stale
<1> QED
  BY <1>1, StandingInvariant, PTL
===============================================================================
