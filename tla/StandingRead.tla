----------------------------- MODULE StandingRead -----------------------------
(***************************************************************************)
(* Reading standing while the recorders move.  A recorder appends entries, *)
(* cuts checkpoints over its log and sees their OTS anchors confirmed in   *)
(* Bitcoin blocks later, in order.  check_live (tools/touchstone_live.py)  *)
(* reads it in up to four separate fetches; check (tools/                  *)
(* standing_anchor.py) reads one contest feed.  Both fold with Standing.   *)
(* The attestation is entry 1 of its recorder; a contest recorder of its   *)
(* own starts with an entry about something else.                          *)
(***************************************************************************)
EXTENDS Standing, Functions

(***************************************************************************)
(* The contest channels considered, one of which holds throughout a        *)
(* behaviour: recorder (where contests are recorded: AttRecorder for an    *)
(* issuer channel), withholds (its contest responses may leave contests    *)
(* out, or list them spoilt), payloads (the payload hashes that occur),    *)
(* and three bounds: maxContests, the contests filed, maxCheckpoints per   *)
(* recorder, and maxClock, in units of block time.                         *)
(***************************************************************************)
CONSTANTS
    AttRecorder,        \* where the attestation is recorded
    Payloads,           \* payload hashes of contests
    Channels

ASSUME ReadAssumption ==
    /\ \A c \in Channels :
        /\ DOMAIN c = {"recorder", "withholds", "payloads", "maxContests",
                       "maxCheckpoints", "maxClock"}
        /\ c.withholds \in BOOLEAN /\ c.payloads \subseteq Payloads
        /\ {c.maxContests, c.maxCheckpoints, c.maxClock} \subseteq Nat
    /\ MaxLag \in Nat \cup {Null} /\ Null \notin Nat

VARIABLES
    channel,    \* the contest channel the envelope declares
    clock,
    log,        \* log[r]: the entries of recorder r (attestation or contest)
    cut,        \* cut[r]: its checkpoints, each over a prefix of the log
    read        \* the read in progress, or the last one

vars == <<channel, clock, log, cut, read>>

ContestRecorder == channel.recorder
Recorder == {AttRecorder, ContestRecorder}

Attestation == [kind |-> "attestation", sig |-> "none"]
Unrelated == [kind |-> "other", sig |-> "none"]
Contests == [kind: {"contest"}, sig: Signatures, payload: Payloads]
Cut == [size: Nat, status: {"pending", "confirmed"}, time: Nat]

NoResponse == [latest |-> 0, contests |-> {}]
NoRead == [pc |-> "idle", now |-> 0, known |-> FALSE, attFeed |-> {}, feed |-> {},
           resp |-> NoResponse, cstate |-> "none", through |-> NoBound,
           state |-> "none"]

TypeOK ==
    /\ channel \in Channels
    /\ clock \in 0 .. channel.maxClock
    /\ log \in [Recorder -> Seq(Contests \cup {Attestation, Unrelated})]
    /\ cut \in [Recorder -> Seq(Cut)]
    /\ read.pc \in {"idle", "feed", "included", "contests", "done", "folded"}
    /\ read.state \in {"none", "unanchored", "anchored", "stale", "contested"}

Init ==
    /\ channel \in Channels
    /\ clock = 0
    /\ log = [r \in Recorder |-> IF r = AttRecorder THEN <<Attestation>> ELSE <<Unrelated>>]
    /\ cut = [r \in Recorder |-> <<>>]
    /\ read = NoRead

-------------------------------------------------------------------------------
(* The recorders. *)

IsContest(r, i) == log[r][i].kind = "contest"

FileContest(c) ==
    LET r == ContestRecorder IN
    /\ c.payload \in channel.payloads
    /\ Cardinality({i \in DOMAIN log[r] : IsContest(r, i)}) < channel.maxContests
    /\ log' = [log EXCEPT ![r] = Append(@, c)]
    /\ UNCHANGED <<channel, clock, cut, read>>

CutCheckpoint(r) ==
    /\ Len(cut[r]) < channel.maxCheckpoints
    /\ cut' = [cut EXCEPT ![r] =
            Append(@, [size |-> Len(log[r]), status |-> "pending", time |-> clock])]
    /\ UNCHANGED <<channel, clock, log, read>>

\* The oldest pending anchor is confirmed in the current block.
Confirm(r, k) ==
    /\ k \in DOMAIN cut[r]
    /\ cut[r][k].status = "pending"
    /\ \A j \in 1 .. k - 1 : cut[r][j].status = "confirmed"
    /\ cut' = [cut EXCEPT ![r][k].status = "confirmed", ![r][k].time = clock]
    /\ UNCHANGED <<channel, clock, log, read>>

Tick ==
    /\ clock < channel.maxClock
    /\ clock' = clock + 1
    /\ UNCHANGED <<channel, log, cut, read>>

\* The checkpoints that cover entry i, and whether one of them is anchored.
Covering(r, i) == {k \in DOMAIN cut[r] : i <= cut[r][k].size}
Anchored(r, i) == \E k \in Covering(r, i) : cut[r][k].status = "confirmed"

\* What the endpoints serve.
FeedOf(r) ==
    {[id |-> k, status |-> cut[r][k].status, time |-> cut[r][k].time] :
        k \in DOMAIN cut[r]}

Served(i) ==
    [seq |-> i, payload |-> log[ContestRecorder][i].payload,
     sig |-> log[ContestRecorder][i].sig,
     folds |-> Covering(ContestRecorder, i) # {},
     anchored |-> Anchored(ContestRecorder, i)]

\* An entry listed with another contestant key or client time: neither is in the
\* entry hash, so the entry folds as before, but its signature fails.
Spoilt(i) == [Served(i) EXCEPT !.sig = "bad"]

Filed == {i \in DOMAIN log[ContestRecorder] : IsContest(ContestRecorder, i)}

\* The response that lists some contests as they are and others spoilt.
Response(shown, spoilt) ==
    [latest |-> Len(cut[ContestRecorder]),
     contests |-> {Served(i) : i \in shown} \cup {Spoilt(i) : i \in spoilt}]

-------------------------------------------------------------------------------
(* check_live: one action per fetch. *)

\* A contest that counts is anchored (remembered in read.known when a read
\* begins; no reader looks at it).
ContestAnchored ==
    \E i \in Filed : log[ContestRecorder][i].sig # "bad" /\ Anchored(ContestRecorder, i)

\* now is taken, then the attestation recorder's feed is fetched.
FetchFeed ==
    /\ read.pc \in {"idle", "done", "folded"}
    /\ read' = [NoRead EXCEPT !.pc = "feed", !.now = clock,
                              !.known = ContestAnchored,
                              !.attFeed = FeedOf(AttRecorder)]
    /\ UNCHANGED <<channel, clock, log, cut>>

\* The inclusion proof names the first checkpoint over the attestation; the
\* bound is looked up in the feed fetched before.
FetchInclusion ==
    /\ read.pc = "feed"
    /\ Covering(AttRecorder, 1) # {}
    /\ read' = IF AnchorFromFeed(read.attFeed, Min(Covering(AttRecorder, 1))) # NoBound
               THEN [read EXCEPT !.pc = "included"]
               ELSE [read EXCEPT !.pc = "done",
                                 !.state = StandingState(FALSE, "none")]
    /\ UNCHANGED <<channel, clock, log, cut>>

\* A distinct contest recorder has a feed of its own; otherwise the feed that
\* is already in hand is used again.
FetchContestFeed ==
    /\ read.pc = "included"
    /\ read' = [read EXCEPT !.pc = "contests",
            !.feed = IF ContestRecorder = AttRecorder THEN read.attFeed
                     ELSE FeedOf(ContestRecorder)]
    /\ UNCHANGED <<channel, clock, log, cut>>

FetchContests(shown, spoilt) ==
    LET resp == Response(shown, spoilt)
        leg  == ContestChannel(resp, read.feed, read.now)
    IN
    /\ read.pc = "contests"
    /\ channel.withholds \/ (shown = Filed /\ spoilt = {})
    /\ read' = [read EXCEPT !.pc = "done", !.resp = resp,
                            !.cstate = leg.state, !.through = leg.through,
                            !.state = StandingState(TRUE, leg.state)]
    /\ UNCHANGED <<channel, clock, log, cut>>

-------------------------------------------------------------------------------
(* check: the attestation's checkpoint is inlined in the envelope, the contest *)
(* feed is fetched once, unless the read is offline or the feed unreachable.   *)

Fold(offline, reachable, shown) ==
    LET attested == \E k \in Covering(AttRecorder, 1) :
                        cut[AttRecorder][k].status = "confirmed"
        feed == IF ~reachable THEN Null
                ELSE [checkpoints |-> FeedOf(ContestRecorder), contests |-> shown]
        leg  == IF offline THEN [state |-> "skipped", through |-> NoBound]
                ELSE ContestLeg(feed, clock)
        cstate == IF attested THEN leg.state ELSE "none"
    IN
    /\ read.pc \in {"idle", "done", "folded"}
    /\ channel.withholds \/ shown = Filed
    /\ read' = [NoRead EXCEPT !.pc = "folded", !.now = clock,
                    !.cstate = cstate,
                    !.through = IF attested THEN leg.through ELSE NoBound,
                    !.state = StandingState(attested, cstate)]
    /\ UNCHANGED <<channel, clock, log, cut>>

Next ==
    \/ \E c \in Contests : FileContest(c)
    \/ \E r \in Recorder : CutCheckpoint(r)
    \/ \E r \in Recorder, k \in 1 .. channel.maxCheckpoints : Confirm(r, k)
    \/ Tick
    \/ FetchFeed
    \/ FetchInclusion
    \/ FetchContestFeed
    \/ \E shown \in SUBSET Filed : \E spoilt \in SUBSET (Filed \ shown) :
            FetchContests(shown, spoilt)
    \/ \E offline, reachable \in BOOLEAN, shown \in SUBSET Filed :
            Fold(offline, reachable, shown)

Spec == Init /\ [][Next]_vars

-------------------------------------------------------------------------------
(* What a reader may conclude. *)

Countable(i) == log[ContestRecorder][i].sig # "bad"

\* The contests a bound speaks for: those its checkpoint covers.
CoveredThrough(b) ==
    IF b = NoBound THEN {}
    ELSE {i \in Filed : i <= cut[ContestRecorder][b.id].size}

\* "The attestation only needs including once": a standing is never better than
\* unanchored unless a confirmed checkpoint covers the attestation, although
\* proof and anchor come from two fetches.
StandingIsAnchored ==
    read.state \in {"anchored", "stale", "contested"} => Anchored(AttRecorder, 1)

\* The live reader reports a dispute only over a contest that is recorded,
\* anchored and not badly signed.
DisputeIsReal ==
    read.pc = "done" /\ read.state = "contested"
    => \E i \in Filed : Countable(i) /\ Anchored(ContestRecorder, i)

\* "No-contest provable through Bitcoin block H": when an honest recorder's
\* channel reads clear or stale, no contest lies under the checkpoint the
\* reader names, although that checkpoint and the contests were fetched apart.
NoContestThrough ==
    ~channel.withholds /\ read.cstate \in {"clear", "stale"}
    => \A i \in CoveredThrough(read.through) : ~Countable(i)

\* What a response may list in the place of a contest: an entry under its entry
\* hash or its payload hash.
StandsIn(d, i) == d.seq = i \/ d.payload = log[ContestRecorder][i].payload

\* "The channel is omitting a valid objection -- detectable by a stranger": when
\* a channel reads clear or stale, the author of a signed contest under the bound
\* proves the omission against the very response the reader folded, unless that
\* response lists something in the contest's place; and whatever it lists there
\* shows that it is not the contest: its signature fails, or it is another entry
\* that is not even anchored.
SilencingIsExposed ==
    read.pc = "done" /\ read.cstate \in {"clear", "stale"}
    => \A i \in CoveredThrough(read.through) :
        log[ContestRecorder][i].sig \in {"bound", "self-asserted"}
        => /\ \/ SignedButAbsent(Served(i), read.resp) = "SIGNED_BUT_ABSENT"
              \/ \E d \in read.resp.contests : StandsIn(d, i)
           /\ \A d \in read.resp.contests :
                 StandsIn(d, i) => d.sig = "bad" \/ (d.seq # i /\ ~d.anchored)

\* "Silence is the flatline" (docs/threat-model.md): a channel that reads clear
\* within a declared lag was anchored in a block that recent, at the time the
\* read began.
ClearIsFresh ==
    read.cstate = "clear" /\ MaxLag # Null
    => \E k \in DOMAIN cut[ContestRecorder] :
        /\ cut[ContestRecorder][k].status = "confirmed"
        /\ read.now - cut[ContestRecorder][k].time <= MaxLag

-------------------------------------------------------------------------------
(* What the documentation says and the readers do not do. *)

\* docs/threat-model.md, Threat #6: "To suppress a recorded contest the issuer
\* must either stall the contest chain -- which the freshness check reads as
\* STALE, not valid -- or serve a fork": a recorder that hides nothing cannot
\* make a contest that was anchored before the read began go unreported.
KnownContestIsReported ==
    read.pc = "done" /\ read.known /\ ~channel.withholds
    => read.state \in {"contested", "unanchored"}
===============================================================================
