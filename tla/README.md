# TLA+ models of the attestation envelope tools

The repository specifies an envelope for agent-issued attestations and ships reference
verifiers for it under `src/tools/`. This directory models those verifiers in TLA+,
model-checks them with TLC on small instances and proves the most important results for
every instance with TLAPS.

## The system

Every tool is a pure function from documents to a verdict: none has threads, a database or
a scheduler. What moves is around them. Documents are signed by parties at different times,
pass through relays and publication layers that lose, delay, duplicate, reorder and alter
them, and are read by reliers who hold only part of them; recorders, registries and domains
change between two fetches of one verification; time passes. The correctness questions are
therefore about *verdicts over time and over views*: what a verdict proves about what was
really signed, whether a later document may reverse it, whether two holders can disagree,
and what a read composed of several fetches is worth.

| Component (src/tools) | State read | Operations | What makes it hard | What makes it correct |
|---|---|---|---|---|
| `ordering.py` (§16) | a list of receipts: id, subject, prev, beacon round | `check_ordering` | partial views, arrival order, equivocation, duplicates | `ordered` means one chain; guilt is never cleared; an honest emitter is never accused |
| `signed_cadence.py` (§18f) | commitment, heartbeats, counter-receipts, current round | `check_cadence` | loss, delay, reordering, forged and relabelled filings, late counter-receipts | gaps are exactly the silences; nobody can manufacture speech; refutations last |
| `standing_anchor.py`, `touchstone_live.py` (§12.3) | envelope anchor, recorder logs, checkpoints, contests | `check`, `check_live`, `signed_but_absent` | four fetches against recorders that move; withheld contests; pending anchors | no contest is hidden under the bound a reader names; a silenced author can prove it, unless something stands in the contest's place, which then shows that it is not the contest |
| `verify.py` | envelope; revocation, evidence, coverage, contest endpoints; DID documents | `check_sigchain`, `check_issuer_binding`, `verify` | altered copies, key rotation, failing endpoints, change between fetches | an accepted chain was assembled by its signers, whatever its last entry says of itself; MUST coverage and revocation hold |
| `verify_lineage.py` | a bundle of generations | `verify_bundle` | a bundle is assembled, repeated and cut by whoever shows it, and read later | what is accepted is one line; a divergence accuses only a liar |
| `independence.py`, `reconcile_independence.py`, `signed_merge.py` | seats, origins, observed failures, merged sets | quorum counts, admission, reconciliation, merging | order of seats and admissions; capture inside a sliding window of epochs; signatures mixed between merges | counts are components; a captured pair reads as one; nobody is merged who did not sign for it |
| `omission_witness.py` (§17) | a signed absence and its co-signers | `check_omission_witness` | labels outside the signed bytes | operators counted are distinct and disjoint from the issuer |
| `probe_battery.py`, `portable_divergence.py`, `refutation_pricing.py` (§18) | probe chain, drawn challenge, signed answers, claim | append check, divergence check, pricing | a battery that grows under its answers, certificates assembled from anybody's signatures | a split costs somebody an error, and no honest party; coverage is drawn, and only artifacts move the price |
| `comparison.py` | arms and settled results | `check_comparison` | rows reported per arm in any order, some never | a lead rests on a probe all answered |
| `donation_lane.py` | campaign, payment, evidence, witnesses | `decide` | replays, unreadable delivery, expiry, witnesses that revise | one delivery settles one epoch; a reported gap keeps the money in |
| `assurance.py` (§15) | graded fields | `assess` | fired and dangling grades | voiding is monotone |
| `self_application.py`, `rfc_readiness.py`, schemas, builders, Lean proof | fixed data | – | – | – |

The tools meet in `verify`, which folds `standing_anchor.check` into its report, in
`refutation_pricing`, which calls `portable_divergence`, and in `reconcile_independence`,
which starts from the counts of `independence` and merges clusters of its own.

## Modules

A component has a module of operators that are the tool's own functions, and a module that
moves the documents the tool reads (`…Gossip`, `…Watch`, `…Read`): the tool is evaluated in
every state it reaches.

| Module | Models | State and actions |
|---|---|---|
| `Ordering` | `check_ordering` as operators over a sequence of receipts | – |
| `ReceiptGossip` | emitters, honest and rogue, and reliers who fold `check_ordering` over what reached them | `issued`, `held`; `EmitHonest`, `EmitRogue`, `Deliver` |
| `ForkEvidence` | abstract: what reliers and the public record can prove, as sets | implemented by `ReceiptGossip` (`ForksAreEvidence`) |
| `Cadence` | `check_cadence` as operators over one document | – |
| `CadenceWatch` | a promising party, the beacon, a lossy or hostile relay, the growing document | `Speak`, `Tick`, `File`, `Surface` |
| `Standing` | the folds of `standing_anchor` and `touchstone_live` | – |
| `StandingRead` | recorders that append, checkpoint and anchor, and the two readers | `FileContest`, `CutCheckpoint`, `Confirm`, `Tick`; `FetchFeed`, `FetchInclusion`, `FetchContestFeed`, `FetchContests`; `Fold` |
| `Sigchain` | `check_sigchain`, `check_issuer_binding`, signers and the way of a copy to a relier | `Issue`, `Cosign`, `Vouch`, `PublishKeys`, `Alter`, `Send` |
| `EnvelopeRead` | the other checks of `verify` and its verdict, against a moving world | `Revoke`, `Publish`, `Edit`, `Tick`; `Begin`, `Validity`, `Evidence`, `Coverage`, `Standing`; `Offline` |
| `Independence` | the union-find over origins, earned counts, origin coverage and admission of `independence.py` | – |
| `Reconcile` | `reconcile`: declared clusters, the window, pair verdicts, merged blocks, the alarm | – |
| `SignedMerge` | `check_merge` | – |
| `QuorumWatch` | a quorum over time, read by the three above | seats join, keys are captured, epochs are observed, third parties name origins, keys sign merges, an assembler mixes them |
| `Battery` | `probe_battery.py` and `portable_divergence.py` | – |
| `Pricing` | `refutation_pricing.py` | – |
| `Comparison` | `comparison.py` | – |
| `ClaimWatch` | a claim under attack, read by the three above | `Contribute`, `Pin`, `Sign`, `Survive`, `File`; `Commit`, `AddRow` |
| `DonationLane` | `decide` and its gates | – |
| `LaneWatch` | a lane over its spend epochs | `Quote`, `Link`, `Report`, `Send`, `Confirm`, `Deliver`, `Fetch`, `FetchNothing`, `Contradict`, `Account`, `Tick` |
| `Lineage` | `verify_bundle` | – |
| `LineageWatch` | a family, its registry, and whoever assembles a bundle | `Birth`, `Revoke`, `Tick`; `Serve`, `Forge` |
| `OrderingProofs`, `CadenceProofs`, `StandingProofs`, `QuorumProofs`, `ClaimProofs`, `LaneProofs`, `LineageProofs` | theorems about `ReceiptGossip`, `CadenceWatch`, `StandingRead`, `QuorumWatch`, `ClaimWatch`, `LaneWatch` and `LineageWatch` | – |
| `VerifyProofs` | theorems about `Sigchain` and `EnvelopeRead`, the two halves of `verify` | – |
| `MC…` | instances for TLC | – |

Conventions. A signature is whether it verifies, or the pair of a key and the message it is
over; hashes are ids, and the head of a hash chain is the chain. Canonicalisation (JCS) is
equality of what is signed. In a `…_Name` mutant the suffix says what the change is; mutants
sit before the definition they change and are used by nothing. `Null` is JSON `null` or an
absent key.

*Ordering.* `SubjectState` keeps the code's order: a fork overrides a dangling link, a
backdate counts only while the subject is still ordered, ids resolve to the last receipt
that carries them, and missing prevs count together as "first in chain". `RoundKey` is a
parameter: the code orders rounds as integers when they parse and as text otherwise.
`RolledState` keeps the first worst subject in list order.

*Cadence.* `NextPrev` is the fold over the promised rounds; a rejected heartbeat does not
advance the chain head, and only promised rounds are visited. `Expected` keeps the falsy
zero: an `until_round` of 0 reads as none.

*Standing.* A checkpoint covers a prefix of its recorder's log; its time is that of the
Bitcoin block that confirms it. `StandingRead` remembers in `read` what the code holds in
local variables between two fetches and re-uses the first feed when both legs share one
recorder, as the code does. A contest's `seq` stands for its entry hash, `payload` for its
payload hash. A recorder that withholds leaves contests out of its response or lists them
under another contestant key or client time (`Spoilt`): the entry hash covers neither
(`touchstone_live.py:59-75`), so such an entry folds and its signature fails. It lists nothing
it has not recorded. The property about silencing speaks of the response the reader folded;
the command line fetches the channel again for `--contest-file` (lines 351-356).
`contest_control`, computed from the envelope alone and used by
no verdict, is left out.

*Sigchain.* An entry is over the body and the entries before it; what an entry says of
itself, and how its `sig` and `key_id` are spelt, is covered by later entries only. `form`
is the bytes `sig` decodes to; `respelt` says which of the two strings is not spelt as its
signer spelt it and decodes to the same bytes, since base64url decoding (`verify.py:80-81`)
passes over characters outside the alphabet and base58 decoding over trailing space, while
the domain's keys are compared as text (line 310). `provenance` is the entry's
`evidence_refs` and `selection_grade`. `alg` is the key's, by its multicodec prefix. Entries
are compared as JSON values of an envelope the schema admits, which `verify` checks first.
`released` holds what signers let go and `copy`
what a relier may be handed. Binding is modelled for a platform-handle issuer whose domain
resolves; `did:key` and `did:web` bind by one lookup of the first entry's key, and offline
binding never says `bound`.

*EnvelopeRead.* Each online check is a fetch with three outcomes: an answer, an error page,
nothing. The code treats the last two alike for coverage and evidence
(`raise_for_status`), not for revocation. `past` remembers what was true since the read
began, for the properties only.

*Quorum.* The union-find is a fold that keeps blocks of seats where the code keeps parent
pointers: what a seat is joined to (the first owner of each of its origins, and nothing
else) is the code's. `reconcile_independence` has a union-find of its own which never joins
two clusters and meets the owners in the order of a set of strings; `DeclaredMaps` holds
every outcome, so what the runs say of captured keys holds for each of them. `FloorOnlySplits`
is about ledgers read whole: with a window old epochs drop out and may join again. `settled` remembers when the last capture was, for the properties only.

*Claim.* A claim is priced today: `Today` puts the settled answers to it that exist now
beside what was filed, and they are the true ones, where the code takes those that the claim
carries. Arms are functions of their ids, so an arm is not listed twice
(`comparison.py:139`). `Certificate` labels each chosen signature with each answer, since
what does not verify is rejected one by one. The drawn index is a parameter (`Digest`).

*Lane.* A settled state is filed by the caller (`Account`); money leaves on
`eligible_small_test` (`Send`). Times are timestamps as text, ordered like the
clock; the number 0, which the code reads as none (`donation_lane.py:133`), is not among
them. `artifacts` are the deliveries there are, of which any may be
served to any fetch.

*Lineage.* `verify(env, offline=True)` is here whether the signatures hold and the window is
open; `EnvelopeRead` and `Sigchain` say what that is worth. A birth's content hash is its
number: memories differ from birth to birth.

## Runs

| Run | Instance | Shows |
|---|---|---|
| `gossip` | an honest and a rogue emitter, two reliers, three receipts (and a fourth id for a link to nothing), three rounds | `OrderedMeansChain`, `HonestVerdict`, `ExchangeExposesEquivocation`, `SameReceiptsSameVerdict`; `GuiltNeverClears`, `RolledGuiltStays`; the refinement `ForksAreEvidence` |
| `cadence` | a lossy scene (six rounds, every promise of the set, silence, loss, delay, reordering) and a hostile one (three rounds, a relay that relabels and forges, a party that speaks between its promised rounds) | lossy: `SilenceIsExact`, `RejectionMeansWithheld`; both: `NoManufacturedSpeech`, `FilingNeverHurts`, `KeptPromiseStaysKept`, `RefutationOutlivesTime` |
| `standing` | an issuer channel (one recorder for both legs, which moves between the fetches) and a separate contest recorder that leaves contests out of its responses or lists them badly signed, among contests of one payload hash | `StandingIsAnchored`, `DisputeIsReal`, `NoContestThrough`, `ClearIsFresh`; `SilencingIsExposed` |
| `sigchain_copies` | two bodies, three keys, three signatures, entries with and without refs and a grade, two alterations | `AcceptedWasReleased`, `BoundMeansCosigned`, `BoundMeansHandleKey` |
| `envelope` | every validity model and standing block, every coverage block and pinned evidence; two changes of the world between the fetches | `RevocationHolds`, `MustWasCovered`, `DriftIsCaught`, `ForeverIsContestable`; `EveryReadEnds` |
| `quorum` | rosters of four seats with any of three origins; signers with references into evidence and a manifest; two and three keys observed for up to five epochs, with a capture; every merge of three keys | `CountIsComponents`, `AdmissionPays`, `EnumeratedCapsWitnesses`, `CapturedReadsAsOne`, `CollapseIsMutual`; `FloorOnlySplits` |
| `claims` | a battery of up to three contributions, two answers in existence, survival and filings against a claim, two arms of two rows | `SplitCostsAnError`, `CoverageIsDrawn`, `LeadRestsOnCommonProbe`; `OnlyArtifactsMoveThePrice` |
| `lane` | two spend epochs, two witnesses, quotes with and without keys and windows | `OneDeliveryOneEpoch`; `OppositionHolds` |
| `lineage` | three births with any parents, bundles of up to four entries by an honest server and two by anybody | `AcceptedIsDescent` |

A run's situations are the members of one constant, chosen in the initial state and kept
(`scene`, `channel`, `env`, `quorum`, `situation`, `lane`); bounds that differ between
situations are fields of them.

Why the bounds are enough. A fork needs two receipts with one prev and a backdate one link,
so their interaction with a dangling link shows with three receipts; two reliers are enough
for views that differ, and the theorems below lift the main results to any number. A cadence
hazard needs a gap and a promised round on both sides of it: six rounds with step one and two
have several. The hostile relay needs two promised rounds, one between them and one document
more than there are genuine heartbeats to file. A stale standing read needs one checkpoint
before and one after a fetch. A chain of three has a first, a middle and a last entry;
dropping, swapping and relabelling are single alterations that combine in pairs. A
verification has five fetches; two changes of the world can fall before, between or after any
two of them. A seat bridges two clusters: three seats make the bridge, a fourth comes after
it. A window of two in five epochs has epochs before, around and after a capture. Two
signatures make a split, and a battery of two draws different probes at different lengths; a
lead needs two arms and two probes. A replay needs two epochs. Three births make a line, a
branch and a stranger, and a fourth entry repeats one.

Each property also has a mutant in `PROJECT.json`: a definition changed as a plausible bug
would change it, under which TLC finds the property violated. Deadlock is not checked:
emitters, recorders and relays may stop at any time and every bounded model ends.

## Where the code and its documents differ

Three differences have a run whose property is what the repository says and which TLC
violates (`findings` in `PROJECT.json` quotes the lines):

| Run | What happens |
|---|---|
| `standing_hidden` | a newer pending checkpoint hides an anchored contest from the live reader |
| `envelope_error_page` | an error page from the revocation registry reads as "not revoked" |
| `ranking_refusal` | an arm that leaves its answer to a probe it fails out of its rows takes the probe out of the common draw, and rises |

The others are read off the definitions, which keep them; the properties above are stated so
that they hold nonetheless:

- `ordering.py:79` counts list entries per prev: one receipt listed twice reads as a fork,
  where line 18 and `docs/ordering.md:53` speak of two receipts. `GossipImplementsEvidence`
  is proved for deliveries without duplicates.
- `signed_cadence.py:179` keeps the last document filed for a round before its signature is
  looked at, so a forged copy filed later turns a kept round into a gap
  (`docs/signed-cadence.md:54`); `FilingNeverHurts` excludes forgers. A heartbeat signed
  between two promised rounds is part of the party's chain but not of the walk, so the next
  promised round is rejected.
- `standing_anchor.py:413`: an unreachable or unanchored contest feed leaves `anchored`,
  where line 344 asks for both legs. `check_contest_leg` (307) counts every contest a feed
  lists, covered by a checkpoint or not.
- `touchstone_live.py:225`: whatever the response lists under the entry hash or the payload
  hash of a contest, badly signed or not anchored, reads "present — nothing omitted", while
  the reader does not count it and says "clear": the omission that lines 211-214,
  `docs/standing.md:110` and `README.md:19` call detectable is then not reported.
  `SilencingIsExposed` says that the response itself shows it: what is listed under the
  contest's own hash fails its signature, and what shares its payload hash does so or is
  another entry that is not anchored.
- `verify.py:342`: what the last entry says of itself is covered by no signature: its role,
  its `evidence_refs`, its `selection_grade` and the spelling of its `sig` and `key_id` may
  differ from what its signer released, where `README.md:15` says that a signature proves the
  envelope was not altered. `AcceptedWasReleased` leaves out just these. A custodian relabelled
  `platform_witness` can bind a handle (`docs/binding.md:22`); `BoundMeansHandleKey` assumes a
  platform key that signs nothing but vouchers.
- `verify.py:434`: offline a MUST claim is judged by the inline list and online by the
  published one (445), so offline rejects an envelope with a short inline list that an online
  read accepts: no "subset" of the checks (line 15, `README.md:62`).
- `reconcile_independence.py:85` joins a bridging seat to one of its clusters and leaves the
  other apart, where lines 75 and 127 promise the clusters of `independence`. A window of 0
  (line 99) is the whole history, and an epoch reported twice counts twice toward
  `min_epochs`.
- `portable_divergence.py:176`: two answers of one key are a divergence of that key alone.
- `refutation_pricing.py:92` upholds any certificate that shows a divergence, whatever
  battery and claim it is about (lines 34-38).
- `probe_battery.py:196`: an append is safe for the chain but draws another index for the
  same round, since the head is in the digest (lines 30-33).
- `donation_lane.py:110`: an unreadable delivery after payment pages `persistent_gap` even
  if no witness reports a gap (line 48); without a key in the quote (line 126) an old
  artifact can settle a new epoch (line 26).
- `verify_lineage.py:142`: a generation whose own evidence names its own memory links
  itself, two that name each other's link each other, and one without a content hash is not
  asked for a link (`docs/lineage-verification.md:60-63`). `AcceptedIsDescent` speaks of
  generations that name earlier births only: certificates of an issuer that lets them name
  themselves or each other are not in the model, and the code accepts them as linked. Line 126 reports a
  divergence also against a server that wrote the truth, once a certificate has run out:
  `LineageDivergence` says that this is the only case.
- `assurance.py` lets a field graded `equals(/x)` at `/x` re-derive itself; the operator
  labels `omission_witness.py:124` counts are outside the signed bytes.

## Fairness and liveness

One liveness property: `EveryReadEnds`, that every verification that was begun comes to a
verdict, whatever answers are lost and whatever changes in the world. It assumes weak
fairness of the next step of that one call (`FairSpec`, `WF_vars(Continue)`). The code
justifies it: `verify` is straight-line code in one thread and each of its fetches has a
timeout (15 or 20 seconds) and every failure is caught, so a step that can be taken is taken, with
"nothing" as an answer at the latest. The timeout of `requests` is one of inactivity: a host
that goes on sending a byte at a time for ever is outside the assumption. Nothing is assumed of issuers, registries or time.

The rest of the system has no liveness to state. The tools run when somebody calls them, to
the end; no code promises that a receipt is delivered, a checkpoint confirmed or a
verification repeated. What would be liveness elsewhere ("a fork is eventually caught") is
stated as what holds *once* the documents are in hand (`ExchangeExposesEquivocation`,
`SilenceIsExact`).

## What is proved

With TLAPS, for every value of the constants and for lists, chains and documents of every
length: every invariant and every action property that a passing run checks, and the
refinement `ForksAreEvidence`. Each module first proves its type invariant (`…Types`,
`TypeCorrect`); each inductive invariant was first checked with TLC on the run of its
component.

Several of these rest on what a fold computes: the walk of `check_cadence`, the union-find
over seats, the fold of merges, the battery. `tlapm` offers no induction over such a definition, but
it proves that a set which holds 0 and is closed under successor holds every natural
(`AllNaturals`, from the well-foundedness of `<`). The set of lengths to which a fold can be carried out is
such a set (`WalkExists`, `ClustersFoldExists`, `PairFoldExists`, `BatteryFoldExists`), so
the `CHOOSE` behind the recursive function denotes the fold, and what holds after each step
is another such set.

- `OrderingProofs`. `OrderedListIsChain`: a list that reads `ordered` is one chain with
  distinct ranks. The code looks at one link at a time; the proof takes a counterexample of
  least rank (well-founded induction on a set) and follows its link. `OrderedHoldersHoldChains`
  lifts it to every reachable state. `AccusationsPersist` (`GuiltNeverClears`) rests on the
  inductive invariant `IInv`: an id identifies a receipt, and lists hold issued receipts
  only. Without it a later receipt under the same id could replace the round a backdate was
  found against. `GossipImplementsEvidence` (`ForksAreEvidence`), assuming no duplicate
  delivery: the list-folding verdict refines the set-based rule of `ForkEvidence`.
  The other verdicts rest on `VerdictIsOfReceipts`: for a list without repetition, positions
  and the last-wins table `by_id` compute a function of the set of receipts. Hence, without
  duplicate delivery, `OrderIsImmaterial` (`SameReceiptsSameVerdict`); `HonestAreNeverAccused`
  (`HonestVerdict`), by the invariant `HonestChains` that an honest emitter's receipts are one
  line, of which a holder has a part; and `ComparingExposes` (`ExchangeExposesEquivocation`):
  two complete lines agree up to a top, and the first receipts beyond it share their `prev`.
  `RollUpKeepsGuilt` (`RolledGuiltStays`) needs the least worst position to exist.
- `CadenceProofs`. `SpeechIsSigned` (`NoManufacturedSpeech`), by the invariant `Signed`:
  whatever is on file or surfaced and verifies is over a round the party spoke in, and the
  party spoke in no round to come; that the last filing stands for a round is a maximum,
  which exists by well-foundedness. `RefutationLasts` (`RefutationOutlivesTime`) needs no
  invariant. `KeptStaysKept` (`KeptPromiseStaysKept`): once a promise has run out what is due
  stands still, and what is missing depends on time through what is due alone, whatever the
  walk computes.
  The other three rest on the invariant `Chained`: every heartbeat signed names the last
  round spoken in before it, there is one a round, an honest relay files only these, and a
  plain party speaks in promised rounds only. With it `PlainWalk` follows the walk: while
  everything earlier is on file, it stands at the last round spoken in, whatever rounds were
  skipped, since no round spoken in lies between two promised ones (`PlainRounds`). Hence
  `SilenceExact` (`SilenceIsExact`) and `RejectionBetraysRelay` (`RejectionMeansWithheld`).
  `FilingHelps` (`FilingNeverHurts`) allows a party that speaks out of turn: while a heartbeat
  is withheld the walk never passes its round (`WithheldStops`), since whoever comes later
  names it or a later one; so every present round lies before it, and filing it leaves the
  walk to there unchanged (`FilingKeeps`).
- `StandingProofs`. `StandingAnchored` (`StandingIsAnchored`), `StandingDisputeIsReal`
  (`DisputeIsReal`), `StandingNoContestThrough` (`NoContestThrough`),
  `StandingSilencingIsExposed` (`SilencingIsExposed`) and `StandingClearIsFresh`
  (`ClearIsFresh`), from one inductive invariant (`StandingInvariant`) that ties what a read
  holds in hand to the logs it was fetched from: what an old feed calls confirmed is confirmed
  for good, a bound says what its recorder's checkpoint says to this day, and past the
  inclusion proof a confirmed checkpoint covers the attestation. The environment's steps are
  handled once: logs only grow and a checkpoint keeps its prefix (`Grows`), and whatever grows
  so leaves what the read established. `NoContestThrough` needs that the contests are
  fetched last: a bound from the older feed covers nothing that the response does not show,
  unless the recorder withholds. What it then shows does not count, which with the truth of
  the bound gives `SilencingIsExposed`: of what stands in a contest's place the signature
  fails, or it is another entry past the anchor.
- `VerifyProofs`, signatures. `AcceptedChainsWereReleased` (`AcceptedWasReleased`), by the
  inductive invariant `Tied`: every signature has the copy its signer released with it. The
  last entry's signature is over everything before it, so one release explains the whole
  chain but for the words and the spelling of its last entry, which no signature is over. `BoundIsCosigned` follows from the shape of a verified chain and typing.
  `BoundIsHandleKey`, assuming the platform's key signs nothing but vouchers, by the invariant
  `Dedicated`.
- `VerifyProofs`, the other checks: `EnvelopeRevocationHolds` (`RevocationHolds`),
  `EnvelopeMustWasCovered`, `EnvelopeDriftIsCaught` and `EnvelopeForeverIsContestable`, from
  an invariant that ties what the read holds in hand to the past it was fetched from:
  `Watching` (the past grows with the world), `ValidityRests`, `EvidenceRests` and
  `CoverageRests` (each check passed rests on an instant of that past). The properties speak of
  the verdict only; the intermediate states carry them there.
- `QuorumProofs`. `CollapseMutual` (`CollapseIsMutual`), over any number of keys, merges and
  mixed signatures. `QuorumCountIsComponents` (`CountIsComponents`): joining each seat to the
  first owner of each of its origins, and to nothing else, ends with the connected components
  of the sharing graph, for any number of seats; the fold keeps a partition of the seats met
  so far whose blocks are closed under sharing and connected. `QuorumAdmissionPays`
  (`AdmissionPays`) follows, with the count of blocks that a new seat touches.
  `QuorumEnumeratedCaps` (`EnumeratedCapsWitnesses`), by a map from witnesses into the
  manifest's origins. `QuorumFloorOnlySplits` (`FloorOnlySplits`): the merged blocks are the finest
  partition that keeps together every pair of clusters judged one (`MergedByIsFinest`), and one
  more epoch never joins a pair that the earlier ones set apart (`EpochOnlySeparates`). `QuorumCapturedReadsAsOne` (`CapturedReadsAsOne`), by the
  invariant that since `settled` every epoch observes captured keys as one. Its proof found
  the property false for a window of 0, which reads the whole history (`obs[-0:]`) and so also
  epochs from before the capture: `CaptureSettled` excludes it.
- `ClaimProofs`. `ClaimCoverage` (`CoverageIsDrawn`), for every digest and probe count: the
  rounds of right answers map onto the probes covered, and a surjection bounds a cardinality;
  the invariant `Counted` keeps the sets finite. `ClaimRanking` (`LeadRestsOnCommonProbe`):
  of two finite sets the larger is not inside the smaller. `ClaimSplitCosts`
  (`SplitCostsAnError`), by the invariant `Truthful`: what an honest key signed is the settled
  answer to a probe that is in the battery, and by `BatteryGrows` a contribution adds at most
  one probe at the end, so that it stays so. `ClaimPrice` (`OnlyArtifactsMoveThePrice`): the
  same for what was entered as survival, whose settled answers are what the price depends on
  besides the claim; the refutations filed only become more.
- `LaneProofs`. `LaneOneDelivery` (`OneDeliveryOneEpoch`), by the invariant `Books`: the
  evidence in a receipt is an artifact that exists and payment names its epoch; without it a
  state could settle on evidence nobody served. `LaneOppositionHolds` (`OppositionHolds`).
- `LineageProofs`. `LineageDescent` (`AcceptedIsDescent`), by the invariant `Line`: parents
  are earlier births, and what is shown under a signature that holds was issued so. A group
  that stood apart would have a greatest member, and whoever names it is born later.
  `LineageDivergence` (`DivergenceIsExpiry`, a definition of `LineageWatch` that is proved and
  not part of a run).

The assumptions on constants are the `ASSUME`s of the modules, evaluated by TLC in each run.
Beyond the types of the constants they say that an absent field is neither a number nor a heartbeat,
that manifests are finite, and that the digest that draws a probe is a natural number
(`int.from_bytes` of a SHA-256, `portable_divergence.py:93`).

Model-checked only: `EveryReadEnds`, since liveness under fairness is out of the prover's
reach, and the three properties the code violates.

## Not modelled

Decoding (multibase, JSON, RFC 3339 times; of base64url and base58 what `Respelt` says),
elliptic-curve, Merkle and OTS
arithmetic, schema validation, notes and rendering: abstracted to their outcome. The
freshness of coverage (`coverage_signed_at`) and the custodian's signature over it, which
the README asks of consumers, are not in the code either. `assurance.py` classifies each
field of one document by itself and `omission_witness.py` counts labels in one pass: neither
keeps state, nothing comes between two of their steps, and what either says of signatures is
said of merges by `CollapseIsMutual`. Self application, RFC readiness, example builders and
schemas are fixed data; `proofs/Independence.lean` is a proof development of its own. The
`did:key` and `did:web` bindings are one lookup each; `contest_control` and the selection
grade of a manifest's co-signer are labels that change no verdict.

## Plan

Done: every tool with behaviour of its own is modelled and checked, and every safety
property of the runs is proved. What is left, in order:

1. The unbounded form of what duplicates do to `ordering`: which verdicts survive a receipt
   delivered twice, now excluded by the hypothesis of `GossipImplementsEvidence` and of the
   theorems beside it.
2. `OmissionWitness`, composed with `StandingRead`: who withheld what from whom.
3. `did:key` and `did:web` issuers in `Sigchain`.
