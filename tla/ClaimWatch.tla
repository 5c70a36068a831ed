------------------------------ MODULE ClaimWatch ------------------------------
(***************************************************************************)
(* A claim under attack.  Strangers contribute probes to the battery; the  *)
(* beacon draws one of them each round; keys answer, the honest ones only  *)
(* what was drawn and only the truth, the others anything; a claim pinned  *)
(* to a battery collects answers as survival and filings as refutations,   *)
(* in whatever order and labelled as whoever files them likes; and arms    *)
(* are compared while their answers and the forks against them come in.    *)
(* What is read of it is Battery, Pricing and Comparison.                  *)
(***************************************************************************)
EXTENDS Pricing, Comparison

(***************************************************************************)
(* The situations considered, one of which holds throughout a behaviour:   *)
(* offers (the probes that may be contributed), count (the probe count the *)
(* claim declares), arms, and six bounds: maxEntries, maxAnswers,          *)
(* maxSurvival, maxFilings, maxRows per arm and rounds, the beacon rounds. *)
(***************************************************************************)
CONSTANTS
    Honest, Rogue,      \* keys
    Answers,            \* what can be answered
    Truth(_),           \* the settled answer to a probe
    Situations

Keys == Honest \cup Rogue

ASSUME ClaimAssumption ==
    /\ Honest \cap Rogue = {}
    /\ Null \notin Answers
    /\ \A s \in Situations : \A p \in s.offers : Truth(p) \in Answers
    /\ \A s \in Situations :
        {s.count, s.maxEntries, s.maxAnswers, s.maxSurvival, s.maxFilings, s.maxRows,
         s.rounds} \subseteq Nat
    /\ \A s \in Situations : \A r \in 1 .. s.rounds, n \in 1 .. s.maxEntries :
        \A head \in [1 .. n -> s.offers] : Digest(r, head) \in Nat

VARIABLES
    situation,
    entries,    \* everything contributed to the battery, in order
    answers,    \* the signatures in existence
    claim,      \* the claim document
    arms        \* the comparison document

vars == <<situation, entries, answers, claim, arms>>

Probes == BuildBattery(entries)
Rounds == 1 .. situation.rounds
Row == [probe : situation.offers, settled : BOOLEAN, signed : BOOLEAN, refuted : BOOLEAN]

\* The heads the battery has had.
Heads == {SubSeq(Probes, 1, n) : n \in 1 .. Len(Probes)}

\* The settled answer to the probe of an index, looked up in today's battery.
Settled(index) == IF index < Len(Probes) THEN Truth(Probes[index + 1]) ELSE Null

TypeOK ==
    /\ situation \in Situations
    /\ entries \in Seq(situation.offers)
    /\ \A s \in answers : s.key \in Keys
    /\ DOMAIN claim = {"head", "count", "survival", "refutations"}
    /\ \A t \in claim.survival : t.sig \in answers
    /\ \A r \in claim.refutations : r.type \in {"report", "fork"}
    /\ arms \in [situation.arms -> [committed : BOOLEAN, results : SUBSET Row]]

Init ==
    /\ situation \in Situations
    /\ entries = <<>>
    /\ answers = {}
    /\ claim = [head |-> <<>>, count |-> situation.count, survival |-> {}, refutations |-> {}]
    /\ arms = [a \in situation.arms |-> [committed |-> FALSE, results |-> {}]]

-------------------------------------------------------------------------------
(* Battery, claim and answers. *)

Contribute(probe) ==
    /\ Len(entries) < situation.maxEntries
    /\ entries' = Append(entries, probe)
    /\ UNCHANGED <<situation, answers, claim, arms>>

\* The claim is pinned to the battery of the day.
Pin ==
    /\ claim.head = <<>> /\ Probes # <<>>
    /\ claim' = [claim EXCEPT !.head = Probes]
    /\ UNCHANGED <<situation, entries, answers, arms>>

\* An honest key answers the drawn probe of the full battery, truthfully.
DrawnMessages ==
    {LET i == ChallengeIndex(r, Probes, Len(Probes))
     IN  SignedMessage([round |-> r, head |-> Probes, index |-> i], Settled(i)) : r \in Rounds}

AnyMessages ==
    UNION {{SignedMessage([round |-> r, head |-> h, index |-> i], a) :
                r \in Rounds, i \in 0 .. Len(h) - 1, a \in Answers} : h \in Heads}

Sign(k, message) ==
    /\ Cardinality(answers) < situation.maxAnswers
    /\ Probes # <<>>
    /\ message \in IF k \in Honest THEN DrawnMessages ELSE AnyMessages
    /\ answers' = answers \cup {[key |-> k, over |-> message]}
    /\ UNCHANGED <<situation, entries, claim, arms>>

\* An entry as it was signed, or filed under another index or another answer.
Labelled(s, index, answer) ==
    [did |-> s.key, round |-> s.over.round, index |-> index, answer |-> answer, sig |-> s]

Survive(s, index, answer) ==
    /\ Cardinality(claim.survival) < situation.maxSurvival
    /\ claim' = [claim EXCEPT !.survival = @ \cup {Labelled(s, index, answer)}]
    /\ UNCHANGED <<situation, entries, answers, arms>>

\* A certificate with every label on the chosen signatures: what does not
\* verify is rejected one by one.
Certificate(round, head, count, index, sigs) ==
    [round |-> round, head |-> head, count |-> count, index |-> index,
     truth |-> Settled(index),
     responses |-> {[did |-> s.key, answer |-> a, sig |-> s] : s \in sigs, a \in Answers}]

File(type, certificate) ==
    /\ Cardinality(claim.refutations) < situation.maxFilings
    /\ claim' = [claim EXCEPT !.refutations = @ \cup {[type |-> type, certificate |-> certificate]}]
    /\ UNCHANGED <<situation, entries, answers, arms>>

-------------------------------------------------------------------------------
(* Arms. *)

Commit(a) ==
    /\ ~arms[a].committed
    /\ arms' = [arms EXCEPT ![a].committed = TRUE]
    /\ UNCHANGED <<situation, entries, answers, claim>>

AddRow(a, row) ==
    /\ Cardinality(arms[a].results) < situation.maxRows
    /\ arms' = [arms EXCEPT ![a].results = @ \cup {row}]
    /\ UNCHANGED <<situation, entries, answers, claim>>

Next ==
    \/ \E p \in situation.offers : Contribute(p)
    \/ Pin
    \/ \E k \in Keys, m \in AnyMessages : Sign(k, m)
    \/ \E s \in answers, i \in 0 .. Len(Probes) - 1, a \in Answers : Survive(s, i, a)
    \/ \E type \in {"report", "fork"}, r \in Rounds, h \in Heads, n \in 1 .. Len(Probes),
          i \in 0 .. Len(Probes) - 1, sigs \in SUBSET answers :
          File(type, Certificate(r, h, n, i, sigs))
    \/ \E a \in DOMAIN arms : Commit(a) \/ \E row \in Row : AddRow(a, row)

Spec == Init /\ [][Next]_vars

-------------------------------------------------------------------------------
(* Properties. *)

\* The claim as priced today: with it travel the settled answers to what it
\* was answered on.
Today == [head |-> claim.head, count |-> claim.count, survival |-> claim.survival,
          refutations |-> claim.refutations,
          truths |-> [i \in {t.index : t \in claim.survival} |-> Settled(i)]]

Price == PriceClaim(Today)

(* Independence is paid for in correctness (§18b): over any certificate    *)
(* put together from signatures in existence, a divergence shows somebody  *)
(* wrong, and nobody who only ever answered what was drawn, and rightly,   *)
(* is counted wrong, for any round, head, count and index the certificate  *)
(* declares and whatever strangers added to the battery since.             *)
SplitCostsAnError ==
    \A r \in Rounds, h \in Heads, n \in 1 .. Len(Probes), i \in 0 .. Len(Probes) - 1 :
        LET cert == Certificate(r, h, n, i, answers) IN
        DivergenceState(cert) = "diverged" =>
            /\ Wrong(cert) # {}
            /\ Wrong(cert) \cap Honest = {}

(* Coverage cannot be ground out (§18c): a claim covers at most one probe  *)
(* per beacon round in which somebody signed a right answer under the      *)
(* battery it is pinned to, however often, by whomever and under whatever  *)
(* labels answers are entered, whatever probe count the claim declares.    *)
CoverageIsDrawn ==
    Cardinality(Covered(Today)) <= Cardinality({s.over.round : s \in
        {t \in answers : t.over.head = claim.head
                          /\ t.over.answer = Settled(t.over.index)}})

Forks == {r \in claim.refutations : r.type = "fork"}

(* What moves the price (§18c): no report, no answer that nobody entered   *)
(* and no probe that strangers add to the battery, which only ever grows   *)
(* at its end; and nothing lifts a refutation.                             *)
OnlyArtifactsMoveThePrice ==
    [][ /\ AppendOnly(Probes, Probes')
        /\ UNCHANGED <<claim.head, claim.survival, Forks>> => UNCHANGED Price
        /\ Price.state = "refuted" => Price'.state = "refuted" ]_vars

(* The ranking (§18j): an arm leads another only by a probe that every     *)
(* ranked arm answered under signature and on which the other is refuted   *)
(* while it is not, whatever was filed, and against whom, elsewhere.       *)
LeadRestsOnCommonProbe ==
    \A a, b \in DOMAIN Ranked(arms) :
        Ranked(arms)[a] < Ranked(arms)[b] =>
            \E p \in situation.offers :
                /\ \A x \in Rankable(arms) : p \in SettledProbes(arms[x])
                /\ \E row \in arms[b].results : row.probe = p /\ row.refuted
                /\ \A row \in arms[a].results : row.probe = p => ~row.refuted

\* The document in which arm a has no result for probe p.
Without(a, p) == [arms EXCEPT ![a].results = {row \in @ : row.probe # p}]

(* What comparison.py:93 says: refusing to answer cannot improve an arm's  *)
(* rank.  The arm is compared with each other arm, with the answer and     *)
(* without it.                                                             *)
RefusingNeverHelps ==
    \A p \in situation.offers, a, b \in DOMAIN Ranked(arms) :
        LET refused == Ranked(Without(a, p)) IN
        (a \in DOMAIN refused /\ Ranked(arms)[a] >= Ranked(arms)[b])
            => refused[a] >= refused[b]
===============================================================================
