------------------------------- MODULE Ordering -------------------------------
(***************************************************************************)
(* tools/ordering.py (section 16): the verdict a relier folds out of the   *)
(* list of receipts it happens to hold.  A receipt names the receipt it    *)
(* follows over the same subject (prev, Null for the first) and commits    *)
(* its own beacon round.  Everything here is a function of the list; who   *)
(* holds which list, and when, is ReceiptGossip.                           *)
(***************************************************************************)
EXTENDS Naturals, Sequences, FiniteSets

CONSTANTS
    Id,         \* receipt ids (content hashes)
    Subject,    \* what receipts are about
    Round,      \* values a beacon_round field can hold: ints and labels
    RoundKey,   \* _round_key: the place of a round in the order the code uses
    Null        \* JSON null

(***************************************************************************)
(* _round_key orders ints by value and every label after every int.  Only  *)
(* the order matters, so it is a rank; two spellings of one int ("7" and   *)
(* 7) are two members of Round with one rank.                              *)
(***************************************************************************)
ASSUME OrderingAssumption == Null \notin Id /\ RoundKey \in [Round -> Nat]

Receipt == [id: Id, subject: Subject, prev: Id \cup {Null}, round: Round]

States == {"ordered", "forked", "backdated", "broken"}

Key(rs, i) == RoundKey[rs[i].round]

\* by_subject: the positions of rs that hold a receipt over s.
BySubject(rs, s) == {i \in DOMAIN rs : rs[i].subject = s}

Ids(rs, s) == {rs[i].id : i \in BySubject(rs, s)}

\* Mutant: the first receipt's null prev counts as unresolved.
Dangling_NullCounts(rs, s) == {i \in BySubject(rs, s) : rs[i].prev \notin Ids(rs, s)}

\* (1) links that resolve to no receipt over the subject.
Dangling(rs, s) ==
    {i \in BySubject(rs, s) : rs[i].prev # Null /\ rs[i].prev \notin Ids(rs, s)}

\* Mutant: two receipts that both claim to be first are let through.
Forks_NonNullOnly(rs, s) ==
    {i \in BySubject(rs, s) :
        \E j \in BySubject(rs, s) :
            j # i /\ rs[j].prev = rs[i].prev /\ rs[j].prev # Null}

\* Mutant: only receipts of one round can contradict each other.
Forks_SameRound(rs, s) ==
    {i \in BySubject(rs, s) :
        \E j \in BySubject(rs, s) :
            j # i /\ rs[j].prev = rs[i].prev /\ Key(rs, j) = Key(rs, i)}

\* (2) positions that claim the same place: the same prev, or both first.
Forks(rs, s) ==
    {i \in BySubject(rs, s) :
        \E j \in BySubject(rs, s) : j # i /\ rs[j].prev = rs[i].prev}

\* by_id: the dict comprehension keeps the last receipt that carries an id.
ById(rs, s, p) ==
    CHOOSE i \in BySubject(rs, s) :
        /\ rs[i].id = p
        /\ \A j \in BySubject(rs, s) : rs[j].id = p => j <= i

\* Mutant: a round equal to the round of the prev passes.
Backdates_Strict(rs, s) ==
    {i \in BySubject(rs, s) :
        /\ rs[i].prev \in Ids(rs, s)
        /\ Key(rs, i) < Key(rs, ById(rs, s, rs[i].prev))}

\* Mutant: rounds are compared along the list instead of along prev.
Backdates_ListOrder(rs, s) ==
    {i \in BySubject(rs, s) :
        \E j \in BySubject(rs, s) : j < i /\ Key(rs, i) <= Key(rs, j)}

\* (3) receipts whose round is not strictly after the round of their prev.
Backdates(rs, s) ==
    {i \in BySubject(rs, s) :
        /\ rs[i].prev \in Ids(rs, s)
        /\ Key(rs, i) <= Key(rs, ById(rs, s, rs[i].prev))}

\* Mutant: a broken link overrides a fork.
SubjectState_BrokenWins(rs, s) ==
    IF Dangling(rs, s) # {} THEN "broken"
    ELSE IF Forks(rs, s) # {} THEN "forked"
    ELSE IF Backdates(rs, s) # {} THEN "backdated"
    ELSE "ordered"

\* The per-subject cascade: a fork overrides a broken link, which overrides
\* a backdate.
SubjectState(rs, s) ==
    IF Forks(rs, s) # {} THEN "forked"
    ELSE IF Dangling(rs, s) # {} THEN "broken"
    ELSE IF Backdates(rs, s) # {} THEN "backdated"
    ELSE "ordered"

Severity == [broken |-> 3, forked |-> 3, backdated |-> 2, ordered |-> 0]

\* Mutant: the last subject's state replaces the verdict unconditionally.
RolledState_LastWins(rs) ==
    IF rs = <<>> THEN "ordered" ELSE SubjectState(rs, rs[Len(rs)].subject)

\* The roll-up scans the subjects in the order they first appear and replaces
\* its verdict on a strictly worse one only: the first of the worst wins.
RolledState(rs) ==
    LET state == [i \in DOMAIN rs |-> SubjectState(rs, rs[i].subject)]
        Worst == {i \in DOMAIN rs :
                    \A j \in DOMAIN rs : Severity[state[j]] <= Severity[state[i]]}
    IN  IF rs = <<>> THEN "ordered"
        ELSE state[CHOOSE i \in Worst : \A j \in Worst : i <= j]
===============================================================================
