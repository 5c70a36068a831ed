----------------------------- MODULE ForkEvidence -----------------------------
(***************************************************************************)
(* What section 16 promises, without lists, links or folding: evidence is  *)
(* a set that only grows, and an emitter stands convicted before a holder  *)
(* from the moment that holder has seen both halves of a contradiction.    *)
(***************************************************************************)
CONSTANTS Holder, Receipt

VARIABLES
    seen,       \* seen[h]: the receipts holder h has ever had
    convicted   \* convicted[h]: the subjects h can prove equivocation over

Contradicts(q, r) == q # r /\ q.subject = r.subject /\ q.prev = r.prev

Init ==
    /\ seen = [h \in Holder |-> {}]
    /\ convicted = [h \in Holder |-> {}]

Learn(h, r) ==
    /\ seen' = [seen EXCEPT ![h] = @ \cup {r}]
    /\ convicted' = [convicted EXCEPT ![h] =
            @ \cup {r.subject : q \in {p \in seen[h] : Contradicts(p, r)}}]

Next == \E h \in Holder, r \in Receipt : Learn(h, r)

Spec == Init /\ [][Next]_<<seen, convicted>>
===============================================================================
