--------------------------- MODULE MCReceiptGossip ---------------------------
(* Instances of ReceiptGossip for TLC. *)
EXTENDS ReceiptGossip, TLC

CONSTANTS i1, i2, i3, i4        \* receipt ids
CONSTANTS Alice, Mallory        \* subjects
CONSTANTS h1, h2                \* holders

\* Two beacon rounds and an anchor label, which sorts after every int.
ThreeRounds == {"1", "2", "ots"}
RankOfThree == [r \in ThreeRounds |->
                    CASE r = "1" -> 1 [] r = "2" -> 2 [] r = "ots" -> 3]

\* Ids are opaque, so they can be exchanged; so can the holders.
Exchangeable == Permutations({i1, i2, i3, i4}) \cup Permutations({h1, h2})
===============================================================================
