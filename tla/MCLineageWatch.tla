---------------------------- MODULE MCLineageWatch ----------------------------
(* Instances of LineageWatch for TLC. *)
EXTENDS LineageWatch

\* Three generations, repeated and left out, shown by an honest server.
Family == [honest |-> TRUE, hashless |-> FALSE, lifetimes |-> {Null},
           maxBirths |-> 3, maxBundle |-> 4, maxClock |-> 0]

\* Births without a content hash among them.
Hashless == [Family EXCEPT !.hashless = TRUE, !.maxBundle = 3]

\* Certificates that run out.
Expiring == [Family EXCEPT !.lifetimes = {0, Null}, !.maxBirths = 2, !.maxBundle = 3,
                           !.maxClock = 1]

\* A bundle that anybody put together.
Hostile == [Expiring EXCEPT !.honest = FALSE, !.maxBundle = 2]

AllScenes == {Family, Hashless, Expiring, Hostile}
===============================================================================
