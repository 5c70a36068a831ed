------------------------------ MODULE LineageWatch ------------------------------
(***************************************************************************)
(* A family and what is shown of it.  Generations are born of earlier ones *)
(* and certified, certificates expire, births are revoked, and a bundle is *)
(* put together out of some of them, in any order and as often as whoever  *)
(* assembles it likes, to be read at any time.  An honest server writes    *)
(* next to each certificate what it finds itself; anybody else writes what *)
(* he likes, and alters certificates.                                      *)
(***************************************************************************)
EXTENDS Lineage

(***************************************************************************)
(* The scenes considered, one of which holds throughout a behaviour:       *)
(* honest (the server), hashless (births may go without a content hash),   *)
(* lifetimes (of certificates, or Null), and three bounds: maxBirths,      *)
(* maxBundle and maxClock.                                                 *)
(***************************************************************************)
CONSTANT Scenes

Certificate == [birth : Nat, child : Nat \cup {Null}, parents : SUBSET Nat,
                until : Nat \cup {Null}, genuine : BOOLEAN]

ASSUME ScenesAssumption ==
    /\ Null \notin Nat \cup BOOLEAN \cup Certificate
    /\ \A s \in Scenes :
        /\ {s.honest, s.hashless} \subseteq BOOLEAN
        /\ s.lifetimes \subseteq Nat \cup {Null}
        /\ {s.maxBirths, s.maxBundle, s.maxClock} \subseteq Nat

VARIABLES
    scene,
    clock,
    births,     \* the certificates issued, in the order of birth
    revoked,    \* the births revoked
    bundle,     \* the bundle, from its subject on
    known       \* the births revoked when its assembly began

vars == <<scene, clock, births, revoked, bundle, known>>

Generation == [cert : Certificate \cup {Null}, revoked : BOOLEAN,
               advisory : BOOLEAN \cup {Null}]

TypeOK ==
    /\ scene \in Scenes
    /\ clock \in 0 .. scene.maxClock
    /\ births \in Seq(Certificate)
    /\ revoked \subseteq DOMAIN births /\ known \subseteq DOMAIN births
    /\ bundle \in Seq(Generation)

Init ==
    /\ scene \in Scenes
    /\ clock = 0
    /\ births = <<>> /\ revoked = {}
    /\ bundle = <<>> /\ known = {}

-------------------------------------------------------------------------------
(* The family. *)

\* A generation is born of earlier ones; its evidence names the memories that it
\* got byte by byte, its own is like none before.
Birth(parents, hashed, life) ==
    LET n == Len(births) + 1 IN
    /\ n <= scene.maxBirths
    /\ hashed \/ scene.hashless
    /\ births' = Append(births,
            [birth |-> n, child |-> IF hashed THEN n ELSE Null, parents |-> parents,
             until |-> IF life = Null THEN Null ELSE clock + life, genuine |-> TRUE])
    /\ UNCHANGED <<scene, clock, revoked, bundle, known>>

Revoke(b) ==
    /\ revoked' = revoked \cup {b}
    /\ UNCHANGED <<scene, clock, births, bundle, known>>

Tick ==
    /\ clock < scene.maxClock
    /\ clock' = clock + 1
    /\ UNCHANGED <<scene, births, revoked, bundle, known>>

-------------------------------------------------------------------------------
(* The bundle. *)

Include(generation) ==
    /\ Len(bundle) < scene.maxBundle
    /\ bundle' = Append(bundle, generation)
    /\ known' = IF bundle = <<>> THEN revoked ELSE known
    /\ UNCHANGED <<scene, clock, births, revoked>>

\* The server enters a birth with the registry's flag and, or not, its verdict.
Serve(b, advised) ==
    /\ scene.honest
    /\ Include([cert |-> births[b], revoked |-> b \in revoked,
                advisory |-> IF advised THEN Verifies(births[b], clock) ELSE Null])

\* A certificate rewritten to name every ancestor.
Altered(b) == [births[b] EXCEPT !.parents = DOMAIN births, !.genuine = FALSE]

\* Anybody else enters what he likes.
Forge(cert, advisory) ==
    /\ ~scene.honest
    /\ Include([cert |-> cert, revoked |-> FALSE, advisory |-> advisory])

Next ==
    \/ \E parents \in SUBSET {b \in DOMAIN births : births[b].child # Null},
          hashed \in BOOLEAN, life \in scene.lifetimes : Birth(parents, hashed, life)
    \/ \E b \in DOMAIN births : Revoke(b)
    \/ Tick
    \/ \E b \in DOMAIN births, advised \in BOOLEAN : Serve(b, advised)
    \/ \E b \in DOMAIN births : \E cert \in {births[b], Altered(b), Null},
          advisory \in BOOLEAN \cup {Null} : Forge(cert, advisory)

Spec == Init /\ [][Next]_vars

-------------------------------------------------------------------------------
(* Properties. *)

Accepted == VerifyBundle(bundle, clock)

Included == {bundle[i].cert.birth : i \in DOMAIN bundle}
Named == {b \in Included : births[b].child # Null}

(* An accepted bundle shows one line (docs/lineage-verification.md), when  *)
(* births name earlier births only: its certificates were issued so and    *)
(* are in date, none of those an honest server showed had been revoked     *)
(* when it began, and however generations were chosen, repeated and        *)
(* ordered, no group of ancestors stands apart: each has a member born     *)
(* into a generation outside of it, so that who follows the descendants    *)
(* comes to the subject, or to a claim without a hash.                     *)
AcceptedIsDescent ==
    Accepted =>
        /\ \A i \in DOMAIN bundle :
            LET cert == bundle[i].cert IN
            /\ cert.birth \in DOMAIN births /\ cert = births[cert.birth]
            /\ cert.until # Null => clock <= cert.until
        /\ scene.honest => Included \cap known = {}
        /\ \A group \in (SUBSET (Named \ {bundle[1].cert.birth})) \ {{}} :
            \E b \in group, d \in Included \ group : b \in births[d].parents

(* "The divergence is the signal": nobody can bring about one against an   *)
(* honest server, whose bundles are read at any later time, but by waiting *)
(* until a certificate has run out.                                        *)
DivergenceIsExpiry ==
    scene.honest =>
        \A i \in Divergent(bundle, clock) :
            bundle[i].cert.until # Null /\ bundle[i].cert.until < clock
===============================================================================
