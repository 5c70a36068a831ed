------------------------------- MODULE Sigchain -------------------------------
(***************************************************************************)
(* The append-only signature chain of an envelope (tools/verify.py), from  *)
(* the first signature to the copies that reach reliers.  Signature i is   *)
(* over the body and the entries before it, so what an entry says of       *)
(* itself and how it is spelt is covered by the signatures after it only.  *)
(* Copies lose entries, are reordered, re-encoded or relabelled on the way. *)
(*                                                                         *)
(* A signature is an id that only the holder of the key makes; what it is  *)
(* over, the canonical bytes (JCS), is the body and the entries before it. *)
(* The definitions every module has are called Chain... here, so that one  *)
(* module can prove about this one and EnvelopeRead together.              *)
(***************************************************************************)
EXTENDS Naturals, Sequences

CONSTANTS
    Body,           \* envelope bodies, all naming one platform-handle issuer
    Key,            \* signing keys
    HandleKey,      \* the key that speaks for the handle
    DomainKey,      \* the platform's own key
    SigId,          \* signature values
    Roles,          \* the roles co-signers sign with
    DomainRoles,    \* those the platform's key signs with
    Unset,          \* an entry without a role
    Provenance,     \* what entries say in evidence_refs and selection_grade
    MaxChain,       \* bound: entries of a chain
    MaxHops         \* bound: alterations on the way

Role == Roles \cup {"issuer", "platform_witness", Unset}

\* The bytes an entry's sig decodes to: a 64-byte low-S signature, its high-S
\* twin, or the former with the recovery byte.
Form == {"low_s", "high_s", "recovery"}

\* The strings of an entry that are not spelt as its signer spelt them and decode
\* to the same bytes: base64url decoding (sig) passes over characters outside the
\* alphabet and trailing bits, base58 decoding (key_id) over trailing space.
Respelt == SUBSET {"sig", "key_id"}

ASSUME SigchainAssumption ==
    /\ HandleKey \in Key /\ DomainKey \in Key
    /\ DomainRoles \subseteq Roles
    /\ Unset # "platform_witness"
    /\ MaxChain \in Nat /\ MaxHops \in Nat

VARIABLES
    signed,     \* signatures made: what they are over and in which entry
    released,   \* the copies the signers let go, one per signature
    copy,       \* the copy under way
    hops,       \* alterations so far
    authorised  \* keys in the DID document of the platform's domain

chainVars == <<signed, released, copy, hops, authorised>>

Entry == [sig: SigId, key: Key, form: Form, respelt: Respelt, role: Role,
          provenance: Provenance]
SignedEnvelope == [body: Body, chain: Seq(Entry)]

\* A signature is over a body and a prefix; its signer put it in an entry.
Signature == [body: Body, prefix: Seq(Entry), entry: Entry]

ChainTypeOK ==
    /\ signed \subseteq Signature
    /\ released \subseteq SignedEnvelope
    /\ copy \in SignedEnvelope
    /\ hops \in 0 .. MaxHops
    /\ authorised \subseteq Key

Prefix(chain, i) == SubSeq(chain, 1, i - 1)

\* Mutant: no low-S rule.
Verifies_AnyForm(e, body, prefix) ==
    \E s \in signed : /\ s.entry.sig = e.sig /\ s.entry.key = e.key
                      /\ s.body = body /\ s.prefix = prefix

\* _verify_ed25519 and _verify_secp256k1: they look at the bytes that sig and
\* key_id decode to, however those are spelt.
Verifies(e, body, prefix) ==
    /\ e.form = "low_s"
    /\ \E s \in signed : /\ s.entry.sig = e.sig /\ s.entry.key = e.key
                         /\ s.body = body /\ s.prefix = prefix

\* Mutant: the issuer's entry is enough.
CheckSigchain_IssuerOnly(env) ==
    /\ env.chain # <<>>
    /\ Verifies(env.chain[1], env.body, <<>>)
    /\ env.chain[1].role \in {Unset, "issuer"}

CheckSigchain(env) ==
    /\ env.chain # <<>>
    /\ \A i \in DOMAIN env.chain :
            Verifies(env.chain[i], env.body, Prefix(env.chain, i))
    /\ env.chain[1].role \in {Unset, "issuer"}

\* check_issuer_binding for a platform-handle issuer whose domain resolves, as
\* verify calls it.  It compares key_id strings: one spelt otherwise than in the
\* domain's document is none of the domain's.
WitnessEntries(env) ==
    {i \in DOMAIN env.chain : env.chain[i].role = "platform_witness"}

Witnesses(env) ==
    {env.chain[i].key : i \in {j \in WitnessEntries(env) :
                                "key_id" \notin env.chain[j].respelt}}

\* Mutant: binds a chain that does not verify.
Binding_Unchecked(env) ==
    IF WitnessEntries(env) = {} THEN "unbindable"
    ELSE IF Witnesses(env) \cap authorised = {} THEN "unverified"
    ELSE "bound"

Binding(env) ==
    IF ~CheckSigchain(env) \/ WitnessEntries(env) = {} THEN "unbindable"
    ELSE IF Witnesses(env) \cap authorised = {} THEN "unverified"
    ELSE "bound"

-------------------------------------------------------------------------------
(* The signers. *)

ChainInit ==
    /\ signed = {} /\ released = {} /\ hops = 0
    /\ copy \in [body: Body, chain: {<<>>}]
    /\ authorised \in SUBSET {DomainKey}

Fresh == SigId \ {s.entry.sig : s \in signed}

\* k signs a copy as it found it and appends its entry.
Sign(k, env, role, prov, id) ==
    LET entry == [sig |-> id, key |-> k, form |-> "low_s", respelt |-> {},
                  role |-> role, provenance |-> prov]
        out   == [env EXCEPT !.chain = Append(@, entry)]
    IN
    /\ id \in Fresh
    /\ Len(env.chain) < MaxChain
    /\ signed' = signed \cup {[body |-> env.body, prefix |-> env.chain,
                               entry |-> entry]}
    /\ released' = released \cup {out}
    /\ copy' = out
    /\ UNCHANGED <<hops, authorised>>

Issue(k, b, prov, id) ==
    /\ k # DomainKey
    /\ Sign(k, [body |-> b, chain |-> <<>>], "issuer", prov, id)

\* A custodian or countersignatory signs whatever copy it was handed.
Cosign(k, role, prov, id) ==
    /\ copy.chain # <<>>
    /\ role \in (IF k = DomainKey THEN DomainRoles ELSE Roles)
    /\ Sign(k, copy, role, prov, id)

\* The platform vouches for a chain it has verified, begun by the key it knows.
Vouch(prov, id) ==
    /\ CheckSigchain(copy)
    /\ copy.chain[1].key = HandleKey
    /\ Sign(DomainKey, copy, "platform_witness", prov, id)

\* The domain's DID document gains or loses the platform's key.
PublishKeys(keys) ==
    /\ authorised' = keys
    /\ UNCHANGED <<signed, released, copy, hops>>

-------------------------------------------------------------------------------
(* The way to a relier: another body, entries missing, swapped, re-encoded, *)
(* respelt, attributed to another key or relabelled.                        *)

Without(chain, i) == Prefix(chain, i) \o SubSeq(chain, i + 1, Len(chain))
Swapped(chain, i, j) == [chain EXCEPT ![i] = chain[j], ![j] = chain[i]]

Altered(env) ==
    LET D == DOMAIN env.chain IN
    {[env EXCEPT !.body = b] : b \in Body}
        \cup {[env EXCEPT !.chain = Without(@, i)] : i \in D}
        \cup {[env EXCEPT !.chain = Swapped(@, i, j)] : i, j \in D}
        \cup {[env EXCEPT !.chain[i].form = f] : i \in D, f \in Form}
        \cup {[env EXCEPT !.chain[i].respelt = t] : i \in D, t \in Respelt}
        \cup {[env EXCEPT !.chain[i].key = k] : i \in D, k \in Key}
        \cup {[env EXCEPT !.chain[i].role = r] : i \in D, r \in Role}
        \cup {[env EXCEPT !.chain[i].provenance = p] : i \in D, p \in Provenance}

\* The copy under way is altered, or another released copy goes out.
Alter(altered) ==
    /\ hops < MaxHops
    /\ copy' = altered /\ hops' = hops + 1
    /\ UNCHANGED <<signed, released, authorised>>

Send(env) ==
    /\ copy' = env
    /\ UNCHANGED <<signed, released, hops, authorised>>

ChainNext ==
    \/ \E k \in Key, b \in Body, prov \in Provenance, id \in Fresh :
            Issue(k, b, prov, id)
    \/ \E k \in Key, role \in Roles, prov \in Provenance, id \in Fresh :
            Cosign(k, role, prov, id)
    \/ \E prov \in Provenance, id \in Fresh : Vouch(prov, id)
    \/ \E keys \in SUBSET {DomainKey} : PublishKeys(keys)
    \/ \E altered \in Altered(copy) : Alter(altered)
    \/ \E env \in released : Send(env)

ChainSpec == ChainInit /\ [][ChainNext]_chainVars

-------------------------------------------------------------------------------
(* What a relier may conclude. *)

\* The same chain but for what the last entry says of itself (its role, its
\* evidence_refs, its selection_grade) and how it spells its signature and key.
SameSignatures(a, b) ==
    LET n == Len(a) IN
    /\ Len(b) = n
    /\ Prefix(a, n) = Prefix(b, n)
    /\ a[n].sig = b[n].sig /\ a[n].form = b[n].form /\ a[n].key = b[n].key

\* A chain that verifies is one its last signer released: the same body, the same
\* entries in the same order, all but the last to the letter, and in the last
\* one the signature its signer made.  Nothing before the last entry was dropped,
\* reordered, re-encoded, respelt or relabelled, however many hands the copy
\* went through.
AcceptedWasReleased ==
    CheckSigchain(copy) =>
        \E r \in released :
            r.body = copy.body /\ SameSignatures(copy.chain, r.chain)

\* "The trust root is the domain": a bound verdict means the issuer key signed
\* this body and an authorised key signed it over the issuer key's entry.
BoundMeansCosigned ==
    Binding(copy) = "bound" =>
        /\ \E s \in signed : s.entry.key = copy.chain[1].key
                             /\ s.body = copy.body /\ s.prefix = <<>>
        /\ \E s \in signed : /\ s.entry.key \in authorised /\ s.body = copy.body
                             /\ s.prefix # <<>> /\ s.prefix[1] = copy.chain[1]

\* When the platform's key signs nothing but vouchers, a bound handle is the
\* handle of the key that signed: no other key's chain can be made to bind.
BoundMeansHandleKey ==
    Binding(copy) = "bound" => copy.chain[1].key = HandleKey
===============================================================================
