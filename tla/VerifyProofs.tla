----------------------------- MODULE VerifyProofs -----------------------------
(***************************************************************************)
(* Theorems about the two halves of tools/verify.py.  About Sigchain: for  *)
(* every set of bodies, keys, roles and signatures, for chains of every    *)
(* length and any number of alterations on the way.  About EnvelopeRead:   *)
(* for every set of envelopes, however long the clock runs and however     *)
(* often the world changes under a read.                                   *)
(***************************************************************************)
EXTENDS Sigchain, EnvelopeRead, TLAPS, SequenceTheorems

-------------------------------------------------------------------------------
(* Types. *)

\* The entries before the i-th.
LEMMA PrefixProperties ==
  ASSUME NEW chain \in Seq(Entry), NEW i \in 1 .. Len(chain) + 1
  PROVE  /\ Prefix(chain, i) \in Seq(Entry)
         /\ Len(Prefix(chain, i)) = i - 1
         /\ \A j \in 1 .. i - 1 : Prefix(chain, i)[j] = chain[j]
<1>1. Len(chain) \in Nat
  OBVIOUS
<1>2. i - 1 \in Int /\ 1 \in Int
  BY <1>1
<1>3. \A j \in 1 .. i - 1 : chain[j] \in Entry
  BY <1>1, ElementOfSeq
<1>4. /\ SubSeq(chain, 1, i - 1) \in Seq(Entry)
      /\ Len(SubSeq(chain, 1, i - 1)) = IF 1 <= i - 1 THEN (i - 1) - 1 + 1 ELSE 0
      /\ \A j \in 1 .. (i - 1) - 1 + 1 : SubSeq(chain, 1, i - 1)[j] = chain[1 + j - 1]
  BY <1>2, <1>3, SubSeqProperties
<1> QED
  BY <1>1, <1>4 DEF Prefix

\* Whatever happens to an envelope on its way, it stays an envelope.
LEMMA AlteredIsEnvelope ==
  ASSUME NEW doc \in SignedEnvelope, NEW altered \in Altered(doc)
  PROVE  altered \in SignedEnvelope
<1> DEFINE D == DOMAIN doc.chain
<1>1. doc.chain \in Seq(Entry) /\ D = 1 .. Len(doc.chain) /\ Len(doc.chain) \in Nat
  BY DEF SignedEnvelope
<1>2. CASE \E b \in Body : altered = [doc EXCEPT !.body = b]
  BY <1>2 DEF SignedEnvelope
<1>3. ASSUME NEW i \in D, altered = [doc EXCEPT !.chain = Without(@, i)]
      PROVE  altered \in SignedEnvelope
  <2>1. Prefix(doc.chain, i) \in Seq(Entry)
    BY <1>1, PrefixProperties
  <2>2. SubSeq(doc.chain, i + 1, Len(doc.chain)) \in Seq(Entry)
    <3>1. \A j \in i + 1 .. Len(doc.chain) : doc.chain[j] \in Entry
      BY <1>1, ElementOfSeq
    <3> QED
      BY <1>1, <3>1, SubSeqProperties
  <2>3. Without(doc.chain, i) \in Seq(Entry)
    BY <2>1, <2>2, ConcatProperties DEF Without
  <2> QED
    BY <1>3, <2>3 DEF SignedEnvelope
<1>4. ASSUME NEW i \in D, NEW j \in D, altered = [doc EXCEPT !.chain = Swapped(@, i, j)]
      PROVE  altered \in SignedEnvelope
  <2>1. doc.chain[i] \in Entry /\ doc.chain[j] \in Entry
    BY <1>1, ElementOfSeq
  <2>2. Swapped(doc.chain, i, j) \in Seq(Entry)
    BY <1>1, <2>1 DEF Swapped
  <2> QED
    BY <1>4, <2>2 DEF SignedEnvelope
<1>5. ASSUME NEW i \in D, NEW e \in Entry, altered = [doc EXCEPT !.chain[i] = e]
      PROVE  altered \in SignedEnvelope
  <2>1. [doc.chain EXCEPT ![i] = e] \in Seq(Entry)
    BY <1>1, ExceptSeq
  <2> QED
    BY <1>5, <2>1 DEF SignedEnvelope
<1>6. ASSUME NEW i \in D, NEW f \in Form, altered = [doc EXCEPT !.chain[i].form = f]
      PROVE  altered \in SignedEnvelope
  <2>1. doc.chain[i] \in Entry
    BY <1>1, ElementOfSeq
  <2>2. [doc.chain[i] EXCEPT !.form = f] \in Entry
    BY <2>1 DEF Entry
  <2> QED
    BY <1>5, <1>6, <2>2
<1>7. ASSUME NEW i \in D, NEW k \in Key, altered = [doc EXCEPT !.chain[i].key = k]
      PROVE  altered \in SignedEnvelope
  <2>1. doc.chain[i] \in Entry
    BY <1>1, ElementOfSeq
  <2>2. [doc.chain[i] EXCEPT !.key = k] \in Entry
    BY <2>1 DEF Entry
  <2> QED
    BY <1>5, <1>7, <2>2
<1>8. ASSUME NEW i \in D, NEW r \in Role, altered = [doc EXCEPT !.chain[i].role = r]
      PROVE  altered \in SignedEnvelope
  <2>1. doc.chain[i] \in Entry
    BY <1>1, ElementOfSeq
  <2>2. [doc.chain[i] EXCEPT !.role = r] \in Entry
    BY <2>1 DEF Entry
  <2> QED
    BY <1>5, <1>8, <2>2
<1>9. ASSUME NEW i \in D, NEW t \in Respelt, altered = [doc EXCEPT !.chain[i].respelt = t]
      PROVE  altered \in SignedEnvelope
  <2>1. doc.chain[i] \in Entry
    BY <1>1, ElementOfSeq
  <2>2. [doc.chain[i] EXCEPT !.respelt = t] \in Entry
    BY <2>1 DEF Entry
  <2> QED
    BY <1>5, <1>9, <2>2
<1>10. ASSUME NEW i \in D, NEW v \in Provenance,
              altered = [doc EXCEPT !.chain[i].provenance = v]
       PROVE  altered \in SignedEnvelope
  <2>1. doc.chain[i] \in Entry
    BY <1>1, ElementOfSeq
  <2>2. [doc.chain[i] EXCEPT !.provenance = v] \in Entry
    BY <2>1 DEF Entry
  <2> QED
    BY <1>5, <1>10, <2>2
<1> QED
  BY <1>2, <1>3, <1>4, <1>6, <1>7, <1>8, <1>9, <1>10 DEF Altered

\* What a signer adds is well typed, and the copy it lets go is the copy it had
\* with one entry more.
LEMMA SignTypes ==
  ASSUME ChainTypeOK, NEW k \in Key, NEW doc \in SignedEnvelope, NEW role \in Role,
         NEW prov \in Provenance, NEW id \in SigId, Sign(k, doc, role, prov, id)
  PROVE  ChainTypeOK'
<1> DEFINE entry == [sig |-> id, key |-> k, form |-> "low_s", respelt |-> {},
                     role |-> role, provenance |-> prov]
           out   == [doc EXCEPT !.chain = Append(@, entry)]
<1>1. entry \in Entry
  BY DEF Entry, Form, Respelt
<1>2. out \in SignedEnvelope
  BY <1>1, AppendProperties DEF SignedEnvelope
<1>3. [body |-> doc.body, prefix |-> doc.chain, entry |-> entry] \in Signature
  BY <1>1 DEF Signature, SignedEnvelope
<1> QED
  BY <1>2, <1>3 DEF ChainTypeOK, Sign

\* Every action that signs is a Sign of an envelope in some role.
LEMMA Signings ==
  ASSUME ChainTypeOK, ChainNext
  PROVE  \/ \E k \in Key, doc \in SignedEnvelope, role \in Role, prov \in Provenance,
            id \in SigId :
               /\ Sign(k, doc, role, prov, id)
               /\ \/ k # DomainKey
                  \/ role \in DomainRoles
                  \/ doc.chain # <<>> /\ doc.chain[1].key = HandleKey
         \/ /\ UNCHANGED <<signed, released>>
            /\ copy' \in SignedEnvelope /\ hops' \in 0 .. MaxHops
            /\ authorised' \in {authorised} \cup SUBSET {DomainKey}
<1>1. ASSUME NEW k \in Key, NEW b \in Body, NEW prov \in Provenance, NEW id \in Fresh,
             Issue(k, b, prov, id)
      PROVE  \E doc \in SignedEnvelope, role \in Role :
                 Sign(k, doc, role, prov, id) /\ k # DomainKey
  <2>1. [body |-> b, chain |-> <<>>] \in SignedEnvelope
    BY EmptySeq DEF SignedEnvelope
  <2>2. "issuer" \in Role
    BY DEF Role
  <2> QED
    BY <1>1, <2>1, <2>2 DEF Issue
<1>2. ASSUME NEW k \in Key, NEW role \in Roles, NEW prov \in Provenance, NEW id \in Fresh,
             Cosign(k, role, prov, id)
      PROVE  /\ role \in Role /\ copy \in SignedEnvelope
             /\ Sign(k, copy, role, prov, id) /\ (k # DomainKey \/ role \in DomainRoles)
  BY <1>2 DEF Cosign, Role, ChainTypeOK
<1>3. ASSUME NEW prov \in Provenance, NEW id \in Fresh, Vouch(prov, id)
      PROVE  /\ "platform_witness" \in Role /\ copy \in SignedEnvelope /\ DomainKey \in Key
             /\ Sign(DomainKey, copy, "platform_witness", prov, id)
             /\ copy.chain # <<>> /\ copy.chain[1].key = HandleKey
  BY <1>3, SigchainAssumption DEF Vouch, Role, ChainTypeOK, CheckSigchain
<1>4. ASSUME NEW keys \in SUBSET {DomainKey}, PublishKeys(keys)
      PROVE  /\ UNCHANGED <<signed, released>>
             /\ copy' \in SignedEnvelope /\ hops' \in 0 .. MaxHops
             /\ authorised' \in {authorised} \cup SUBSET {DomainKey}
  BY <1>4 DEF PublishKeys, ChainTypeOK
<1>5. ASSUME NEW altered \in Altered(copy), Alter(altered)
      PROVE  /\ UNCHANGED <<signed, released>>
             /\ copy' \in SignedEnvelope /\ hops' \in 0 .. MaxHops
             /\ authorised' \in {authorised} \cup SUBSET {DomainKey}
  <2>1. copy' \in SignedEnvelope
    BY <1>5, AlteredIsEnvelope DEF ChainTypeOK, Alter
  <2>2. hops' \in 0 .. MaxHops
    BY <1>5, SigchainAssumption DEF ChainTypeOK, Alter
  <2> QED
    BY <1>5, <2>1, <2>2 DEF Alter
<1>6. ASSUME NEW doc \in released, Send(doc)
      PROVE  /\ UNCHANGED <<signed, released>>
             /\ copy' \in SignedEnvelope /\ hops' \in 0 .. MaxHops
             /\ authorised' \in {authorised} \cup SUBSET {DomainKey}
  BY <1>6 DEF Send, ChainTypeOK
<1>7. \A id \in Fresh : id \in SigId
  BY DEF Fresh
<1> DEFINE Signing ==
      \E k \in Key, doc \in SignedEnvelope, role \in Role, prov \in Provenance,
         id \in SigId :
         /\ Sign(k, doc, role, prov, id)
         /\ \/ k # DomainKey
            \/ role \in DomainRoles
            \/ doc.chain # <<>> /\ doc.chain[1].key = HandleKey
<1>8. CASE \E k \in Key, b \in Body, prov \in Provenance, id \in Fresh : Issue(k, b, prov, id)
  <2>1. Signing
    BY <1>1, <1>7, <1>8
  <2> QED
    BY <2>1
<1>9. CASE \E k \in Key, role \in Roles, prov \in Provenance, id \in Fresh :
               Cosign(k, role, prov, id)
  <2>1. Signing
    BY <1>2, <1>7, <1>9
  <2> QED
    BY <2>1
<1>10. CASE \E prov \in Provenance, id \in Fresh : Vouch(prov, id)
  <2>1. Signing
    BY <1>3, <1>7, <1>10
  <2> QED
    BY <2>1
<1> QED
  BY <1>4, <1>5, <1>6, <1>8, <1>9, <1>10 DEF ChainNext

\* Every reachable state is well typed.
THEOREM SigchainTypes == ChainSpec => []ChainTypeOK
<1>1. ChainInit => ChainTypeOK
  <2> SUFFICES ASSUME ChainInit PROVE ChainTypeOK
    OBVIOUS
  <2>1. copy \in SignedEnvelope
    <3>1. <<>> \in Seq(Entry)
      BY EmptySeq
    <3> QED
      BY <3>1 DEF ChainInit, SignedEnvelope
  <2>2. hops \in 0 .. MaxHops
    BY SigchainAssumption DEF ChainInit
  <2> QED
    BY <2>1, <2>2, SigchainAssumption DEF ChainInit, ChainTypeOK
<1>2. ChainTypeOK /\ [ChainNext]_chainVars => ChainTypeOK'
  <2> SUFFICES ASSUME ChainTypeOK, [ChainNext]_chainVars PROVE ChainTypeOK'
    OBVIOUS
  <2>1. CASE UNCHANGED chainVars
    BY <2>1 DEF ChainTypeOK, chainVars
  <2>2. CASE ChainNext
    <3>1. ASSUME NEW k \in Key, NEW doc \in SignedEnvelope, NEW role \in Role,
                 NEW prov \in Provenance, NEW id \in SigId, Sign(k, doc, role, prov, id)
          PROVE  ChainTypeOK'
      BY <3>1, SignTypes
    <3>2. CASE /\ UNCHANGED <<signed, released>>
               /\ copy' \in SignedEnvelope /\ hops' \in 0 .. MaxHops
               /\ authorised' \in {authorised} \cup SUBSET {DomainKey}
      BY <3>2, SigchainAssumption DEF ChainTypeOK
    <3> QED
      BY <2>2, <3>1, <3>2, Signings
  <2> QED
    BY <2>1, <2>2
<1> QED
  BY <1>1, <1>2, PTL DEF ChainSpec

-------------------------------------------------------------------------------
(* What a chain that verifies proves. *)

\* Every entry of a chain that verifies rests on a signature by its key over
\* exactly what stands before it.
LEMMA EntriesAreSigned ==
  ASSUME ChainTypeOK, CheckSigchain(copy)
  PROVE  /\ copy.chain \in Seq(Entry) /\ Len(copy.chain) \in Nat \ {0}
         /\ \A i \in 1 .. Len(copy.chain) :
               /\ copy.chain[i] \in Entry
               /\ copy.chain[i].form = "low_s"
               /\ \E s \in signed : /\ s.entry.sig = copy.chain[i].sig
                                    /\ s.entry.key = copy.chain[i].key
                                    /\ s.body = copy.body
                                    /\ s.prefix = Prefix(copy.chain, i)
<1>1. copy.chain \in Seq(Entry) /\ copy.chain # <<>>
  BY DEF ChainTypeOK, SignedEnvelope, CheckSigchain
<1>2. Len(copy.chain) \in Nat \ {0}
  BY <1>1, EmptySeq
<1>3. \A i \in 1 .. Len(copy.chain) :
          copy.chain[i] \in Entry /\ Verifies(copy.chain[i], copy.body, Prefix(copy.chain, i))
  BY <1>1, ElementOfSeq DEF CheckSigchain
<1> QED
  BY <1>1, <1>2, <1>3 DEF Verifies

\* What ties the signatures to the copies their signers let go: the entry a
\* signer made, low-S as every signer makes it, stands last in one of them.
Tied ==
    \A s \in signed :
        /\ s.entry.form = "low_s"
        /\ \E r \in released : r.body = s.body /\ r.chain = Append(s.prefix, s.entry)

LEMMA TiedHolds == ChainSpec => []Tied
<1>1. ChainInit => Tied
  BY DEF ChainInit, Tied
<1>2. ChainTypeOK /\ Tied /\ [ChainNext]_chainVars => Tied'
  <2> SUFFICES ASSUME ChainTypeOK, Tied, [ChainNext]_chainVars PROVE Tied'
    OBVIOUS
  <2>1. CASE UNCHANGED <<signed, released>>
    BY <2>1 DEF Tied
  <2>2. ASSUME NEW k \in Key, NEW doc \in SignedEnvelope, NEW role \in Role,
               NEW prov \in Provenance, NEW id \in SigId, Sign(k, doc, role, prov, id)
        PROVE  Tied'
    <3> DEFINE entry == [sig |-> id, key |-> k, form |-> "low_s", respelt |-> {},
                         role |-> role, provenance |-> prov]
               out   == [doc EXCEPT !.chain = Append(@, entry)]
               new   == [body |-> doc.body, prefix |-> doc.chain, entry |-> entry]
    <3>1. signed' = signed \cup {new} /\ released' = released \cup {out}
      BY <2>2 DEF Sign
    <3>2. out.body = doc.body /\ out.chain = Append(doc.chain, entry)
      BY DEF SignedEnvelope
    <3>3. /\ out.body = new.body
          /\ out.chain = Append(new.prefix, new.entry)
          /\ new.entry.form = "low_s"
      BY <3>2
    <3> HIDE DEF out, new
    <3> QED
      BY <3>1, <3>3 DEF Tied
  <2>3. CASE UNCHANGED chainVars
    BY <2>1, <2>3 DEF chainVars
  <2> QED
    BY <2>1, <2>2, <2>3, Signings
<1> QED
  BY <1>1, <1>2, SigchainTypes, PTL DEF ChainSpec

\* A chain that verifies is one its last signer released: the entries before the
\* last to the letter, and in the last one the signature its signer made.  What
\* the last entry says of itself and how it is spelt no signature covers.  It
\* holds whatever was done to the copy on its way, however long the chain is.
THEOREM AcceptedChainsWereReleased == ChainSpec => []AcceptedWasReleased
<1>1. ChainTypeOK /\ Tied => AcceptedWasReleased
  <2> SUFFICES ASSUME ChainTypeOK, Tied, CheckSigchain(copy)
               PROVE  \E r \in released :
                         r.body = copy.body /\ SameSignatures(copy.chain, r.chain)
    BY DEF AcceptedWasReleased
  <2> DEFINE c == copy.chain
             n == Len(copy.chain)
             p == Prefix(copy.chain, Len(copy.chain))
  <2>1. c \in Seq(Entry) /\ n \in Nat \ {0} /\ c[n] \in Entry /\ c[n].form = "low_s"
    BY EntriesAreSigned
  <2>2. PICK s \in signed : /\ s.entry.sig = c[n].sig /\ s.entry.key = c[n].key
                            /\ s.body = copy.body /\ s.prefix = p
    BY <2>1, EntriesAreSigned
  <2> DEFINE e == s.entry
  <2>3. PICK r \in released : r.body = s.body /\ r.chain = Append(s.prefix, e)
    BY <2>2 DEF Tied
  <2>4. e \in Entry /\ e.form = "low_s"
    BY <2>2 DEF ChainTypeOK, Signature, Tied
  <2>5. p \in Seq(Entry) /\ Len(p) = n - 1
    <3>1. n \in 1 .. Len(c) + 1 /\ p = Prefix(c, n)
      BY <2>1
    <3> HIDE DEF c, n, p
    <3> QED
      BY <2>1, <3>1, PrefixProperties
  <2>6. /\ r.chain \in Seq(Entry) /\ Len(r.chain) = n
        /\ \A i \in 1 .. n - 1 : r.chain[i] = p[i]
        /\ r.chain[n] = e
    <3> HIDE DEF e, p
    <3> QED
      BY <2>1, <2>2, <2>3, <2>4, <2>5, AppendProperties
  <2>7. Prefix(r.chain, n) = p
    <3>1. /\ Prefix(r.chain, n) \in Seq(Entry)
          /\ Len(Prefix(r.chain, n)) = n - 1
          /\ \A j \in 1 .. n - 1 : Prefix(r.chain, n)[j] = r.chain[j]
      <4>1. n \in 1 .. Len(r.chain) + 1
        BY <2>1, <2>6
      <4> HIDE DEF n
      <4> QED
        BY <2>6, <4>1, PrefixProperties
    <3> HIDE DEF p
    <3> QED
      BY <2>5, <2>6, <3>1, SeqEqual
  <2>8. c[n].sig = e.sig /\ c[n].form = e.form /\ c[n].key = e.key
    BY <2>1, <2>2, <2>4
  <2>9. SameSignatures(c, r.chain)
    <3> HIDE DEF e
    <3> QED
      BY <2>6, <2>7, <2>8 DEF SameSignatures
  <2> QED
    BY <2>2, <2>3, <2>9
<1> QED
  BY <1>1, SigchainTypes, TiedHolds, PTL

\* A bound verdict over a chain that verifies: the issuer's entry is signed over
\* nothing, and some authorised key signed over the issuer's entry.
LEMMA BoundChains ==
  ASSUME ChainTypeOK, Binding(copy) = "bound"
  PROVE  /\ copy.chain # <<>>
         /\ \E s \in signed : s.entry.key = copy.chain[1].key
                             /\ s.body = copy.body /\ s.prefix = <<>>
         /\ \E s \in signed : /\ s.entry.key \in authorised /\ s.body = copy.body
                             /\ s.prefix # <<>> /\ s.prefix[1] = copy.chain[1]
<1> DEFINE c == copy.chain
<1>1. CheckSigchain(copy) /\ Witnesses(copy) \cap authorised # {}
  BY DEF Binding
<1>2. c \in Seq(Entry) /\ Len(c) \in Nat \ {0} /\ c # <<>>
  BY <1>1, EntriesAreSigned DEF CheckSigchain
<1>3. PICK j \in 1 .. Len(c) : c[j].role = "platform_witness" /\ c[j].key \in authorised
  BY <1>1, <1>2 DEF Witnesses, WitnessEntries
<1>4. j # 1
  BY <1>1, <1>3, SigchainAssumption DEF CheckSigchain
<1>5. PICK s \in signed : s.entry.key = c[1].key /\ s.body = copy.body /\ s.prefix = Prefix(c, 1)
  BY <1>1, <1>2, EntriesAreSigned
<1>6. Prefix(c, 1) = <<>>
  <2>1. SubSeq(c, 1, 0) = <<>>
    BY SubSeqEmpty
  <2> QED
    BY <2>1 DEF Prefix
<1>7. PICK t \in signed : t.entry.key = c[j].key /\ t.body = copy.body /\ t.prefix = Prefix(c, j)
  BY <1>1, <1>3, EntriesAreSigned
<1>8. Prefix(c, j) # <<>> /\ Prefix(c, j)[1] = c[1]
  <2>1. /\ j \in 1 .. Len(c) + 1
        /\ 1 \in 1 .. j - 1
    BY <1>2, <1>3, <1>4
  <2>2. Len(Prefix(c, j)) = j - 1 /\ Prefix(c, j)[1] = c[1]
    <3> HIDE DEF c
    <3> QED
      BY <1>2, <2>1, PrefixProperties
  <2> QED
    BY <2>1, <2>2, EmptySeq
<1> QED
  BY <1>2, <1>3, <1>5, <1>6, <1>7, <1>8

\* A bound verdict means the issuer key signed this body and an authorised key
\* signed it over the issuer key's entry.
THEOREM BoundIsCosigned == ChainSpec => []BoundMeansCosigned
<1>1. ChainTypeOK => BoundMeansCosigned
  BY BoundChains DEF BoundMeansCosigned
<1> QED
  BY <1>1, SigchainTypes, PTL

\* The platform's key signs over chains begun by the handle's key only.
Dedicated ==
    /\ authorised \subseteq {DomainKey}
    /\ \A s \in signed :
          s.entry.key = DomainKey /\ s.prefix # <<>> => s.prefix[1].key = HandleKey

\* When the platform's key signs nothing but vouchers, a bound handle is the
\* handle of the key that signed.
THEOREM BoundIsHandleKey ==
  ASSUME DomainRoles = {}
  PROVE  ChainSpec => []BoundMeansHandleKey
<1>1. ChainInit => Dedicated
  BY DEF ChainInit, Dedicated
<1>2. ChainTypeOK /\ Dedicated /\ [ChainNext]_chainVars => Dedicated'
  <2> SUFFICES ASSUME ChainTypeOK, Dedicated, [ChainNext]_chainVars PROVE Dedicated'
    OBVIOUS
  <2>1. CASE UNCHANGED chainVars
    BY <2>1 DEF Dedicated, chainVars
  <2>2. ASSUME NEW k \in Key, NEW doc \in SignedEnvelope, NEW role \in Role,
               NEW prov \in Provenance, NEW id \in SigId,
               Sign(k, doc, role, prov, id),
               k # DomainKey \/ (doc.chain # <<>> /\ doc.chain[1].key = HandleKey)
        PROVE  Dedicated'
    BY <2>2 DEF Dedicated, Sign
  <2>3. CASE /\ UNCHANGED signed
             /\ authorised' \in {authorised} \cup SUBSET {DomainKey}
    BY <2>3 DEF Dedicated
  <2> QED
    BY <2>1, <2>2, <2>3, Signings
<1>3. ChainTypeOK /\ Dedicated => BoundMeansHandleKey
  BY BoundChains DEF Dedicated, BoundMeansHandleKey
<1> QED
  BY <1>1, <1>2, <1>3, SigchainTypes, PTL DEF ChainSpec

-------------------------------------------------------------------------------
(* What a read rests on. *)

Reading == {"validity", "evidence1", "evidence2", "coverage", "standing"}

\* What the read remembers of the world since it began is there to be seen.
Watching ==
  /\ past.since <= clock
  /\ read.pc \in Reading => intact \subseteq past.good /\ published \in past.published

\* The validity check saw a revocation that was there before, or lost the answer.
ValidityRests ==
  env.model = "revocation_checked" /\ past.revoked =>
    /\ read.pc = "validity" => revoked
    /\ read.pc \in Reading \ {"validity"} /\ read.valid => past.lost
    /\ read.pc = "done" /\ read.accept => past.lost

\* The pointers gone through so far drifted, or had good content to show.
EvidenceRests ==
  /\ read.pc = "evidence2" /\ ~read.drifted => env.pinned \cap {1} \subseteq past.good
  /\ read.pc \in {"coverage", "standing"} /\ ~read.drifted => env.pinned \subseteq past.good
  /\ read.pc = "done" /\ read.accept => env.pinned \subseteq past.good

\* The commitment covered the claim and the inline list at one instant.
Covered ==
  /\ env.inline # Null
  /\ \E types \in past.published : env.inline \cup {env.claim} \subseteq types
CoverageRests ==
  env.claim \in Must =>
    /\ read.pc = "standing" /\ read.coverage # "fail" => Covered
    /\ read.pc = "done" /\ read.accept => Covered

IInv == /\ TypeOK /\ Watching /\ ValidityRests /\ EvidenceRests /\ CoverageRests
        /\ ForeverIsContestable

LEMMA EnvelopeFacts ==
  ASSUME TypeOK
  PROVE  /\ env \in Envelope
         /\ env.pinned \subseteq Pointer
         /\ env.claim \in ClaimType
         /\ env.inline \in (SUBSET ClaimType) \cup {Null}
         /\ env.standing \in [until: Nat, others: Nat] \cup {Null}
         /\ MaxClock \in Nat /\ MaxChanges \in Nat /\ clock \in Nat
BY EnvelopeAssumption DEF TypeOK, Envelope

LEMMA EnvelopeInit == Init => IInv
<1> SUFFICES ASSUME Init PROVE IInv
  OBVIOUS
<1>1. TypeOK
  <2>1. 0 \in 0 .. MaxClock /\ 0 \in 0 .. MaxChanges
    BY EnvelopeAssumption
  <2>2. env \in Envelopes /\ clock \in 0 .. MaxClock /\ changes \in 0 .. MaxChanges
        /\ revoked \in BOOLEAN /\ published \subseteq ClaimType /\ intact \subseteq Pointer
    BY <2>1 DEF Init
  <2>3. past \in [since: 0 .. MaxClock, revoked: BOOLEAN,
                 published: SUBSET SUBSET ClaimType, good: SUBSET Pointer, lost: BOOLEAN]
    BY <2>1 DEF Init, NoPast
  <2>4. read \in [pc: {"idle", "validity", "evidence1", "evidence2", "coverage",
                      "standing", "done", "offline"},
                 valid: BOOLEAN, drifted: BOOLEAN, coverage: {"ok", "warn", "fail"},
                 standing: {"contestable", "monument", "n/a"}, accept: BOOLEAN]
    BY DEF Init, NoRead
  <2> QED
    BY <2>2, <2>3, <2>4 DEF TypeOK
<1>2. past.since = clock /\ read.pc = "idle"
  BY DEF Init, NoPast, NoRead
<1> QED
  BY <1>1, <1>2, EnvelopeAssumption
  DEF Init, IInv, Watching, Reading, ValidityRests, EvidenceRests, CoverageRests,
      ForeverIsContestable

-------------------------------------------------------------------------------
(* The world moves: a read keeps what it rests on. *)

LEMMA ChangeStep ==
  ASSUME IInv, Change,
         revoked => revoked', revoked' \in BOOLEAN,
         published' \subseteq ClaimType, intact' \subseteq Pointer
  PROVE  IInv'
<1>1. /\ past' = [past EXCEPT !.published = @ \cup {published'}, !.good = @ \cup intact']
      /\ env' = env /\ clock' = clock /\ read' = read
      /\ changes' = changes + 1 /\ changes < MaxChanges
  BY DEF Change, Served
<1>2. /\ past'.since = past.since /\ past'.revoked = past.revoked /\ past'.lost = past.lost
      /\ past'.published = past.published \cup {published'}
      /\ past'.good = past.good \cup intact'
  BY <1>1 DEF IInv, TypeOK
<1>3. TypeOK'
  <2>1. changes' \in 0 .. MaxChanges
    BY <1>1, EnvelopeAssumption DEF IInv, TypeOK
  <2>2. past' \in [since: 0 .. MaxClock, revoked: BOOLEAN,
                  published: SUBSET SUBSET ClaimType, good: SUBSET Pointer, lost: BOOLEAN]
    <3>1. past.published \cup {published'} \in SUBSET SUBSET ClaimType
          /\ past.good \cup intact' \in SUBSET Pointer
      BY DEF IInv, TypeOK
    <3> QED
      BY <1>1, <3>1 DEF IInv, TypeOK
  <2> QED
    BY <1>1, <2>1, <2>2 DEF IInv, TypeOK
<1>4. Watching'
  BY <1>1, <1>2 DEF IInv, Watching
<1>5. ValidityRests'
  BY <1>1, <1>2 DEF IInv, ValidityRests
<1>6. EvidenceRests'
  BY <1>1, <1>2 DEF IInv, EvidenceRests
<1>7. CoverageRests'
  BY <1>1, <1>2 DEF IInv, CoverageRests, Covered
<1>8. ForeverIsContestable'
  BY <1>1, <1>2 DEF IInv, ForeverIsContestable
<1> QED
  BY <1>3, <1>4, <1>5, <1>6, <1>7, <1>8 DEF IInv

LEMMA TickStep == IInv /\ Tick => IInv'
<1> SUFFICES ASSUME IInv, Tick PROVE IInv'
  OBVIOUS
<1>1. /\ clock' = clock + 1 /\ clock < MaxClock
      /\ UNCHANGED <<env, revoked, published, intact, changes, read, past>>
  BY DEF Tick
<1>2. TypeOK'
  BY <1>1, EnvelopeAssumption DEF IInv, TypeOK
<1>3. Watching'
  BY <1>1, EnvelopeFacts DEF IInv, Watching, TypeOK
<1> QED
  BY <1>1, <1>2, <1>3
  DEF IInv, ValidityRests, EvidenceRests, CoverageRests, Covered, ForeverIsContestable

-------------------------------------------------------------------------------
(* The read goes on. *)

LEMMA BeginStep == IInv /\ Begin => IInv'
<1> SUFFICES ASSUME IInv, Begin PROVE IInv'
  OBVIOUS
<1>1. /\ read' = [NoRead EXCEPT !.pc = "validity"]
      /\ past' = [since |-> clock, revoked |-> revoked, published |-> {published},
                  good |-> intact, lost |-> FALSE]
      /\ UNCHANGED <<env, clock, revoked, published, intact, changes>>
  BY DEF Begin, world
<1>2. TypeOK'
  <2>1. read' \in [pc: {"idle", "validity", "evidence1", "evidence2", "coverage",
                       "standing", "done", "offline"},
                  valid: BOOLEAN, drifted: BOOLEAN, coverage: {"ok", "warn", "fail"},
                  standing: {"contestable", "monument", "n/a"}, accept: BOOLEAN]
    BY <1>1 DEF NoRead
  <2>2. /\ clock \in 0 .. MaxClock /\ revoked \in BOOLEAN
        /\ {published} \in SUBSET SUBSET ClaimType /\ intact \in SUBSET Pointer
    BY DEF IInv, TypeOK
  <2>3. past' \in [since: 0 .. MaxClock, revoked: BOOLEAN,
                   published: SUBSET SUBSET ClaimType, good: SUBSET Pointer, lost: BOOLEAN]
    BY <1>1, <2>2
  <2>4. UNCHANGED <<env, clock, revoked, published, intact, changes>>
    BY <1>1
  <2> QED
    BY <2>1, <2>3, <2>4 DEF IInv, TypeOK
<1>3. read'.pc = "validity"
  BY <1>1 DEF NoRead
<1> QED
  BY <1>1, <1>2, <1>3, EnvelopeFacts
  DEF IInv, Watching, ValidityRests, EvidenceRests, CoverageRests, ForeverIsContestable

LEMMA ValidityStep ==
  ASSUME IInv, NEW answer \in Answer, Validity(answer)
  PROVE  IInv'
<1>1. /\ read.pc = "validity"
      /\ read' = [read EXCEPT !.pc = "evidence1", !.valid = CheckValidity(answer)]
      /\ past' = [past EXCEPT !.lost = answer = "error_page"]
      /\ UNCHANGED <<env, clock, revoked, published, intact, changes>>
  BY DEF Validity, world
<1>2. CheckValidity(answer) \in BOOLEAN
  BY EnvelopeFacts DEF IInv, TypeOK, CheckValidity, InWindow, Envelope
<1>3. TypeOK'
  BY <1>1, <1>2 DEF IInv, TypeOK
<1>4. /\ read'.pc = "evidence1" /\ read'.valid = CheckValidity(answer)
      /\ past'.lost = (answer = "error_page")
      /\ past'.since = past.since /\ past'.revoked = past.revoked
      /\ past'.good = past.good /\ past'.published = past.published
  BY <1>1 DEF IInv, TypeOK
<1>5. ValidityRests'
  <2>1. ASSUME env.model = "revocation_checked", past.revoked, CheckValidity(answer)
        PROVE  answer = "error_page"
    BY <2>1, <1>1 DEF IInv, ValidityRests, CheckValidity, Answer
  <2> QED
    BY <1>1, <1>4, <2>1 DEF ValidityRests
<1> QED
  BY <1>1, <1>3, <1>4, <1>5
  DEF IInv, Watching, Reading, EvidenceRests, CoverageRests, ForeverIsContestable

LEMMA EvidenceStep ==
  ASSUME IInv, NEW answer \in Answer, NEW p \in Pointer, Evidence(p, answer)
  PROVE  IInv'
<1> DEFINE next == IF p = 1 THEN "evidence2" ELSE "coverage"
<1>1. /\ read.pc = (IF p = 1 THEN "evidence1" ELSE "evidence2")
      /\ read' = [read EXCEPT !.pc = next, !.drifted = @ \/ Drifts(p, answer)]
      /\ past' = [past EXCEPT !.good = IF answer = "answered" THEN @ ELSE @ \cup {p}]
      /\ UNCHANGED <<env, clock, revoked, published, intact, changes>>
  BY DEF Evidence, world
<1>2. TypeOK'
  BY <1>1 DEF IInv, TypeOK
<1>3. /\ read'.pc = next /\ read'.drifted = (read.drifted \/ Drifts(p, answer))
      /\ read'.valid = read.valid
      /\ past'.since = past.since /\ past'.revoked = past.revoked
      /\ past'.lost = past.lost /\ past'.published = past.published
      /\ past'.good = IF answer = "answered" THEN past.good ELSE past.good \cup {p}
  BY <1>1 DEF IInv, TypeOK
<1>4. intact \subseteq past.good /\ past.good \subseteq past'.good
  BY <1>1, <1>3 DEF IInv, Watching, Reading
<1>5. ~read'.drifted => (p \in env.pinned => p \in past'.good)
  BY <1>3, <1>4 DEF Drifts
<1>6. EvidenceRests'
  <2>1. CASE p = 1
    <3>1. read'.pc = "evidence2" /\ env' = env
      BY <2>1, <1>1, <1>3
    <3> QED
      BY <2>1, <3>1, <1>5 DEF EvidenceRests
  <2>2. CASE p = 2
    <3>1. ~read'.drifted => env.pinned \cap {1} \subseteq past'.good
      <4>1. read.pc = "evidence2"
        BY <2>2, <1>1
      <4>2. ~read.drifted => env.pinned \cap {1} \subseteq past.good
        BY <4>1 DEF IInv, EvidenceRests
      <4>3. ~read'.drifted => ~read.drifted
        BY <1>3
      <4> QED
        BY <1>4, <4>2, <4>3
    <3>2. read'.pc = "coverage" /\ env' = env
      BY <2>2, <1>1, <1>3
    <3>3. ~read'.drifted => env.pinned \subseteq past'.good
      BY <2>2, <3>1, <1>5, EnvelopeFacts DEF IInv, Pointer
    <3> QED
      BY <3>2, <3>3 DEF EvidenceRests
  <2> QED
    BY <2>1, <2>2 DEF Pointer
<1>7. Watching'
  BY <1>1, <1>3, <1>4 DEF IInv, Watching, Reading
<1>8. ValidityRests'
  BY <1>1, <1>3 DEF IInv, ValidityRests, Reading
<1> QED
  BY <1>1, <1>2, <1>3, <1>6, <1>7, <1>8 DEF IInv, CoverageRests, ForeverIsContestable

LEMMA CoverageStep ==
  ASSUME IInv, NEW answer \in Answer, Coverage(answer)
  PROVE  IInv'
<1>1. /\ read.pc = "coverage"
      /\ read' = [read EXCEPT !.pc = "standing", !.coverage = CheckCoverage(answer)]
      /\ UNCHANGED <<env, clock, revoked, published, intact, changes, past>>
  BY DEF Coverage, world
<1>2. CheckCoverage(answer) \in {"ok", "warn", "fail"}
  BY DEF CheckCoverage
<1>3. TypeOK'
  BY <1>1, <1>2 DEF IInv, TypeOK
<1>4. /\ read'.pc = "standing" /\ read'.coverage = CheckCoverage(answer)
      /\ read'.valid = read.valid /\ read'.drifted = read.drifted
  BY <1>1 DEF IInv, TypeOK
<1>5. ASSUME env.claim \in Must, CheckCoverage(answer) # "fail" PROVE Covered
  <2>1. env.inline # Null /\ env.inline \subseteq published /\ env.claim \in published
    BY <1>5 DEF CheckCoverage
  <2>2. published \in past.published
    BY <1>1 DEF IInv, Watching, Reading
  <2> QED
    BY <2>1, <2>2 DEF Covered
<1>6. CoverageRests'
  BY <1>1, <1>4, <1>5 DEF CoverageRests, Covered
<1> QED
  BY <1>1, <1>3, <1>4, <1>6
  DEF IInv, Watching, Reading, ValidityRests, EvidenceRests, ForeverIsContestable

\* A perpetual claim the standing check does not flag can still be contested.
LEMMA UnflaggedIsContestable ==
  ASSUME TypeOK, env.model = "perpetual", CheckStanding # "monument"
  PROVE  env.standing # Null /\ env.standing.others > 0 /\ clock <= env.standing.until
BY EnvelopeFacts DEF CheckStanding

LEMMA StandingStep == IInv /\ Standing => IInv'
<1> SUFFICES ASSUME IInv, Standing PROVE IInv'
  OBVIOUS
<1>1. /\ read.pc = "standing"
      /\ read' = [read EXCEPT !.pc = "done", !.standing = CheckStanding,
            !.accept = read.valid /\ ~read.drifted /\ read.coverage # "fail"]
      /\ UNCHANGED <<env, clock, revoked, published, intact, changes, past>>
  BY DEF Standing, world
<1>2. CheckStanding \in {"contestable", "monument", "n/a"}
  BY DEF CheckStanding
<1>3. TypeOK'
  BY <1>1, <1>2 DEF IInv, TypeOK
<1>4. /\ read'.pc = "done" /\ read'.standing = CheckStanding
      /\ read'.accept = (read.valid /\ ~read.drifted /\ read.coverage # "fail")
  BY <1>1 DEF IInv, TypeOK
<1>5. Watching'
  BY <1>1, <1>4 DEF IInv, Watching, Reading
<1>6. ValidityRests'
  BY <1>1, <1>4 DEF IInv, ValidityRests, Reading
<1>7. EvidenceRests'
  BY <1>1, <1>4 DEF IInv, EvidenceRests
<1>8. CoverageRests'
  BY <1>1, <1>4 DEF IInv, CoverageRests, Covered
<1>9. ForeverIsContestable'
  <2>1. ASSUME env.model = "perpetual", CheckStanding # "monument"
        PROVE  env.standing # Null /\ env.standing.others > 0
               /\ past.since <= env.standing.until
    <3>1. env.standing # Null /\ env.standing.others > 0 /\ clock <= env.standing.until
      BY <2>1, UnflaggedIsContestable DEF IInv
    <3>2. past.since <= clock /\ past.since \in Nat /\ clock \in Nat
          /\ env.standing.until \in Nat
      BY <3>1, EnvelopeFacts DEF IInv, Watching, TypeOK
    <3> QED
      BY <3>1, <3>2
  <2> QED
    BY <1>1, <1>4, <2>1 DEF ForeverIsContestable
<1> QED
  BY <1>3, <1>5, <1>6, <1>7, <1>8, <1>9 DEF IInv

LEMMA OfflineStep == IInv /\ Offline => IInv'
<1> SUFFICES ASSUME IInv, Offline PROVE IInv'
  OBVIOUS
<1>1. /\ read' = [NoRead EXCEPT !.pc = "offline", !.valid = OfflineValidity,
            !.coverage = OfflineCoverage, !.standing = CheckStanding,
            !.accept = OfflineAccept]
      /\ past' = [NoPast EXCEPT !.since = clock]
      /\ UNCHANGED <<env, clock, revoked, published, intact, changes>>
  BY DEF Offline, world
<1>2. /\ CheckStanding \in {"contestable", "monument", "n/a"}
      /\ OfflineCoverage \in {"ok", "warn", "fail"}
      /\ OfflineValidity \in BOOLEAN /\ OfflineAccept \in BOOLEAN
  BY EnvelopeFacts
  DEF IInv, TypeOK, CheckStanding, OfflineCoverage, OfflineValidity, OfflineAccept, InWindow
<1>3. TypeOK'
  BY <1>1, <1>2 DEF IInv, TypeOK, NoRead, NoPast
<1>4. /\ read'.pc = "offline" /\ read'.standing = CheckStanding
      /\ past'.since = clock
  BY <1>1 DEF NoRead, NoPast
<1>5. ForeverIsContestable'
  BY <1>1, <1>4, UnflaggedIsContestable DEF IInv, ForeverIsContestable
<1>6. Watching'
  BY <1>1, <1>4, EnvelopeFacts DEF IInv, Watching, Reading
<1> QED
  BY <1>3, <1>4, <1>5, <1>6 DEF IInv, ValidityRests, EvidenceRests, CoverageRests, Reading

-------------------------------------------------------------------------------
(* All steps, and the theorems. *)

LEMMA EnvelopeStep == IInv /\ [Next]_vars => IInv'
<1> SUFFICES ASSUME IInv, [Next]_vars PROVE IInv'
  OBVIOUS
<1>1. CASE Revoke
  BY <1>1, ChangeStep DEF Revoke, IInv, TypeOK
<1>2. ASSUME NEW types \in SUBSET ClaimType, Publish(types) PROVE IInv'
  BY <1>2, ChangeStep DEF Publish, IInv, TypeOK
<1>3. ASSUME NEW p \in Pointer, Edit(p) PROVE IInv'
  BY <1>3, ChangeStep DEF Edit, IInv, TypeOK
<1>4. CASE Continue
  BY <1>4, ValidityStep, EvidenceStep, CoverageStep, StandingStep DEF Continue
<1>5. CASE UNCHANGED vars
  BY <1>5
  DEF vars, IInv, TypeOK, Watching, ValidityRests, EvidenceRests, CoverageRests, Covered,
      ForeverIsContestable
<1> QED
  BY <1>1, <1>2, <1>3, <1>4, <1>5, TickStep, BeginStep, OfflineStep DEF Next

LEMMA EnvelopeInvariant == Spec => []IInv
BY EnvelopeInit, EnvelopeStep, PTL DEF Spec

(* Type correctness of every verification and of what it remembers.        *)
THEOREM EnvelopeTypes == Spec => []TypeOK
BY EnvelopeInvariant, PTL DEF IInv

(* check_validity first, verdict last: an envelope that was revoked before *)
(* the verification began is accepted only if its registry's answer was an *)
(* error page, however many changes fall between the fetches.              *)
THEOREM EnvelopeRevocationHolds == Spec => []RevocationHolds
<1>1. IInv => RevocationHolds
  BY DEF IInv, ValidityRests, RevocationHolds, Accepted
<1> QED
  BY <1>1, EnvelopeInvariant, PTL

(* check_coverage: an accepted MUST claim was covered, together with the   *)
(* whole inline list, at one instant of its verification.                  *)
THEOREM EnvelopeMustWasCovered == Spec => []MustWasCovered
<1>1. IInv => MustWasCovered
  BY DEF IInv, CoverageRests, Covered, MustWasCovered, Accepted
<1> QED
  BY <1>1, EnvelopeInvariant, PTL

(* check_evidence: each pinned pointer of an accepted envelope had its     *)
(* content at some instant of the verification or could not be reached.    *)
THEOREM EnvelopeDriftIsCaught == Spec => []DriftIsCaught
<1>1. IInv => DriftIsCaught
  BY DEF IInv, EvidenceRests, DriftIsCaught, Accepted
<1> QED
  BY <1>1, EnvelopeInvariant, PTL

(* check_standing: a perpetual claim accepted without the monument flag    *)
(* had a contester and an open window when its verification began.         *)
THEOREM EnvelopeForeverIsContestable == Spec => []ForeverIsContestable
BY EnvelopeInvariant, PTL DEF IInv
===============================================================================
