---------------------------- MODULE ContextProfile ----------------------------
(***************************************************************************)
(* The context profile of a package (rvm-context: profile.rs) and the      *)
(* compiler that makes such packages (rvm-context-service: compiler.rs).   *)
(* A profile says which segment holds the content and which hold abstracts *)
(* and overviews derived from it.  A package comes from anywhere; it is    *)
(* verified and bound once, against an identity, and read later from bytes *)
(* that may not be the same any more.  The second half is how the service  *)
(* encrypts the objects it stores.                                         *)
(*                                                                         *)
(* Hashes are perfect: the digest of a payload is the payload, the         *)
(* identity of a package the package.  Of what verify() of rvm-rvf decides *)
(* (RvfContainer has the whole report) the checks that can refuse a        *)
(* package bound here are kept.                                            *)
(***************************************************************************)
EXTENDS Integers, Sequences, SequencesExt

CONSTANTS
    Payload, ZeroDigest,  \* digests; ZeroDigest is that of nothing
    RefusedMeta,          \* payloads that, as plaintext metadata, declare a capability
                          \* RVM cannot represent, or a stream profile
    RefusedModule,        \* payloads with a WasmHeader that is refused
    SegmentId,            \* with 0, which no view may name
    MAX_VIEWS, MaxSegments,
    MAX_CONTEXT_RVF       \* the size a package may have, in segments

ASSUME ProfileNumbers == {MAX_VIEWS, MaxSegments, MAX_CONTEXT_RVF} \subseteq Nat /\ SegmentId \subseteq Nat
                         /\ ZeroDigest \notin Payload /\ MAX_VIEWS = 3

Abstract == 0
Overview == 1
Content == 2
View == {Abstract, Overview, Content}

ProfileTrust == {"TrustedSignature", "PinnedIdentity"}

\* Segment types: metadata, code with and without a WasmHeader, and the structural ones;
\* "other" stands for the rest.
SegmentType == {"meta", "wasm", "native", "profile", "manifest", "witness", "other"}
Executable == {"wasm", "native"}

VARIABLES
    package,    \* segments of the bytes at hand
    bound,      \* VerifiedContextProfile: {} or one record
    asked       \* the request a compiled package was made from: {} or one record

profileVars == <<package, bound, asked>>

-----------------------------------------------------------------------------
(* ContextProfile *)

\* DerivedView::new: none of the five digests is zero; the source stands for them.
DerivedView(source) == IF source = ZeroDigest THEN {} ELSE {source}

\* A mapping of one view; provenance is {} for none, else the source.
ProfileView(v, id, digest, provenance) ==
    [view |-> v, segment_id |-> id, payload |-> digest, derived |-> provenance]

\* ProfileView::content and ::derived: {} for a refusal.
content(id, digest) ==
    IF id = 0 \/ digest = ZeroDigest THEN {} ELSE {ProfileView(Content, id, digest, {})}
derived(v, id, digest, provenance) ==
    IF v = Content \/ id = 0 \/ digest = ZeroDigest THEN {} ELSE {ProfileView(v, id, digest, provenance)}

SortedViews(vs) == SortSeq(vs, LAMBDA a, b : a.view < b.view)

BugProfileNew(vs) ==
    /\ Len(vs) \in 1 .. MAX_VIEWS
    /\ \A i, j \in 1 .. Len(vs) : i # j => vs[i].view # vs[j].view
    /\ \A i \in 1 .. Len(vs) : vs[i].segment_id # 0 /\ vs[i].payload # ZeroDigest
    /\ \E c \in 1 .. Len(vs) :
         /\ vs[c].view = Content /\ vs[c].derived = {}
         /\ \A i \in 1 .. Len(vs) : i # c => vs[i].derived # {}

\* ContextProfile::new.
ProfileNew(vs) ==
    /\ Len(vs) \in 1 .. MAX_VIEWS
    /\ \A i, j \in 1 .. Len(vs) : i # j => vs[i].view # vs[j].view /\ vs[i].segment_id # vs[j].segment_id
    /\ \A i \in 1 .. Len(vs) : vs[i].segment_id # 0 /\ vs[i].payload # ZeroDigest
    /\ \E c \in 1 .. Len(vs) :
         /\ vs[c].view = Content /\ vs[c].derived = {}
         /\ \A i \in 1 .. Len(vs) : i # c => vs[i].derived = {vs[c].payload}

\* ContextProfile::view: where a view is mapped, if it is.
view(vs, v) == {k \in 1 .. Len(vs) : vs[k].view = v}

\* A fixed record: the view's code, a flag for provenance, digests or zeros.
ViewRecord(v, flag, id, digest, source) ==
    [view |-> v, flag |-> flag, segment_id |-> id, payload |-> digest, source |-> source]

encode_view(w) ==
    IF w.derived = {} THEN ViewRecord(w.view, 0, w.segment_id, w.payload, ZeroDigest)
    ELSE ViewRecord(w.view, 1, w.segment_id, w.payload, CHOOSE s \in w.derived : TRUE)

\* {} for an error: an unknown view, another flag, digests without the flag, or the
\* flag without digests.
decode_view(rec) ==
    {ProfileView(rec.view, rec.segment_id, rec.payload, provenance) :
       provenance \in {p \in {{}, DerivedView(rec.source)} :
          /\ rec.view \in View /\ rec.flag \in {0, 1}
          /\ rec.flag = 0 => rec.source = ZeroDigest
          /\ (p = {}) = (rec.flag = 0)}}

\* wellFormed: magic, version, reserved bytes and lengths.
to_bytes(vs) == [wellFormed |-> TRUE, views |-> [k \in 1 .. Len(vs) |-> encode_view(vs[k])]]

\* A record that decodes encodes to itself: sorting and encoding again gives other bytes
\* exactly when the views were out of order.
from_bytes(encoding) ==
    LET count == Len(encoding.views)
        decoded == [k \in 1 .. count |-> decode_view(encoding.views[k])]
        vs == [k \in 1 .. count |-> CHOOSE w \in decoded[k] : TRUE]
    IN IF /\ encoding.wellFormed /\ count \in 1 .. MAX_VIEWS /\ \A k \in 1 .. count : decoded[k] # {}
          /\ ProfileNew(vs) /\ \A j, k \in 1 .. count : j < k => vs[j].view < vs[k].view
       THEN {vs} ELSE {}

-----------------------------------------------------------------------------
(* VerifiedContextProfile *)

\* intact: the content hash in the header is right.  signature: "none", by a trusted key
\* ("good") or by another, of another algorithm, or no footer that can be read.
Segment(id, type, body, encrypted, compressed, intact, signature) ==
    [id |-> id, type |-> type, body |-> body, encrypted |-> encrypted, compressed |-> compressed,
     intact |-> intact, signature |-> signature]
DataSegment(id, type, body) == Segment(id, type, body, FALSE, FALSE, TRUE, "none")

NoSegmentBody == [wellFormed |-> FALSE, views |-> <<>>]
Data(p) == [digest |-> p, encoding |-> NoSegmentBody]
Encoded(bytes) == [digest |-> ZeroDigest, encoding |-> bytes]

\* The records of build_report about one segment, under the options of from_rvf: keys
\* says that trusted keys were given; a pinned identity permits unsigned code.
SegmentPasses(seg, trust, keys) ==
    LET strict == seg.type \in Executable /\ trust = "TrustedSignature"
    IN /\ seg.intact
       /\ seg.signature = "none" => ~strict
       /\ seg.signature # "malformed"
       /\ seg.signature = "algorithm" => seg.type \notin Executable
       /\ seg.signature \in {"good", "other"} => IF keys THEN seg.signature = "good" ELSE ~strict
       /\ seg.type = "wasm" /\ ~seg.encrypted => seg.body.digest \notin RefusedModule

\* VerificationReport::admissible: the manifest is there, what the plaintext metadata
\* declares can be granted to a buffered package, and every segment passes.
admissible(segs, trust, keys) ==
    /\ \E i \in 1 .. Len(segs) : segs[i].type = "manifest"
    /\ \A i \in 1 .. Len(segs) :
         /\ segs[i].type = "meta" /\ ~segs[i].encrypted => segs[i].body.digest \notin RefusedMeta
         /\ SegmentPasses(segs[i], trust, keys)

Profiles(segs) == {i \in 1 .. Len(segs) : segs[i].type = "profile"}
Named(segs, id) == {i \in 1 .. Len(segs) : segs[i].id = id}

\* The one segment a view names, if it may hold that view.
BoundSegment(segs, w) ==
    {i \in Named(segs, w.segment_id) :
       /\ Named(segs, w.segment_id) = {i}
       /\ segs[i].type # "profile" /\ ~segs[i].compressed
       /\ w.view # Content => segs[i].type \notin Executable
       /\ segs[i].body.digest = w.payload}

bind_verified(segs, expected, trust, keys) ==
    LET good == {i \in Profiles(segs) :
                   /\ segs = expected /\ admissible(segs, trust, keys)
                   /\ Profiles(segs) = {i} /\ ~segs[i].encrypted /\ ~segs[i].compressed
                   /\ trust = "TrustedSignature" => keys /\ segs[i].signature = "good"}
        read == UNION {from_bytes(segs[i].body.encoding) : i \in good}
    IN {[rvf_identity |-> expected, profile |-> vs] :
          vs \in {p \in read : \A k \in 1 .. Len(p) : BoundSegment(segs, p[k]) # {}}}

\* VerifiedContextProfile::from_rvf: {} for every refusal.
verified(segs, expected, trust, keys) ==
    IF Len(segs) > MAX_CONTEXT_RVF THEN {} ELSE bind_verified(segs, expected, trust, keys)

from_rvf(expected, trust, keys) ==
    /\ bound = {} /\ bound' = verified(package, expected, trust, keys)
    /\ UNCHANGED <<package, asked>>

\* The segments bound for a view; they were found in the bytes of the identity.
SegmentsOf(b, v) == UNION {BoundSegment(b.rvf_identity, b.profile[k]) : k \in view(b.profile, v)}

is_executable(b, v) == \E i \in SegmentsOf(b, v) : b.rvf_identity[i].type \in Executable

\* payload(data, view): the digest of the bytes returned, {} for an error.
payload(b, segs, v) == IF segs # b.rvf_identity THEN {} ELSE {segs[i].body.digest : i \in SegmentsOf(b, v)}

-----------------------------------------------------------------------------
(* RvfContextCompiler *)

\* DerivedContextView::new, and the segment types with_content_segment takes.
DerivedContextView(d) == d.view \in View \ {Content} /\ DerivedView(d.source) # {}
with_content_segment(type) == type \notin {"profile", "manifest", "witness"}

\* append_segment, one after the other: metadata, content, then the derived views; ids
\* count up; nothing is signed, encrypted or compressed; metadata and views are META.
Appended(r, views) ==
    LET meta == IF r.metadata = {} THEN <<>> ELSE <<DataSegment(1, "meta", Data(CHOOSE p \in r.metadata : TRUE))>>
    IN meta \o <<DataSegment(Len(meta) + 1, r.type, Data(r.content))>>
            \o [k \in 1 .. Len(views) |-> DataSegment(Len(meta) + 1 + k, "meta", Data(views[k].payload))]

\* A request: content and its segment type, {} or one payload of metadata, derived views
\* in any order.  The package is verified as it would be on ingress, against its own
\* identity, and must bind exactly the profile that was written.
compile(r) ==
    LET sorted == SortSeq(r.derived, LAMBDA a, b : a.view < b.view)
        base == IF r.metadata = {} THEN 1 ELSE 2
        mapped == [k \in 1 .. Len(sorted) |->
                     derived(sorted[k].view, base + k, sorted[k].payload, DerivedView(sorted[k].source))]
        views == content(base, r.content)
        refused == views = {} \/ \E k \in 1 .. Len(sorted) : mapped[k] = {}
        all == [k \in 1 .. Len(sorted) + 1 |->
                  CHOOSE w \in IF k = 1 THEN views ELSE mapped[k - 1] : TRUE]
        last == base + Len(sorted)
        segs == Appended(r, sorted)
                  \o <<DataSegment(last + 1, "profile", Encoded(to_bytes(SortedViews(all)))),
                       DataSegment(last + 2, "manifest", Data(ZeroDigest))>>
    IN IF /\ \A j, k \in 1 .. Len(sorted) : j # k => sorted[j].view # sorted[k].view
          /\ ~refused /\ ProfileNew(all)
          /\ Len(segs) <= MAX_CONTEXT_RVF
          /\ \E b \in verified(segs, segs, "PinnedIdentity", FALSE) : b.profile = SortedViews(all)
       THEN {segs} ELSE {}

Compiles(r) ==
    /\ package = <<>> /\ asked = {} /\ bound = {}
    /\ with_content_segment(r.type) /\ \A k \in 1 .. Len(r.derived) : DerivedContextView(r.derived[k])
    /\ asked' = {r}
    /\ package' = IF compile(r) = {} THEN <<>> ELSE CHOOSE segs \in compile(r) : TRUE
    /\ UNCHANGED bound

\* A package assembled by anyone.
Assemble(seg) ==
    /\ Len(package) < MaxSegments /\ bound = {} /\ asked = {}
    /\ package' = Append(package, seg)
    /\ UNCHANGED <<bound, asked>>

\* The stored bytes change after they were bound.
Altered(i, seg) ==
    /\ \E b \in bound : package = b.rvf_identity
    /\ i \in 1 .. Len(package) /\ package' = [package EXCEPT ![i] = seg]
    /\ UNCHANGED <<bound, asked>>

-----------------------------------------------------------------------------
CONSTANTS AnySegment, AnyRequest   \* what may be assembled and asked for

ProfileInit == package = <<>> /\ bound = {} /\ asked = {}

ProfileNext ==
    \/ \E seg \in AnySegment : Assemble(seg) \/ \E i \in 1 .. MaxSegments : Altered(i, seg)
    \/ \E r \in AnyRequest : Compiles(r)
    \/ \E trust \in ProfileTrust, keys \in BOOLEAN, expected \in {package, <<>>} : from_rvf(expected, trust, keys)

-----------------------------------------------------------------------------
(* Properties *)

\* A bound profile describes what it hands out, whoever made the package and whatever
\* became of its bytes: a view is read as the payload its record promises, or not at
\* all; there is a content view, the others are derived from exactly that content,
\* none of them is code, and no two are the same segment.
BoundViewsAreDescribed ==
    \A b \in bound :
      LET segs == b.rvf_identity
          At(v) == view(b.profile, v)
      IN /\ \A v \in View : payload(b, package, v) \subseteq {b.profile[k].payload : k \in At(v)}
         /\ package = segs => \A v \in View : (payload(b, package, v) # {}) = (At(v) # {})
         /\ \A v \in View : is_executable(b, v) => v = Content
         /\ \E c \in 1 .. Len(b.profile) :
              /\ At(Content) = {c}
              /\ \A k \in 1 .. Len(b.profile) : k # c =>
                   /\ b.profile[k].derived = payload(b, segs, Content)
                   /\ b.profile[k].segment_id # b.profile[c].segment_id

\* What a request may ask for without being refused: it is not too large, its derived
\* views are distinct and name its content as their source, and nothing in it reads as a
\* declaration that a package may not make.
Compilable(r) ==
    /\ \A k \in 1 .. Len(r.derived) : r.derived[k].source = r.content /\ r.derived[k].payload \notin RefusedMeta
    /\ \A j, k \in 1 .. Len(r.derived) : j # k => r.derived[j].view # r.derived[k].view
    /\ r.metadata \cap RefusedMeta = {}
    /\ r.type = "meta" => r.content \notin RefusedMeta
    /\ r.type = "wasm" => r.content \notin RefusedModule
    /\ Len(r.derived) + (IF r.metadata = {} THEN 3 ELSE 4) <= MAX_CONTEXT_RVF

\* Compiling loses nothing: a request compiles exactly when it may, in whatever order its
\* views were given, and the package gives back the content and each view once it is
\* bound.
CompiledReadsBack ==
    \A r \in asked :
      /\ bound = {} => (package # <<>>) = Compilable(r)
      /\ \A b \in bound : package = b.rvf_identity =>
           /\ payload(b, package, Content) = {r.content}
           /\ \A k \in 1 .. Len(r.derived) : payload(b, package, r.derived[k].view) = {r.derived[k].payload}

-----------------------------------------------------------------------------
(***************************************************************************)
(* Encryption of stored objects (rvm-context-service: crypto.rs): a fresh  *)
(* key per object, wrapped by a key provider for a tenant, and an encoded  *)
(* envelope whose lengths are not themselves authenticated.  The database  *)
(* gives back what it likes.                                               *)
(*                                                                         *)
(* AES-GCM is perfect: a ciphertext is a row of cells that decrypts only   *)
(* whole, under its key, nonce and associated data.  Data keys and nonces  *)
(* come from the system's randomness and never repeat; a data key is one   *)
(* cell long, and so is a nonce.  A step that fails stores nothing.        *)
(***************************************************************************)

CONSTANTS
    KeyIds, Tenant, Aad,     \* wrapping keys by id, tenants, object names
    PlainLen,                \* lengths of plaintexts
    TAG_BYTES, MAX_KEY_ID, MAX_WRAPPED, MaxLen,
    MaxDamage                \* how often the stored bytes change

ASSUME EnvelopeNumbers == {TAG_BYTES, MAX_KEY_ID, MAX_WRAPPED, MaxLen, MaxDamage} \subseteq Nat /\ PlainLen \subseteq Nat

VARIABLES
    sealed,     \* {} or the arguments of the one seal
    envelope,   \* {} or the encoded bytes as the database has them
    damage      \* changes made to them

envelopeVars == <<sealed, envelope, damage>>

\* Aes256Gcm::encrypt of n cells: n + TAG_BYTES cells.
Cells(key, nonce, aad, n) == [i \in 1 .. n + TAG_BYTES |-> <<key, nonce, aad, n, i>>]
Decrypted(key, nonce, aad, cells) == {n \in PlainLen \cup {1} : cells = Cells(key, nonce, aad, n)}

\* random_nonce: the wrapping's and the object's differ.
WrapNonce == 1
ObjectNonce == 2

\* A key id is a single cell.
KeyCells(id) == <<<<"key id", 0, id, 1, 1>>>>
KeyIdOf(cells) == {id \in KeyIds : cells = KeyCells(id)}

\* WrappedDataKey::new: {} for a refusal.
WrappedDataKey(key_id, ciphertext) ==
    IF Len(key_id) \in 1 .. MAX_KEY_ID /\ Len(ciphertext) \in 1 .. MAX_WRAPPED
    THEN {[key_id |-> key_id, ciphertext |-> ciphertext]} ELSE {}

\* LocalKeyProvider::wrap, with the tenant as associated data: the nonce comes first.
NonceCell(nonce) == <<"nonce", nonce, "", 1, 1>>
wrap(id, tenant) ==
    WrappedDataKey(KeyCells(id), <<NonceCell(WrapNonce)>> \o Cells(id, WrapNonce, tenant, 1))

\* LocalKeyProvider::unwrap of provider id.
unwrap(id, tenant, w) ==
    /\ KeyIdOf(w.key_id) = {id} /\ Len(w.ciphertext) = 1 + 1 + TAG_BYTES
    /\ \E nonce \in {WrapNonce, ObjectNonce} :
         Head(w.ciphertext) = NonceCell(nonce) /\ Decrypted(id, nonce, tenant, Tail(w.ciphertext)) = {1}

\* EncryptedObject::seal: {} when the key cannot be wrapped.
seal_object(id, tenant, aad, n) ==
    {[wrapped_key |-> w, nonce |-> ObjectNonce, plaintext_len |-> n,
      ciphertext |-> Cells("data key", ObjectNonce, aad, n)] : w \in wrap(id, tenant)}

encode(o) ==
    [magic |-> TRUE, key_id_len |-> Len(o.wrapped_key.key_id), wrapped_len |-> Len(o.wrapped_key.ciphertext),
     plaintext_len |-> o.plaintext_len, nonce |-> o.nonce,
     body |-> o.wrapped_key.key_id \o o.wrapped_key.ciphertext \o o.ciphertext]

\* EncryptedObject::decode: {} for an error; magic stands for the version too.
decode(b) ==
    LET start == b.key_id_len + b.wrapped_len
    IN IF \/ ~b.magic \/ Len(b.body) < TAG_BYTES
          \/ b.key_id_len \notin 1 .. MAX_KEY_ID \/ b.wrapped_len > MAX_WRAPPED
          \/ start + TAG_BYTES > Len(b.body)
       THEN {}
       ELSE {[wrapped_key |-> w, nonce |-> b.nonce, plaintext_len |-> b.plaintext_len,
              ciphertext |-> SubSeq(b.body, start + 1, Len(b.body))] :
               w \in WrappedDataKey(SubSeq(b.body, 1, b.key_id_len), SubSeq(b.body, b.key_id_len + 1, start))}

\* What decrypts, if its length is the recorded one.
Opened(o, aad) == Decrypted("data key", o.nonce, aad, o.ciphertext) \cap {o.plaintext_len}

\* EncryptedObject::open under provider id: {} or the length of the plaintext.
open_object(o, id, tenant, aad) ==
    IF unwrap(id, tenant, o.wrapped_key) THEN Opened(o, aad) ELSE {}

-----------------------------------------------------------------------------
EnvelopeInit == sealed = {} /\ envelope = {} /\ damage = 0

SealObject(id, tenant, aad, n) ==
    /\ sealed = {} /\ sealed' = {[id |-> id, tenant |-> tenant, aad |-> aad, n |-> n]}
    /\ envelope' = {encode(o) : o \in seal_object(id, tenant, aad, n)}
    /\ UNCHANGED damage

\* One field, or one cell of the body, comes back different; or the end is missing.
Tampered(b) ==
    {[b EXCEPT !.key_id_len = k] : k \in 0 .. MaxLen} \cup {[b EXCEPT !.wrapped_len = k] : k \in 0 .. MaxLen}
    \cup {[b EXCEPT !.plaintext_len = k] : k \in 0 .. MaxLen} \cup {[b EXCEPT !.nonce = 0], [b EXCEPT !.magic = FALSE]}
    \cup {[b EXCEPT !.body[i] = <<"other", 0, "", 0, i>>] : i \in 1 .. Len(b.body)}
    \cup {[b EXCEPT !.body = SubSeq(@, 1, Len(@) - 1)]}

Damage == \E b \in envelope :
    /\ damage < MaxDamage /\ damage' = damage + 1
    /\ Len(b.body) > 1 /\ \E s \in sealed : Len(b.body) > s.n
    /\ \E d \in Tampered(b) : envelope' = {d}
    /\ UNCHANGED sealed

EnvelopeNext == Damage \/ \E id \in KeyIds, tenant \in Tenant, aad \in Aad, n \in PlainLen : SealObject(id, tenant, aad, n)

-----------------------------------------------------------------------------
(* Properties *)

\* An object opens as it was sealed or not at all: under its own wrapping key, for
\* its own tenant and under its own name, and only from the bytes that were stored,
\* although the envelope's lengths are outside the authenticated data.
OpensAsSealed ==
    \A s \in sealed, b \in envelope :
      \A id \in KeyIds, tenant \in Tenant, aad \in Aad :
        LET opened == UNION {open_object(o, id, tenant, aad) : o \in decode(b)}
        IN IF b \in {encode(o) : o \in seal_object(s.id, s.tenant, s.aad, s.n)} /\ <<id, tenant, aad>> = <<s.id, s.tenant, s.aad>>
           THEN opened = {s.n} ELSE opened = {}
=============================================================================
