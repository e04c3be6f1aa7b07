----------------------------- MODULE MC_Context -----------------------------
(***************************************************************************)
(* Small instances of the context store: its receipts, its names and       *)
(* search, its capabilities against an arbitrary resolver, the in-memory   *)
(* resolver, the browser binding and the profiles of its packages.  A      *)
(* behaviour exercises one of them, `part`, and the others stay where they *)
(* began; the store and the browser build on the capabilities and share    *)
(* their state.                                                            *)
(***************************************************************************)
EXTENDS ReceiptChain, ContextUri, BrowserContext, ContextProfile

CONSTANTS r1, r2, o1, o2, s1

VARIABLE part

MCBody == {"decision", "outcome", "seal"}
MCHash == 0 .. 10
MCDigest == 0 .. 3
MCChainHash(h, s) == (3 * h + 5 * s + 1) % 11
MCFold(h) == ((h \div 4) + h) % 4

\* Components of one to six bytes, around the limits, with one that fails each check.
MCBytes ==
  [x \in {"", "a.b", "a", "B", "user", "memory", "other", "rev", "view", "r1", "r2", "abstract",
          "overview", "content", "bad"} |->
     CASE x = "" -> 0 [] x \in {"a", "B"} -> 1 [] x \in {"r1", "r2"} -> 2 [] x \in {"rev", "a.b"} -> 3
       [] x \in {"user", "view"} -> 4 [] OTHER -> 6]
MCEntry(k, v) == [key |-> k, value |-> v]
MCQueries ==
  {<<>>, <<MCEntry("rev", "r1")>>, <<MCEntry("view", "content")>>,
   <<MCEntry("rev", "r1"), MCEntry("view", "content")>>,
   <<MCEntry("view", "content"), MCEntry("rev", "r1")>>,
   <<MCEntry("rev", "r1"), MCEntry("rev", "r2")>>,
   <<MCEntry("rev", "bad")>>, <<MCEntry("", "")>>, <<MCEntry("other", "r1")>>}
MCUriText(forbidden, scheme, queried, q, parts) ==
  [forbidden |-> forbidden, scheme |-> scheme, queried |-> queried, query |-> q, parts |-> parts]
MCUriTexts ==
  {MCUriText(FALSE, TRUE, x \/ q # <<>>, q, <<a, "a", k, "a", "memory">> \o p) :
     x \in BOOLEAN, q \in MCQueries, a \in {"a.b", "B"}, k \in {"user", "other"},
     p \in UNION {[1 .. n -> {"", "a", "B"}] : n \in 0 .. 3}}
  \cup {MCUriText(x, x, FALSE, <<>>, <<"a.b", "a", "user", "a", "memory">>) : x \in BOOLEAN}
  \cup {MCUriText(FALSE, TRUE, FALSE, <<>>, <<"a.b", "a", "user">>)}

\* Periodic queries, whose matches overlap.
MCQuery == {<<1>>, <<1, 1>>, <<1, 2, 1>>, <<1, 1, 2>>, <<1, 2, 1, 2>>}
MCDocument == {<<>>, <<1, 1, 1>>, <<1, 2, 1, 2, 1>>, <<1, 1, 2, 1, 1, 2>>, <<2, 1, 2, 1, 2, 2>>,
               <<1, 2, 1, 1, 2, 1, 2, 1, 2>>}

MCPath == {<<"a">>, <<"a", "b">>, <<"c", "b">>}
MCRights == {{"READ", "WRITE"}, {"GRANT", "REVOKE", "EXECUTE", "PROVE", "READ"}}
MCOperations == {{"read", "put"}, {"grant", "revoke", "execute", "verify"}}
AllViews == {"manifest", "overview", "content"}
MCViews == {AllViews, {"overview", "manifest"}}
MCScore == [r \in ContextRevision |-> 1]

\* Segments of the content's kinds, and profiles right and wrong about them.
MCView(v, id, d, s) == ViewRecord(v, IF s = ZeroDigest THEN 0 ELSE 1, id, d, s)
MCBytesOf(records) == [wellFormed |-> TRUE, views |-> records]
MCEncodings ==
  {MCBytesOf(<<MCView(v, i, "d1", s)>>) : v \in {Abstract, Content}, i \in SegmentId, s \in {ZeroDigest, "d1"}}
  \cup {MCBytesOf(<<MCView(Abstract, i, "d2", s), MCView(Content, j, e, ZeroDigest)>>) :
          i, j \in {1, 2}, e \in {"d1", ZeroDigest}, s \in {ZeroDigest, "d1", "d2"}}
  \cup {MCBytesOf(<<MCView(Content, 1, "d1", ZeroDigest), MCView(Abstract, 2, "d2", "d1")>>)}
  \cup {MCBytesOf(<<ViewRecord(v, f, 1, "d1", s)>>) : v \in {2, 3}, f \in {0, 1, 2}, s \in {ZeroDigest, "d1"}}
MCGood == Encoded(MCBytesOf(<<MCView(Content, 1, "d1", ZeroDigest)>>))
MCSegment ==
  {DataSegment(i, t, Data(d)) : i \in SegmentId \ {0}, t \in {"meta", "wasm"}, d \in {"d1", "d2"}}
  \cup {DataSegment(2, "meta", Data("d3")), DataSegment(1, "wasm", Data("d3"))}
  \cup {Segment(1, "meta", Data("d1"), x, ~x, TRUE, "none") : x \in BOOLEAN}
  \cup {Segment(1, "native", Data("d1"), FALSE, FALSE, TRUE, s) : s \in {"good", "algorithm"}}
  \cup {Segment(1, "other", Data("d1"), FALSE, FALSE, s # "other", s) : s \in {"none", "other"}}
  \cup {DataSegment(3, "profile", Encoded(e)) : e \in MCEncodings}
  \cup {Segment(3, "profile", MCGood, FALSE, FALSE, TRUE, s) : s \in {"good", "other", "algorithm", "malformed"}}
  \cup {Segment(3, "profile", MCGood, x, ~x, TRUE, "none") : x \in BOOLEAN}
  \cup {DataSegment(2, "manifest", Data("d2"))}

\* Where a segment stands does not matter to a profile: at most two that hold views, then
\* profiles, all alike, and the manifest.
MCRank(seg) == CASE seg.type = "profile" -> 1 [] seg.type = "manifest" -> 2 [] OTHER -> 0
MCAssembled(segs) ==
  /\ \A i, j \in DOMAIN segs : i < j => MCRank(segs[i]) <= MCRank(segs[j])
  /\ 3 \in DOMAIN segs => MCRank(segs[3]) > 0
  /\ \A i, j \in Profiles(segs) : segs[i] = segs[j]
MCDerived(v, p, s) == [view |-> v, payload |-> p, source |-> s]
MCRequest ==
  [content : {"d1", "d3"}, type : SegmentType, metadata : {{}, {"d1"}, {"d3"}},
   derived : {<<>>} \cup {<<MCDerived(v, p, s)>> : v \in {0, 1}, p \in {"d2", "d3"}, s \in {"d1", "d2"}}
             \cup {<<MCDerived(v, p, s), MCDerived(w, q, s)>> :
                     v, w \in {0, 1}, p, q \in {"d2", "d3"}, s \in {"d1", "d2"}}]

-----------------------------------------------------------------------------
PageInit == trail = [next |-> 0, done |-> [a \in ChangeKind |-> 0]] /\ direct = 0 /\ reported = 0

\* Two clients, each with a capability for everything.
ClientsInit ==
  /\ wrapped = {} /\ token_epoch = 0 /\ next_token = 3 /\ answer = NoAnswer
  /\ tokens = [k \in {1, 2} |-> [slot |-> k - 1, rights |-> {"READ", "WRITE"},
                                 owner |-> IF k = 1 THEN o1 ELSE o2, epoch |-> 0, depth |-> 0,
                                 lineage |-> {}]]
  /\ links = [i \in Slots |-> Link(i < 2, Tree!NIL)]
  /\ grants = [k \in {1, 2} |-> [space |-> s1, path |-> <<"a">>, views |-> AllViews]]
  /\ misled = FALSE

\* A component that is not exercised begins in one of its initial states only.
ContextInit ==
  /\ part \in {"receipts", "uri", "search", "authority", "store", "browser", "profile", "envelope"}
  /\ RInit
  /\ UriInit
  /\ SearchInit
  /\ (part # "search" => query = <<1>> /\ limit = 1)
  /\ ProfileInit
  /\ EnvelopeInit
  /\ \/ part = "authority" /\ AuthorityInit /\ StoreInit /\ PageInit
     \/ part = "store" /\ ClientsInit /\ StoreInit /\ PageInit
     \/ part \notin {"authority", "store"} /\ BrowserInit

\* The partition is not what scopes are about: one owner; one revision; and a path,
\* <<"c", "b">>, that no scope contains.  No call depends on the last answer, so a
\* behaviour ends with one.
MCTargets == {t \in Target : t.revision # r2}
MCAnswers == {S \in Answers : \A r \in S : r.revision = r1 /\ r.alias # r2}
MCLastToken(token, binds) ==
  /\ token.lineage = {} /\ token.rights = {"READ", "WRITE"}
  /\ MaxTokens \in DOMAIN binds => binds[MaxTokens] = [space |-> s1, path |-> <<"a">>, views |-> AllViews]
AuthorityPart ==
  /\ answer = NoAnswer
  /\ GrantNext \/ (next_token <= MaxTokens /\ ReadNext(MCTargets, MCAnswers))
  /\ MaxTokens \in DOMAIN tokens' => MCLastToken(tokens'[MaxTokens], grants')
  /\ \A k \in DOMAIN tokens' : tokens'[k].owner = o1
  /\ \A k \in DOMAIN grants' : grants'[k].path # <<"c", "b">>
  /\ UNCHANGED <<storeVars, pageVars>>

StorePart == StoreNext /\ UNCHANGED pageVars

\* A page with two tokens for one name, and one revision of it.
BrowserPart ==
  /\ BrowserNext
  /\ next_token' <= 3
  /\ \A k \in DOMAIN tokens' : tokens'[k].owner = o1
  /\ \A k \in DOMAIN grants' : grants'[k].path = <<"a">> /\ grants'[k].views = AllViews
  /\ \A o \in DOMAIN objects' : o[1].path = <<"a">> /\ o[2] # r2

ContextNext ==
  /\ UNCHANGED part
  /\ \/ /\ part = "receipts" /\ RNext
        /\ UNCHANGED <<uriVars, searchVars, browserVars, profileVars, envelopeVars>>
     \/ /\ part = "uri" /\ UriNext
        /\ UNCHANGED <<rvars, searchVars, browserVars, profileVars, envelopeVars>>
     \/ /\ part = "search" /\ SearchNext
        /\ UNCHANGED <<rvars, uriVars, browserVars, profileVars, envelopeVars>>
     \/ /\ \/ part = "authority" /\ AuthorityPart
           \/ part = "store" /\ StorePart
           \/ part = "browser" /\ BrowserPart
        /\ UNCHANGED <<rvars, uriVars, searchVars, profileVars, envelopeVars>>
     \/ /\ part = "profile" /\ ProfileNext /\ (asked = {} => MCAssembled(package'))
        /\ UNCHANGED <<rvars, uriVars, searchVars, browserVars, envelopeVars>>
     \/ /\ part = "envelope" /\ EnvelopeNext
        /\ UNCHANGED <<rvars, uriVars, searchVars, browserVars, profileVars>>

varsContext == <<part, rvars, uriVars, searchVars, browserVars, profileVars, envelopeVars>>

ContextSpec == ContextInit /\ [][ContextNext]_varsContext

-----------------------------------------------------------------------------
(* The properties of the parts. *)

\* A name has one text, and search is exact (rvm-context: uri.rs, resolver.rs).
UriSound ==
  /\ part = "uri" => OneText
  /\ part = "search" => SearchExact

\* Capabilities and what they disclose, against any resolver and against this one, and
\* the page's ring accounts for what the page changed (rvm-context: capability.rs,
\* runtime.rs, resolver.rs; rvm-context-wasm: lib.rs).
ContextSound ==
  /\ part \in {"authority", "browser"} => BoundWhileLive /\ DelegationAttenuates
  /\ part = "authority" => DisclosedInScope
  /\ part \in {"store", "browser"} => ForgottenUnreachable
  /\ part = "store" => RuntimeAcceptsResolver
  /\ part = "browser" => TrailAccountsForChanges

\* A revocation ends the whole branch, as long as no slot was taken that a live token's
\* list still names (rvm-context: capability.rs; rvm-cap: derivation.rs).
RevokedBranchesEnd == part \in {"authority", "browser"} => LineageLive

\* A profile describes what it hands out, compiling loses nothing, and a stored object
\* opens as it was sealed or not at all (rvm-context: profile.rs; rvm-context-service:
\* compiler.rs, crypto.rs).
PackagesReadBack ==
  /\ part = "profile" => BoundViewsAreDescribed /\ CompiledReadsBack
  /\ part = "envelope" => OpensAsSealed
=============================================================================
