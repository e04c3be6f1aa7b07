----------------------------- MODULE ContextUri -----------------------------
(***************************************************************************)
(* Canonical ruv:// names (rvm-context/src/uri.rs): parsing, building,     *)
(* pinning to a revision, selecting a view and printing back.              *)
(*                                                                         *)
(* A text is what splitting at "?", "/" and "&" leaves: the components of  *)
(* the hierarchy and the entries of the query.  A component is a member of *)
(* a small set; which of them are slugs, authorities or path segments, and *)
(* how many bytes each has, are constants.  Every UriError is UriRefused.  *)
(***************************************************************************)
EXTENDS Integers, Sequences, FiniteSets, SequencesExt

CONSTANTS AuthorityName,       \* components that are canonical DNS authorities
          Slug,                \* components that are tenant or subject slugs
          SegmentName,         \* components that are path segments
          UriRevision,         \* the revisions
          Bytes,               \* the length of each component, key and value
          UriText,             \* the texts a caller may parse
          MAX_URI_BYTES, MAX_PATH_SEGMENTS, MAX_PATH_BYTES

VARIABLES text,                \* the text the name was parsed from, or NoText
          name                 \* the RuvUri the caller holds, or UriRefused

uriVars == <<text, name>>

SubjectKind == {"agent", "user", "service", "team"}
Collection == {"memory", "resources", "skills"}
ProgressiveView == {"abstract", "overview", "content"}
Missing == "missing"           \* None, of a revision or of a view
UriRefused == [refused |-> TRUE]
NoText == [forbidden |-> TRUE, scheme |-> FALSE, queried |-> FALSE, query |-> <<>>, parts |-> <<>>]

SumBytes(parts) == FoldLeft(LAMBDA n, part : n + Bytes[part], 0, parts)

\* optional_path_bytes: the segments and the slashes between them.
optional_path_bytes(path) == SumBytes(path) + (IF path = <<>> THEN 0 ELSE Len(path) - 1)

BugCanonicalLen(u) ==
    6 + SumBytes(<<u.authority, u.tenant, u.kind, u.id, u.collection>>) + 4
      + SumBytes(u.path) + Len(u.path)
      + (IF u.revision = Missing THEN 0 ELSE 4 + Bytes[u.revision])
      + (IF u.view = Missing THEN 0 ELSE 1 + 5 + Bytes[u.view])

\* canonical_len: the bytes Display prints, counted without printing.
canonical_len(u) ==
    6 + SumBytes(<<u.authority, u.tenant, u.kind, u.id, u.collection>>) + 4
      + SumBytes(u.path) + Len(u.path)
      + (IF u.revision = Missing THEN 0 ELSE 1 + 4 + Bytes[u.revision])
      + (IF u.view = Missing THEN 0 ELSE 1 + 5 + Bytes[u.view])

validate_complete(u) ==
    /\ Len(u.path) <= MAX_PATH_SEGMENTS
    /\ optional_path_bytes(u.path) <= MAX_PATH_BYTES
    /\ canonical_len(u) <= MAX_URI_BYTES

Checked(u) == IF validate_complete(u) THEN u ELSE UriRefused

\* reject_forbidden_octets: a byte outside ASCII, a "%" or a "#".
HasForbiddenOctets(t) == t.forbidden

\* new_prevalidated of the components; which texts are well formed is a constant.
IsAuthority(part) == part \in AuthorityName
is_slug(part) == part \in Slug
IsTenantId(part) == is_slug(part)
IsSubjectId(part) == is_slug(part)
IsPathSegment(part) == part \in SegmentName
IsRevision(value) == value \in UriRevision

ValidComponents(parts) ==
    /\ IsAuthority(parts[1])
    /\ IsTenantId(parts[2])
    /\ parts[3] \in SubjectKind
    /\ IsSubjectId(parts[4])
    /\ parts[5] \in Collection
    /\ \A i \in 6..Len(parts) : IsPathSegment(parts[i])

(* parse_query: "rev" then "view", each at most once; an entry is a key and *)
(* a value, and one without exactly one "=" has the key "".                 *)
ValidQuery(query) ==
    /\ Len(query) \in 1..2
    /\ \A i \in DOMAIN query :
          \/ query[i].key = "rev" /\ IsRevision(query[i].value)
          \/ query[i].key = "view" /\ query[i].value \in ProgressiveView
    /\ Len(query) = 2 => query[1].key = "rev" /\ query[2].key = "view"

Entry(query, key) ==
    IF \E i \in DOMAIN query : query[i].key = key
    THEN query[CHOOSE i \in DOMAIN query : query[i].key = key].value
    ELSE Missing

\* The length of a text: the scheme, the components and slashes, the query.
TextBytes(t) ==
    6 + SumBytes(t.parts) + Len(t.parts) - 1
      + FoldLeft(LAMBDA n, e : n + 1 + Bytes[e.key] + 1 + Bytes[e.value], 0, t.query)

\* RuvUri::from_str: a text whose hierarchy ends in "/" has a last component "".
parse(t) ==
    IF /\ TextBytes(t) <= MAX_URI_BYTES
       /\ ~ HasForbiddenOctets(t)
       /\ t.scheme
       /\ Len(t.parts) >= 5
       /\ \A i \in DOMAIN t.parts : t.parts[i] # ""
       /\ ValidComponents(t.parts)
       /\ Len(t.parts) - 5 <= MAX_PATH_SEGMENTS
       /\ optional_path_bytes(SubSeq(t.parts, 6, Len(t.parts))) <= MAX_PATH_BYTES
       /\ ~ t.queried \/ ValidQuery(t.query)
    THEN Checked([authority |-> t.parts[1], tenant |-> t.parts[2], kind |-> t.parts[3],
                  id |-> t.parts[4], collection |-> t.parts[5],
                  path |-> SubSeq(t.parts, 6, Len(t.parts)),
                  revision |-> Entry(t.query, "rev"), view |-> Entry(t.query, "view")])
    ELSE UriRefused

\* Display: the text of a name, with "rev" before "view".
display(u) ==
    LET query == (IF u.revision = Missing THEN <<>> ELSE <<[key |-> "rev", value |-> u.revision]>>)
                 \o (IF u.view = Missing THEN <<>> ELSE <<[key |-> "view", value |-> u.view]>>)
    IN  [forbidden |-> FALSE, scheme |-> TRUE, queried |-> query # <<>>, query |-> query,
         parts |-> <<u.authority, u.tenant, u.kind, u.id, u.collection>> \o u.path]

(***************************************************************************)
(* What a caller does with names.                                          *)
(***************************************************************************)
Parse(t) ==
    /\ text = NoText /\ name = UriRefused
    /\ text' = t
    /\ name' = parse(t)

\* RuvUriBuilder: the parts are valid already; build checks the whole.
Build(a, s, path) ==
    /\ name' = Checked([authority |-> a, tenant |-> s, kind |-> "user", id |-> s,
                        collection |-> "memory", path |-> path,
                        revision |-> Missing, view |-> Missing])
    /\ text' = NoText

with_revision(r) ==
    /\ name # UriRefused
    /\ name' = Checked([name EXCEPT !.revision = r])
    /\ text' = NoText

with_view(v) ==
    /\ name # UriRefused
    /\ name' = Checked([name EXCEPT !.view = v])
    /\ text' = NoText

UriInit == text = NoText /\ name = UriRefused

UriNext ==
    \/ \E t \in UriText : Parse(t)
    \/ \E a \in AuthorityName, s \in Slug :
          \E n \in 0..(MAX_PATH_SEGMENTS + 1) : \E path \in [1..n -> SegmentName] : Build(a, s, path)
    \/ \E r \in UriRevision : with_revision(r)
    \/ \E v \in ProgressiveView : with_view(v)

(* A name has one text: whatever sequence of parsing, building, pinning and *)
(* selecting a view led to it, printing it gives a text of canonical_len    *)
(* bytes that parses back to the same name, and a text that parses is the   *)
(* text its name prints (uri.rs says names are canonical; the durable store *)
(* keys objects by the printed text).                                       *)
OneText ==
    /\ name # UriRefused => /\ TextBytes(display(name)) = canonical_len(name)
                         /\ parse(display(name)) = name
    /\ parse(text) # UriRefused => display(parse(text)) = text

-----------------------------------------------------------------------------
(***************************************************************************)
(* Lexical search of the in-memory resolver (rvm-context: resolver.rs):    *)
(* the Knuth-Morris-Pratt matcher that scores one document, and the        *)
(* bounded list of best hits the documents are pushed into one by one.     *)
(***************************************************************************)

CONSTANTS
    Query,        \* byte strings searched for
    Document,     \* bytes of the view a document is scored by; <<>> when the profile lacks it
    HitUri,       \* pinned URIs, as numbers in their order
    SearchLimit   \* result limits

ASSUME SearchNumbers == HitUri \subseteq Nat /\ SearchLimit \subseteq Nat \ {0}

VARIABLES query, limit, scored, hits
    \* scored: the documents seen so far, by URI; hits: the list as push_top_hit keeps it

searchVars == <<query, limit, scored, hits>>

\* QueryMatcher::new: failure[i] is also what `matched` is after index i.
QueryMatcher(needle) ==
    LET failure[i \in 1 .. Len(needle)] ==
          IF i = 1 THEN 0
          ELSE LET back[k \in 0 .. i - 1] ==
                     IF k = 0 \/ needle[k + 1] = needle[i] THEN k ELSE back[failure[k]]
                   matched == back[failure[i - 1]]
               IN  IF needle[matched + 1] = needle[i] THEN matched + 1 ELSE 0
    IN  failure

\* Where the scan goes on after a full match, so that overlapping ones count.
AfterMatch(needle, failure) == failure[Len(needle)]

occurrence_count(needle, haystack) ==
    LET failure == QueryMatcher(needle)
        n == Len(needle)
        \* <<matched, count>> after i bytes.
        scan[i \in 0 .. Len(haystack)] ==
          IF i = 0 THEN <<0, 0>>
          ELSE LET s == scan[i - 1]
                   back[k \in 0 .. n - 1] ==
                     IF k = 0 \/ needle[k + 1] = haystack[i] THEN k ELSE back[failure[k]]
                   matched == back[s[1]]
               IN  CASE needle[matched + 1] # haystack[i] -> <<matched, s[2]>>
                     [] matched + 1 = n -> <<AfterMatch(needle, failure), s[2] + 1>>
                     [] OTHER -> <<matched + 1, s[2]>>
    IN  IF n = 0 \/ Len(haystack) < n THEN 0 ELSE scan[Len(haystack)][2]

score_view(needle, view) == IF view = <<>> THEN 0 ELSE occurrence_count(needle, view)

\* compare_hits is Less.
Better(a, b) == a.score > b.score \/ (a.score = b.score /\ a.uri < b.uri)

push_top_hit(list, max, hit) ==
    IF Len(list) < max THEN Append(list, hit)
    ELSE LET worst == CHOOSE i \in DOMAIN list : \A j \in DOMAIN list \ {i} : Better(list[j], list[i])
         IN  IF Better(hit, list[worst]) THEN [list EXCEPT ![worst] = hit] ELSE list

-----------------------------------------------------------------------------
SearchInit ==
    /\ query \in Query /\ limit \in SearchLimit
    /\ scored = <<>> /\ hits = <<>>

\* One turn of search's loop over the aliases; a document that scores 0 is skipped.
ScoreNext(u, view) ==
    LET score == score_view(query, view)
    IN  /\ u \notin DOMAIN scored
        /\ scored' = [v \in DOMAIN scored \cup {u} |-> IF v = u THEN view ELSE scored[v]]
        /\ hits' = IF score = 0 THEN hits ELSE push_top_hit(hits, limit, [uri |-> u, score |-> score])
        /\ UNCHANGED <<query, limit>>

SearchNext == \E u \in HitUri, view \in Document : ScoreNext(u, view)

-----------------------------------------------------------------------------
(* Properties *)

\* What a score means: the number of places the query occurs at, overlaps included.
Occurrences(needle, view) ==
    Cardinality({i \in 1 .. Len(view) : i + Len(needle) - 1 <= Len(view)
                   /\ SubSeq(view, i, i + Len(needle) - 1) = needle})

\* In whatever order the aliases are stored, search keeps exactly the best `limit`
\* of the documents that contain the query, each with the true number of (also
\* overlapping) occurrences: the matcher's failure table and the replace-the-worst
\* list together agree with counting and sorting everything.
SearchExact ==
    LET all == {[uri |-> u, score |-> Occurrences(query, scored[u])] : u \in DOMAIN scored}
        found == {h \in all : h.score > 0}
        best == {h \in found : Cardinality({g \in found : Better(g, h)}) < limit}
    IN  /\ {hits[i] : i \in DOMAIN hits} = best
        /\ Len(hits) = Cardinality(best)
=============================================================================
