----------------------------- MODULE VersionList -----------------------------
(***************************************************************************)
(* normalize of src/src/registry.rs: the list of versions made of the tags *)
(* a registry answered, and the version app.js offers as the latest one.   *)
(* A tag is its place in the order of texts and, if it is a semantic       *)
(* version, its precedence: <<n, 1>> a release x.y.z, <<n, 0>> one of its  *)
(* pre-releases.  RegistryCache has the life of such a list; how it is     *)
(* made of an answer has no state.                                         *)
(***************************************************************************)
EXTENDS RegistryCache, Sequences, SequencesExt

CONSTANTS
    Tags,        \* [text, semver]: different tags have different texts
    NoSemver,    \* Version::parse fails
    EmptyTag,    \* a tag that the pattern ^.+$ refuses
    MaxTags      \* bound: the length of an answer

(* Version::parse loses nothing of a tag: different tags are different versions. *)
ASSUME VersionAssumption ==
    /\ MaxTags \in Nat
    /\ \A t \in Tags : t.text \in Nat /\ t.semver \in (Nat \X {0, 1}) \cup {NoSemver}
    /\ \A t, u \in Tags :
          t.text = u.text \/ (t.semver = u.semver /\ t.semver # NoSemver) => t = u

(* RawVersion of oci_versions, in the registry's order. *)
RawAnswers == BoundedSeq(Tags \cup {EmptyTag}, MaxTags)

-----------------------------------------------------------------------------
IsSemver(t) == t.semver # NoSemver
Higher(v, w) == v[1] > w[1] \/ (v[1] = w[1] /\ v[2] > w[2])

FaultyByText(t, u) == t.text > u.text

(* The comparison of sort_by; the tags of a registry carry no dates. *)
Precedes(t, u) ==
    CASE IsSemver(t) /\ IsSemver(u) -> Higher(t.semver, u.semver)
      [] IsSemver(t) # IsSemver(u)  -> IsSemver(t)
      [] OTHER                      -> t.text > u.text

(* filter with the pattern, and the set of tags seen *)
Matching(r) == {t \in ToSet(r) : t # EmptyTag}

(* sort_by: the k-th tag is the one that k - 1 others precede. *)
Before(S, t) == {u \in S : Precedes(u, t)}
Sorted(S) ==
    [k \in 1 .. Cardinality(S) |-> CHOOSE t \in S : Cardinality(Before(S, t)) = k - 1]

normalize(r) == Sorted(Matching(r))

(* selectService of app.js: the first x.y.z of the list; none if there is none. *)
Plain(t) == IsSemver(t) /\ t.semver[2] = 1
Latest(list) ==
    {list[k] : k \in {j \in DOMAIN list :
                        Plain(list[j]) /\ \A i \in 1 .. j - 1 : ~Plain(list[i])}}

-----------------------------------------------------------------------------
(* sort_by may panic unless the comparison is a total order of the tags, those *)
(* that are semantic versions and those that are not taken together.           *)
ComparisonTotal ==
    /\ \A t, u \in Tags : t # u => (Precedes(t, u) <=> ~Precedes(u, t))
    /\ \A t, u, w \in Tags : Precedes(t, u) /\ Precedes(u, w) => Precedes(t, w)

(* The answers whose list loses or repeats a tag, and those whose latest       *)
(* version is not the highest release.                                         *)
Incomplete ==
    {raw \in RawAnswers :
        LET list == normalize(raw) IN
        \/ ToSet(list) # ToSet(raw) \ {EmptyTag}
        \/ Len(list) # Cardinality(ToSet(list))}

Misleading ==
    {raw \in RawAnswers :
        LET releases == {t \in ToSet(raw) : t # EmptyTag /\ Plain(t)}
        IN  Latest(normalize(raw)) #
                {t \in releases : \A u \in releases : ~Higher(u.semver, t.semver)}}

(* Whatever order and repetitions the registry answers a page with, each tag   *)
(* is listed once and none is lost, and the version offered as the latest one  *)
(* is the highest release x.y.z, found if there is any, whatever pre-releases  *)
(* and other tags there are.                                                   *)
ListSound ==
    answer # Silence => ComparisonTotal /\ Incomplete = {} /\ Misleading = {}
=============================================================================
