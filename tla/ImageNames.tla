------------------------------ MODULE ImageNames ------------------------------
(***************************************************************************)
(* What Windplume reads in an image name: service_from_image of            *)
(* src/src/config.rs splits the image of a Compose service into repository *)
(* and version source, and image_artifact of src/src/compose.rs looks up   *)
(* the digest of that repository among the RepoDigests of a pulled image.  *)
(* A name is a sequence of words and of the separators "/", ":" and "@".   *)
(* References, what Docker takes them for, and the RepoDigests it records  *)
(* are external.  Names are read whenever Startup resolves a project or an *)
(* operation pulls; they have no state of their own.                       *)
(***************************************************************************)
EXTENDS Startup, Sequences, SequencesExt

CONSTANTS
    References,   \* [host, path, tag, digest] of the images in Compose files
    Words,        \* words and separators
    Dotted,       \* the words with a "." in them
    Digests,      \* the digests an image may have
    MaxDigests    \* bound: the RepoDigests of one image

Hubs == {"docker.io", "index.docker.io", "registry-1.docker.io"}
NoName == <<>>    \* no host, tag or digest in a reference; no result

-----------------------------------------------------------------------------
(* Docker: the text of a reference, and the repository it is about.          *)
Repository(r) == (IF r.host = NoName THEN <<>> ELSE r.host \o <<"/">>) \o r.path
Text(r) ==
    Repository(r)
    \o (IF r.tag = NoName THEN <<>> ELSE <<":">> \o r.tag)
    \o (IF r.digest = NoName THEN <<>> ELSE <<"@">> \o r.digest)

Repositories == {[r EXCEPT !.tag = NoName, !.digest = NoName] : r \in References}

OnHub(r) == r.host = NoName \/ (Len(r.host) = 1 /\ r.host[1] \in Hubs)

(* Its grammar: a host is told from a path by its dot, its port or its name,   *)
(* and nobody on Docker Hub has a dot in his name or is called localhost.      *)
Separators == {"/", ":", "@"}
IsHost(h) ==
    \/ Len(h) = 1 /\ h[1] \in Dotted \cup {"localhost"}
    \/ Len(h) = 3 /\ h[2] = ":" /\ {h[1], h[3]} \cap Separators = {}
IsReference(r) ==
    /\ r \in [host : Seq(Words), path : Seq(Words), tag : Seq(Words), digest : Seq(Words)]
    /\ r.host = NoName \/ IsHost(r.host)
    /\ Len(r.path) % 2 = 1
    /\ \A k \in 1 .. Len(r.path) :
          IF k % 2 = 0 THEN r.path[k] = "/" ELSE r.path[k] \notin Separators
    /\ OnHub(r) => r.path[1] \notin Dotted \cup {"localhost"}
    /\ ToSet(r.tag) \cap Separators = {}

ASSUME ImageNamesAssumption ==
    /\ MaxDigests \in Nat
    /\ Hubs \subseteq Dotted /\ "library" \notin Dotted
    /\ Separators \cup Hubs \cup {"library", "localhost"} \subseteq Words
    /\ Dotted \subseteq Words \ Separators
    /\ \A r \in References : IsReference(r)

HubPath(r) == IF Contains(r.path, "/") THEN r.path ELSE <<"library", "/">> \o r.path
SourceOf(r) ==
    IF OnHub(r)
    THEN [kind |-> "docker_hub", namespace |-> <<HubPath(r)[1]>>,
          repository |-> SubSeq(HubPath(r), 3, Len(HubPath(r)))]
    ELSE [kind |-> "oci_registry", registry |-> r.host, repository |-> r.path]

(* Docker drops docker.io, index.docker.io and library/ from what it shows.  *)
Familiar(r) ==
    IF r.host \in {NoName, <<"docker.io">>, <<"index.docker.io">>}
    THEN IF Len(r.path) = 3 /\ r.path[1] = "library" THEN <<r.path[3]>> ELSE r.path
    ELSE Repository(r)

-----------------------------------------------------------------------------
UpTo(s, i)  == SubSeq(s, 1, i - 1)
Beyond(s, i) == SubSeq(s, i + 1, Len(s))
Places(s, sep)  == {i \in DOMAIN s : s[i] = sep}
FirstAt(s, sep) == Min(Places(s, sep) \cup {Len(s) + 1})    \* Len(s) + 1: not found
LastAt(s, sep)  == Max(Places(s, sep) \cup {0})             \* 0: not found

(* repository: the image up to its digest and its tag; a ":" before the last *)
(* "/" is the port of the registry.                                          *)
Undigested(text) == UpTo(text, FirstAt(text, "@"))
FaultyUntagged(text) == UpTo(Undigested(text), FirstAt(Undigested(text), ":"))
Untagged(text) ==
    LET s == Undigested(text)
    IN  IF LastAt(s, ":") > LastAt(s, "/") THEN UpTo(s, LastAt(s, ":")) ELSE s

(* NoName where the code bails out. *)
docker_hub_source(path) ==
    LET alone     == ~Contains(path, "/")
        namespace == IF alone THEN <<"library">> ELSE UpTo(path, FirstAt(path, "/"))
        name      == IF alone THEN path ELSE Beyond(path, FirstAt(path, "/"))
    IN  IF namespace = <<>> \/ name = <<>> THEN NoName
        ELSE [kind |-> "docker_hub", namespace |-> namespace, repository |-> name]

has_registry(first) == first = <<"localhost">> \/ ToSet(first) \cap (Dotted \cup {":"}) # {}

Source(text) ==
    LET repository == Untagged(text)
        i          == FirstAt(repository, "/")
        first      == UpTo(repository, i)
        path       == Beyond(repository, i)
    IN  IF repository = <<>> THEN NoName
        ELSE IF ~has_registry(first) THEN docker_hub_source(repository)
        ELSE IF ~Contains(repository, "/") THEN NoName
        ELSE IF \E h \in Hubs : first = <<h>> THEN docker_hub_source(path)
        ELSE [kind |-> "oci_registry", registry |-> first, repository |-> path]

service_from_image(text) == [image |-> Untagged(text), version_source |-> Source(text)]

-----------------------------------------------------------------------------
(* trim_start_matches: every leading repetition of host/ goes. *)
Trim(s, host) ==
    LET Leading(n) == \A i \in 1 .. n : s[2 * i - 1] = host /\ s[2 * i] = "/"
        n == CHOOSE k \in 0 .. Len(s) \div 2 :
                 Leading(k) /\ \A j \in 0 .. Len(s) \div 2 : Leading(j) => j <= k
    IN  SubSeq(s, 2 * n + 1, Len(s))

Normalized(s) ==
    LET t == Trim(Trim(Trim(s, "docker.io"), "index.docker.io"), "registry-1.docker.io")
    IN  IF Contains(t, "/") THEN t ELSE <<"library", "/">> \o t

repositories_match(left, right) == left = right \/ Normalized(left) = Normalized(right)

(* find over RepoDigests; NoName: "已拉取镜像缺少目标仓库的 RepoDigest".       *)
image_artifact(recorded, repository) ==
    LET found == {k \in DOMAIN recorded : repositories_match(recorded[k].repo, repository)}
    IN  IF found = {} THEN NoName ELSE recorded[Min(found)].digest

(* The RepoDigests of an image that came from several repositories, in any     *)
(* order.                                                                      *)
Recorded == [repo : {Familiar(r) : r \in Repositories}, digest : Digests]
RepoDigests ==
    {s \in BoundedSeq(Recorded, MaxDigests) :
        s # <<>> /\ \A i, j \in DOMAIN s : i # j => s[i] # s[j]}

-----------------------------------------------------------------------------
(* The names, pairs and lists of RepoDigests that are read wrongly.            *)
WronglySplit ==
    {r \in References :
        service_from_image(Text(r)) #
            [image |-> Repository(r), version_source |-> SourceOf(r)]}

WronglyMatched ==
    {p \in [local : Repositories, image : Repositories] :
        ~(repositories_match(Familiar(p.local), Text(p.image))
            <=> SourceOf(p.local) = service_from_image(Text(p.image)).version_source)}

WronglyPinned ==
    {p \in [image : Repositories, recorded : RepoDigests] :
        LET own     == {Familiar(r) : r \in {q \in Repositories :
                                                SourceOf(q) = SourceOf(p.image)}}
            digests == {d.digest : d \in {e \in ToSet(p.recorded) : e.repo \in own}}
            pinned  == image_artifact(p.recorded, Text(p.image))
        IN  IF digests = {} THEN pinned # NoName ELSE pinned \notin digests}

(* Wherever the tag, the digest and the port of a registry stand, the service's *)
(* base image is the repository Docker takes the name for, and its versions are *)
(* asked of that repository: service_from_image inverts the text of a name.     *)
SourceOfImage == WronglySplit = {}

(* repositories_match, which pairs local images with services, holds of two     *)
(* names exactly when service_from_image gives them the same version source.    *)
MatchIsSameSource == WronglyMatched = {}

(* The digest a deployment pins is one recorded for the service's repository,   *)
(* however many other repositories the same image came from, and one is found   *)
(* if there is any, in whichever form Docker shows the repository.              *)
PinnedInRepository == WronglyPinned = {}

(* Every name read since a project was resolved is about the repository Docker *)
(* means by it.                                                                *)
NamesReadAsDocker ==
    Loaded # {} => SourceOfImage /\ MatchIsSameSource /\ PinnedInRepository
=============================================================================
