--------------------------- MODULE MCRegistryCache ---------------------------
(* The TLC instance of RegistryCache, and of the lists it keeps: VersionList. *)
EXTENDS VersionList

RegistrySymmetry == Permutations(Pages)

Tag(text, semver) == [text |-> text, semver |-> semver]

(* 1.10.0, 1.9.0, 1.9.0-rc1, 2.0.0-rc1, and "1.5" and "beta" beside them: the  *)
(* order of texts is neither that of versions nor its reverse, and "1.5" is a  *)
(* text between those of two versions that the two orders compare differently. *)
MCTags == {Tag(1, <<10, 1>>), Tag(3, <<9, 1>>), Tag(4, <<9, 0>>),
           Tag(5, <<20, 0>>), Tag(6, NoSemver), Tag(2, NoSemver)}
MCEmpty == [text |-> 7, semver |-> NoSemver]
=============================================================================
