----------------------------- MODULE ArtifactFiles -----------------------------
(***************************************************************************)
(* From a repository to the policies of a version: which version is the    *)
(* newest, which files a pull leaves on disk and what is kept of them      *)
(* (getLatestTagOrDigestReal, getLatestArtifactoryTagReal, processLayer,   *)
(* pullImageToDirReal of src/internal/watcher/watcher.go).                 *)
(*                                                                         *)
(* A repository is the list of its versions as the registry reports it.  A *)
(* version has tags, the time of its latest update, and layers; a layer is *)
(* a YAML file, which is a sequence of documents.  A document is NoPolicy  *)
(* (empty) or a policy: a key (kind, namespace, name) and a spec.          *)
(***************************************************************************)
EXTENDS Naturals, SequencesExt

CONSTANTS
    NoPolicy,     \* an empty document
    NoSpec,       \* a policy without spec
    Refused       \* keys the API server refuses: a kind that no CRD defines,
                  \* or a namespaced kind without namespace

IsSeq(list) == list \in Seq(Range(list))
IsVersion(version) ==
    /\ version = [tags |-> version.tags, updated |-> version.updated, layers |-> version.layers]
    /\ version.updated \in Nat
    /\ IsSeq(version.tags) /\ IsSeq(version.layers)
    /\ \A layer \in Range(version.layers) :
           /\ IsSeq(layer)
           /\ \A document \in Range(layer) :
                  document = NoPolicy \/ document = [key |-> document.key, spec |-> document.spec]

(* A name made up for a version without tags. *)
VersionId == <<"version-id">>

Newest(versions) == Max({versions[i].updated : i \in DOMAIN versions})

(* Mutant: the first version of the list. *)
FirstListed(versions) ==
    IF versions[1].tags = <<>> THEN VersionId ELSE versions[1].tags[1]

(* GitHub: of the versions updated last the first one, by its first tag.    *)
getLatestTagOrDigest(versions) ==
    LET latest == Min({i \in DOMAIN versions : versions[i].updated = Newest(versions)})
    IN  IF versions[latest].tags = <<>> THEN VersionId ELSE versions[latest].tags[1]

(* Artifactory: the last tag in the list; versions without tag are not in it. *)
Tagged(versions) == {i \in DOMAIN versions : versions[i].tags # <<>>}
getLatestArtifactoryTag(versions) == Last(versions[Max(Tagged(versions))].tags)

(* What can be pulled under a tag. *)
Pulled(versions, tag) ==
    {version \in Range(versions) : tag \in Range(version.tags)}

(* The files of which something is applied: an empty layer leaves no file,  *)
(* and of a file whose first document is empty nothing reaches the cluster. *)
FilesOf(version) ==
    {i \in DOMAIN version.layers :
        version.layers[i] # <<>> /\ version.layers[i][1] # NoPolicy}

(* The file is written back with labels: its first document, and no other.  *)
FirstDocument(version, i) == version.layers[i][1]

AllDocuments(version) ==
    (UNION {Range(layer) : layer \in Range(version.layers)}) \ {NoPolicy}

(* checksumsChanged: whatever has no spec has another checksum every time.  *)
Differs(document, existing) ==
    existing = NoPolicy \/ existing.spec # document.spec \/ document.spec = NoSpec
=============================================================================
