------------------------------- MODULE ImageRef -------------------------------
(***************************************************************************)
(* The places in src/internal/watcher that take an image reference apart.  *)
(* A reference is a sequence of words and of the separators ":" and "/";   *)
(* a tag is what follows a ":", so it may turn out to be no single word.   *)
(* Digest references ("@") are left out.                                   *)
(***************************************************************************)
EXTENDS Naturals, FiniteSets, SequencesExt

CONSTANT Hosts    \* the words that contain a dot

Invalid == [valid |-> FALSE]    \* an error of the parser
NoTag == <<>>
LatestTag == <<"latest">>

(* What somebody writes: a host, a port or none, a path of at least one     *)
(* component, a tag or none.  Written is its spelling.                      *)
Joined(path) == [i \in 1..2 * Len(path) - 1 |-> IF i % 2 = 1 THEN path[(i + 1) \div 2] ELSE "/"]
Written(ref) ==
    (IF ref.host = NoTag THEN <<>> ELSE ref.host)
        \o (IF ref.port = NoTag THEN <<>> ELSE <<":">> \o ref.port)
        \o (IF ref.host = NoTag THEN <<>> ELSE <<"/">>)
        \o Joined(ref.path)
        \o (IF ref.tag = NoTag THEN <<>> ELSE <<":">> \o ref.tag)

(* The parts are words, and nothing in them is a separator.  A host is one  *)
(* by its dot; without one, the first of several components has none.       *)
IsWord(text) == Len(text) = 1 /\ text = <<text[1]>> /\ text[1] \notin {":", "/"}
IsPath(path) ==
    /\ path # <<>> /\ path \in Seq(Range(path))
    /\ Range(path) \cap {":", "/"} = {}
IsReference(ref) ==
    /\ \A part \in {ref.host, ref.port, ref.tag} : part = NoTag \/ IsWord(part)
    /\ IsPath(ref.path)
    /\ IF ref.host = NoTag
       THEN ref.port = NoTag /\ (Len(ref.path) > 1 => ref.path[1] \notin Hosts)
       ELSE ref.host[1] \in Hosts

(* The repository that is meant by it. *)
RepositoryOf(ref) ==
    [valid |-> TRUE,
     host |-> ref.host \o (IF ref.port = NoTag THEN <<>> ELSE <<":">> \o ref.port),
     path |-> Joined(ref.path)]

(* Owner and package that are meant by it. *)
PackageOf(ref) ==
    [valid |-> TRUE, owner |-> <<ref.path[1]>>, package |-> Joined(Tail(ref.path))]

-----------------------------------------------------------------------------
Positions(text, c) == {i \in DOMAIN text : text[i] = c}
Has(text, c) == Positions(text, c) # {}

BeforeFirst(text, c) ==
    IF Has(text, c) THEN SubSeq(text, 1, Min(Positions(text, c)) - 1) ELSE text
AfterFirst(text, c) == SubSeq(text, Min(Positions(text, c)) + 1, Len(text))
BeforeLast(text, c) == SubSeq(text, 1, Max(Positions(text, c)) - 1)
AfterLast(text, c) == SubSeq(text, Max(Positions(text, c)) + 1, Len(text))

(* Owner and package for the API of GitHub: at least three components.      *)
parseImageBase(imageBase) ==
    LET base == BeforeFirst(imageBase, ":")
        rest == AfterFirst(base, "/")
    IN  IF Cardinality(Positions(base, "/")) < 2 THEN Invalid
        ELSE [valid |-> TRUE, owner |-> BeforeFirst(rest, "/"),
              package |-> AfterFirst(rest, "/")]

(* Pinned mode: the part after the last ":", unless it has a "/".           *)
PinnedTag(imageBase) ==
    IF Has(imageBase, ":") /\ ~Has(AfterLast(imageBase, ":"), "/")
    THEN AfterLast(imageBase, ":") ELSE NoTag

(* Polling Artifactory: the part after the last ":", whatever it is; NoTag  *)
(* when the registry has to be asked.                                       *)
ArtifactoryTag(imageBase) ==
    IF Has(imageBase, ":") /\ AfterLast(imageBase, ":") # LatestTag
    THEN AfterLast(imageBase, ":") ELSE NoTag

(* Once (interval 0): name.ParseReference(...).Identifier().                *)
Identifier(imageBase) ==
    IF PinnedTag(imageBase) = NoTag THEN LatestTag ELSE PinnedTag(imageBase)

(* The repository whose tags Artifactory is asked for.                      *)
ArtifactoryRepository(imageBase) ==
    LET base == BeforeFirst(imageBase, ":")
    IN  IF ~Has(base, "/") THEN Invalid
        ELSE [valid |-> TRUE, host |-> BeforeFirst(base, "/"), path |-> AfterFirst(base, "/")]

(* Mutant: the reference is taken as it is when it has a tag. *)
OwnTagFirst(imageBase, tag) ==
    IF PinnedTag(imageBase) # NoTag THEN imageBase ELSE imageBase \o <<":">> \o tag

(* The reference to pull: cut at the first ":", then the tag.               *)
PullReference(imageBase, tag) == BeforeFirst(imageBase, ":") \o <<":">> \o tag

(* The tag that is asked for, the same in both clients.                     *)
ReferenceTag(ref) == AfterLast(ref, ":")

(* name.ParseReference: the first component is a host if it looks like one; *)
(* if not, the repository is one of Docker Hub.                             *)
ParseReference(ref) ==
    LET tagged == Has(ref, ":") /\ ~Has(AfterLast(ref, ":"), "/")
        base == IF tagged THEN BeforeLast(ref, ":") ELSE ref
        first == BeforeFirst(base, "/")
        isHost == Has(base, "/") /\ (Has(first, ":") \/ first[1] \in Hosts)
    IN  [valid |-> TRUE,
         host |-> IF isHost THEN first ELSE <<"index.docker.io">>,
         path |-> IF isHost THEN AfterFirst(base, "/") ELSE base]

(* ORAS: the first component is the registry; a tag is a single word.       *)
OrasReference(ref) ==
    IF ~Has(ref, "/") \/ Has(ReferenceTag(ref), "/") THEN Invalid
    ELSE [valid |-> TRUE, host |-> BeforeFirst(ref, "/"),
          path |-> BeforeFirst(AfterFirst(ref, "/"), ":")]
=============================================================================
