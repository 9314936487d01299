------------------------------- MODULE MCDelivery -------------------------------
(* Small instances of Delivery for TLC. *)
EXTENDS Delivery

MCHosts == {"ghcr.io", "art.io"}

(* The secret has a name of its own and the keys of both providers. *)
MCOperatorEnv ==
    [setting \in Settings |->
        IF setting = "WATCHER_SECRET_NAME" THEN "my-secret" ELSE Unset]
MCSecrets ==
    {<<"my-secret", "github-token">>, <<"my-secret", "artifactory-username">>,
     <<"my-secret", "artifactory-password">>}

Url(host, port, path, tag) == [host |-> host, port |-> port, path |-> path, tag |-> tag]
GitHubTagged == Url(<<"ghcr.io">>, NoTag, <<"octo", "pol">>, <<"v1">>)
GitHubNested == Url(<<"ghcr.io">>, NoTag, <<"octo", "team", "pol">>, NoTag)
GitHubLatest == Url(<<"ghcr.io">>, NoTag, <<"octo", "pol">>, LatestTag)
ArtifactoryTagged == Url(<<"art.io">>, NoTag, <<"pol">>, <<"v1">>)
ArtifactoryUntagged == Url(<<"art.io">>, NoTag, <<"pol">>, NoTag)
WithPort == Url(<<"art.io">>, <<"5000">>, <<"octo", "pol">>, <<"v1">>)
WithPortUntagged == Url(<<"art.io">>, <<"5000">>, <<"octo", "pol">>, NoTag)
WithoutHost == Url(NoTag, NoTag, <<"octo", "pol">>, <<"v1">>)

MCFieldValues ==
    [f \in Fields |->
        CASE f = "url" -> {Unset, GitHubTagged, GitHubNested, ArtifactoryTagged,
                           ArtifactoryUntagged, GitHubLatest,
                           WithPort, WithPortUntagged, WithoutHost}
          [] f = "provider" -> {Unset, "github", "artifactory", "GitHub"}
          [] f = "pollingInterval" -> {Unset, 0, 30}
          [] OTHER -> {Unset, TRUE, FALSE}]

Artifact(url, provider) ==
    [url |-> url, provider |-> provider, pollingInterval |-> Unset,
     pollForTagChanges |-> Unset, reconcilePoliciesFromChecksum |-> Unset]
MCInitialSpecs ==
    {Artifact(GitHubTagged, Unset),
     [Artifact(GitHubNested, "github") EXCEPT !.reconcilePoliciesFromChecksum = TRUE],
     Artifact(ArtifactoryUntagged, "artifactory"),
     [Artifact(ArtifactoryTagged, "artifactory") EXCEPT !.reconcilePoliciesFromChecksum = TRUE]}

MCKeys == {"p", "q", "r", "refused"}
Policy(key, content) == [key |-> key, spec |-> content]

(* Files of one document, of two, of none, an empty document, a policy      *)
(* without spec and one that the API server refuses.                        *)
Version(tags, updated, content) ==
    [tags |-> tags, updated |-> updated,
     layers |-> << <<Policy("p", content)>>, <<Policy("q", content), Policy("r", content)>>,
                   <<>>, <<NoPolicy, Policy("r", content)>>, <<Policy("refused", content)>> >>]

Repository(host, path) == [valid |-> TRUE, host |-> host, path |-> path]
MCRegistry ==
    Repository(<<"ghcr.io">>, <<"octo", "/", "pol">>) :>
            << Version(<< <<"v2">>, LatestTag >>, 2, "two"), Version(<< <<"v1">> >>, 1, "one") >>
    @@ Repository(<<"ghcr.io">>, <<"octo", "/", "team", "/", "pol">>) :>
            << Version(<< <<"v1">> >>, 1, "team") >>
    @@ Repository(<<"art.io">>, <<"pol">>) :> << Version(<< <<"v1">> >>, 1, "three") >>

(* A new version that defines p twice, a moved tag, a version without tag.  *)
MCPushes ==
    {[tags |-> << <<"v3">> >>,
      layers |-> << <<Policy("p", "new")>>, <<Policy("p", "other")>> >>],
     [tags |-> << <<"v1">> >>,
      layers |-> << <<Policy("p", "moved")>>, <<Policy("q", NoSpec)>> >>],
     [tags |-> <<>>, layers |-> << <<Policy("p", "untagged")>> >>]}

(* The hypothesis of the theorems of DeliveryProofs holds here. *)
ASSUME HostNamedAssumption == HostNamed
=============================================================================
