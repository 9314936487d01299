----------------------------- MODULE Configuration -----------------------------
(***************************************************************************)
(* How the spec of a KyvernoArtifact becomes the configuration of its      *)
(* watcher: the operator turns it into the environment of a pod            *)
(* (kyvernoartifact_controller.go) and the watcher reads that environment  *)
(* (loadConfig in watcher/schema.go).  Each side has defaults of its own.  *)
(***************************************************************************)
EXTENDS Naturals, ImageRef

CONSTANTS
    Unset,          \* a field, or a variable, that is not set
    OperatorEnv,    \* the operator's own environment
    Secrets         \* <<secret, key>> with a value in the artifact's namespace

Settings == {"WATCHER_SECRET_NAME", "GITHUB_TOKEN_KEY",
             "ARTIFACTORY_USERNAME_KEY", "ARTIFACTORY_PASSWORD_KEY"}

ASSUME OperatorEnvAssumption == DOMAIN OperatorEnv = Settings
ASSUME UnsetAssumption == Unset \notin Nat

getEnvOrDefault(value, default) == IF value = Unset THEN default ELSE value

DefaultConfig ==
    LET setting(key, default) == getEnvOrDefault(OperatorEnv[key], default)
    IN  [SecretName |-> setting("WATCHER_SECRET_NAME", "kyverno-watcher-secret"),
         GitHubTokenKey |-> setting("GITHUB_TOKEN_KEY", "github-token"),
         ArtifactoryUsernameKey |-> setting("ARTIFACTORY_USERNAME_KEY", "artifactory-username"),
         ArtifactoryPasswordKey |-> setting("ARTIFACTORY_PASSWORD_KEY", "artifactory-password")]

-----------------------------------------------------------------------------
(* The operator. *)

(* Secret keys by variable; the provider is compared as it is written.      *)
Credentials(provider) ==
    LET key(name) == <<DefaultConfig.SecretName, name>>
    IN  CASE provider = "github" ->
               [GITHUB_TOKEN |-> key(DefaultConfig.GitHubTokenKey)]
          [] provider = "artifactory" ->
               [ARTIFACTORY_USERNAME |-> key(DefaultConfig.ArtifactoryUsernameKey),
                ARTIFACTORY_PASSWORD |-> key(DefaultConfig.ArtifactoryPasswordKey)]
          [] OTHER -> <<>>

ImageBase(spec) == IF spec.url = Unset THEN <<>> ELSE Written(spec.url)

Environment(spec) ==
    [IMAGE_BASE |-> ImageBase(spec),
     POLL_INTERVAL |-> getEnvOrDefault(spec.pollingInterval, 60),
     PROVIDER |-> getEnvOrDefault(spec.provider, "github"),
     POLL_FOR_TAG_CHANGES |-> spec.pollForTagChanges,
     CHECKSUM_RECONCILIATION |-> spec.reconcilePoliciesFromChecksum,
     credentials |-> Credentials(getEnvOrDefault(spec.provider, "github"))]

(* Mutant: the interval is not compared. *)
NeedsUpdateWithoutInterval(spec, env) ==
    \/ env.IMAGE_BASE # ImageBase(spec)
    \/ env.PROVIDER # getEnvOrDefault(spec.provider, "github")
    \/ getEnvOrDefault(env.POLL_FOR_TAG_CHANGES, TRUE)
           # getEnvOrDefault(spec.pollForTagChanges, TRUE)

(* Four variables are compared; reconcilePoliciesFromChecksum is not one.   *)
(* The image, and a pod that has failed, are the matter of Operator.        *)
NeedsUpdate(spec, env) ==
    \/ env.IMAGE_BASE # ImageBase(spec)
    \/ env.POLL_INTERVAL # getEnvOrDefault(spec.pollingInterval, 60)
    \/ env.PROVIDER # getEnvOrDefault(spec.provider, "github")
    \/ getEnvOrDefault(env.POLL_FOR_TAG_CHANGES, TRUE)
           # getEnvOrDefault(spec.pollForTagChanges, TRUE)

-----------------------------------------------------------------------------
(* The watcher. *)

(* strings.ToLower, for the spellings of the two providers. *)
ToLower(provider) ==
    CASE provider = "GitHub" -> "github"
      [] provider = "Artifactory" -> "artifactory"
      [] OTHER -> provider

HasValues(env) == \A name \in DOMAIN env.credentials : env.credentials[name] \in Secrets

(* logFatal ends the process: no credentials of its provider, an unknown    *)
(* provider, or (GitHub only) an IMAGE_BASE that cannot be parsed.          *)
Fatal(env) ==
    LET provider == ToLower(env.PROVIDER)
    IN  \/ provider \notin {"github", "artifactory"}
        \/ provider = "github" /\ "GITHUB_TOKEN" \notin DOMAIN env.credentials
        \/ provider = "github" /\ ~parseImageBase(env.IMAGE_BASE).valid
        \/ provider = "artifactory" /\ "ARTIFACTORY_USERNAME" \notin DOMAIN env.credentials

loadConfig(env) ==
    [ImageBase |-> env.IMAGE_BASE,
     Package |-> IF ToLower(env.PROVIDER) = "github"
                 THEN parseImageBase(env.IMAGE_BASE) ELSE Invalid,
     Provider |-> ToLower(env.PROVIDER),
     PollInterval |-> getEnvOrDefault(env.POLL_INTERVAL, 30),
     PollForTagChanges |-> getEnvOrDefault(env.POLL_FOR_TAG_CHANGES, TRUE),
     ReconcilePoliciesFromChecksum |-> getEnvOrDefault(env.CHECKSUM_RECONCILIATION, FALSE)]

-----------------------------------------------------------------------------
(* What docs/configuration.md:31-37 says the fields of a spec mean. *)
Documented(spec) ==
    [ImageBase |-> ImageBase(spec),
     Package |-> IF getEnvOrDefault(spec.provider, "github") = "github"
                 THEN PackageOf(spec.url) ELSE Invalid,
     Provider |-> getEnvOrDefault(spec.provider, "github"),
     PollInterval |-> getEnvOrDefault(spec.pollingInterval, 60),
     PollForTagChanges |-> getEnvOrDefault(spec.pollForTagChanges, TRUE),
     ReconcilePoliciesFromChecksum |->
         getEnvOrDefault(spec.reconcilePoliciesFromChecksum, FALSE)]
=============================================================================
