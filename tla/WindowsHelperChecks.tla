------------------------ MODULE WindowsHelperChecks ------------------------
(***************************************************************************)
(* What is verified before a step of a Windows install may change          *)
(* anything, and by whom: the app before it starts the helper, the helper  *)
(* before it authorizes the request, the recovery host before it says it   *)
(* is ready, and a resolver before it looks at a record.                   *)
(*                                                                         *)
(* The data the checks compare (digests, signers, paths, access lists,     *)
(* task fields) is reduced to which one of the checks would fail: d, or    *)
(* "none".  What matters here is where each check stands among the steps   *)
(* that have an effect, and for which kind of transaction it is made.      *)
(***************************************************************************)
VARIABLE kind  \* "portable", "protected" (a directory) or "inno"

Kinds == {"portable", "protected", "inno"}

Portable == kind = "portable"

Directory == kind # "inno"

-----------------------------------------------------------------------------
(* Shared by several of the processes.                                     *)

HelperSigned(d) == d # "helperSignature"

PolicySealed(d) == d # "policy"

-----------------------------------------------------------------------------
(* The app, in PrepareInstall.                                             *)

StagingRootValid(d) == d # "stagingRoot"

InstallRootAllowed(d) == d # "installRoot"

TargetIsRunningApp(d) == d # "runningApp"

UninstallRecordMatches(d) == Portable \/ d # "uninstallRecord"

(* An installed marker that is missing is taken from the verified stage.   *)
IdentityMarkerReadable(d) == ~Portable \/ d # "identityMarker"

(* The registered endpoint, or the helper and policy beside the app.       *)
EndpointRegistered(d) == Portable \/ d # "endpoint"

HelperIsAdjacent(d) == ~Portable \/ d # "adjacent"

RequestBuilt(d) == d # "request"

AppAccepts(d) ==
    /\ StagingRootValid(d) /\ InstallRootAllowed(d) /\ TargetIsRunningApp(d)
    /\ UninstallRecordMatches(d) /\ IdentityMarkerReadable(d)
    /\ EndpointRegistered(d) /\ HelperIsAdjacent(d)
    /\ HelperSigned(d) /\ PolicySealed(d) /\ RequestBuilt(d)

(* LaunchAuthenticated...Helper: the copy that is started, the process,    *)
(* its token and the pipe's peer.                                          *)
LaunchArtifactCopied(d) == ~Portable \/ d # "launchArtifact"

ElevationGranted(d) == Portable \/ d # "elevation"

PeerIsHelper(d) == d # "peer"

HelperLaunches(d) == LaunchArtifactCopied(d) /\ ElevationGranted(d) /\ PeerIsHelper(d)

-----------------------------------------------------------------------------
(* The helper, before the session reads a request.                         *)

CallerIsPipeServer(d) == d # "pipe"

(* LoadWindowsHelperBootstrap: executable, parent and policy are protected *)
(* from the caller, and are the registered ones.                           *)
ProtectedBootstrap(d) == Portable \/ d # "bootstrap"

PortableBootstrap(d) == ~Portable \/ d # "bootstrap"

HelperOpens(d) == CallerIsPipeServer(d) /\ ProtectedBootstrap(d) /\ PortableBootstrap(d)

(* ProvisionPortableWindowsRecoveryHost, before the endpoint is touched.   *)
TokenAuthorized(d) == d # "token"

SourceHelperRetained(d) == d # "sourceHelper"

SourcePolicyUnchanged(d) == d # "sourcePolicy"

SourceIsExternal(d) == d # "source"

StorageIsExactUsers(d) == d # "storage"

MayProvision(d) == TokenAuthorized(d) /\ SourceHelperRetained(d)
                /\ SourcePolicyUnchanged(d) /\ SourceIsExternal(d)
                /\ StorageIsExactUsers(d)

-----------------------------------------------------------------------------
(* The session and the authorizer.                                         *)

FrameValid(d) == d # "frame"

CallerIdentityValid(d) == d # "callerIdentity"

(* Target class, strategy and provider are what the sealed policy allows.  *)
ProtectedClassified(d) == Portable \/ d # "class"

PortableClassified(d) == ~Portable \/ d # "class"

PathsDisjoint(d) == d # "overlap"

HostOutsideRoots(d) == ~Portable \/ d # "hostInside"

RetainedCallerMatches(d) == d # "retainedCaller"

ExecutableAuthorized(d) == d # "executable"

TargetWritableByCaller(d) == ~Portable \/ d # "writable"

(* The seal of the staged tree, and the request bound to it.               *)
StageProvenanceHolds(d) == d # "provenance"

ArtifactKindFits(d) == d # "artifactKind"

InnoExecutionAllowed(d) == Directory \/ d # "innoPolicy"

RequestAuthorized(d) ==
    /\ FrameValid(d) /\ CallerIdentityValid(d)
    /\ ProtectedClassified(d) /\ PortableClassified(d) /\ PathsDisjoint(d)
    /\ HostOutsideRoots(d) /\ RetainedCallerMatches(d) /\ ExecutableAuthorized(d)
    /\ TargetWritableByCaller(d) /\ StageProvenanceHolds(d) /\ ArtifactKindFits(d)
    /\ InnoExecutionAllowed(d)

(* After the marker was adopted: the identity the request names.           *)
TargetIdentityProved(d) == d # "identityProof"

(* After the restage: what the prepared payload must look like.            *)
ArchiveRestaged(d) == ~Directory \/ d # "restage"

InstallerRestaged(d) == Directory \/ d # "restage"

PayloadExpected(d) == d # "payload"

PayloadPrepared(d) == TargetIdentityProved(d) /\ ArchiveRestaged(d)
                   /\ InstallerRestaged(d) /\ PayloadExpected(d)

-----------------------------------------------------------------------------
(* Binding the transaction to its endpoint, and arming the host.           *)

PortableLocatorBuilt(d) == ~Portable \/ d # "locator"

ProtectedLocatorBound(d) == Portable \/ d # "locator"

LocatorBinds(d) == PortableLocatorBuilt(d) /\ ProtectedLocatorBound(d)

PortableTaskDefined(d) == ~Portable \/ d # "taskDefinition"

ProtectedTaskDefined(d) == Portable \/ d # "taskDefinition"

TaskDefined(d) == PortableTaskDefined(d) /\ ProtectedTaskDefined(d)

PortableTaskExact(d) == ~Portable \/ d # "task"

ProtectedTaskExact(d) == Portable \/ d # "task"

TaskExact(d) == PortableTaskExact(d) /\ ProtectedTaskExact(d)

-----------------------------------------------------------------------------
(* The recovery host, before it signals that it is ready.                  *)

PortableHostBootstrap(d) == ~Portable \/ d # "hostBootstrap"

HostEndpointExact(d) == ~Portable \/ d # "hostEndpoint"

HostAuthority(d) == d # "hostAuthority"

HostAuthenticated(d) == PortableHostBootstrap(d) /\ HostEndpointExact(d) /\ HostAuthority(d)

-----------------------------------------------------------------------------
(* A resolver: the app finds the transaction's endpoint, and the helper it *)
(* starts accepts that app for this record.                                *)

(* The portable and the protected locator exclude each other.              *)
LookupDecided(d) == d # "lookup"

FrozenPortableContext(d) == ~Portable \/ d # "context"

ProtectedRecoveryContext(d) == Portable \/ d # "context"

RecoveryRequestBound(d) == d # "recoveryRequest"

ResolverAdmitted(d) == LookupDecided(d) /\ FrozenPortableContext(d)
                    /\ ProtectedRecoveryContext(d) /\ RecoveryRequestBound(d)

(* The app is a generation that the record names.                          *)
PortableGeneration(d) == ~Portable \/ d # "generation"

ProtectedGeneration(d) == Portable \/ d # "generation"

JournalBindingHolds(d) == d # "journalBinding"

CallerOfRecord(d) == PortableGeneration(d) /\ ProtectedGeneration(d)
                  /\ JournalBindingHolds(d)

-----------------------------------------------------------------------------
(* The checks by who makes them.                                           *)
AppDefects == {"helperSignature", "policy", "stagingRoot", "installRoot",
               "runningApp", "uninstallRecord", "identityMarker", "endpoint",
               "adjacent", "request", "launchArtifact", "elevation", "peer"}

HelperDefects == {"pipe", "bootstrap", "token", "sourceHelper",
                  "sourcePolicy", "source", "storage", "frame",
                  "callerIdentity", "class", "overlap", "hostInside",
                  "retainedCaller", "executable", "writable", "provenance",
                  "artifactKind", "innoPolicy", "identityProof", "restage",
                  "payload", "locator"}

HostDefects == {"taskDefinition", "task", "hostBootstrap", "hostEndpoint",
                "hostAuthority"}

ResolverDefects == {"lookup", "context", "recoveryRequest",
                    "generation", "journalBinding"}
=============================================================================
