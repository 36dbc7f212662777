------------------------------ MODULE LaunchConfig ------------------------------
(***************************************************************************)
(* What the environment asks the application to launch                     *)
(* (src-tauri/src/app_config.rs, AppConfig::from_env) and what a session's *)
(* limits become in an OCI bundle (crates/sandbox/src/runsc_bundle.rs).    *)
(* Pure definitions.  An environment is a record                           *)
(*   [backend, development, vmDir, manifest, kernel, initramfs]            *)
(* where backend is the text of DOCBUNKER_BACKEND ("unset" when there is   *)
(* none), development says which policy the build has, manifest is the     *)
(* text of SHA256SUMS as a sequence of lines, and an asset is              *)
(* [override, digest] with digest one of "unset", "good" and "malformed".  *)
(***************************************************************************)
EXTENDS Integers, Sequences, FiniteSets

CONSTANTS TmpfsTmpSize,   \* bytes the sandbox may keep under /tmp
          CfsPeriod,      \* of the CPU quota, microseconds
          Unlimited       \* an absent limit

ASSUME LaunchAssumption ==
  /\ TmpfsTmpSize \in Nat /\ CfsPeriod \in Nat
  /\ Unlimited \notin Nat

Assets == { "kernel", "initramfs" }
Refused == [kind |-> "refused"]

-----------------------------------------------------------------------------
(* Which backend.                                                          *)

DefaultForBuild(development) == IF development THEN "mock" ELSE "vm"

BackendKind(e) ==
  IF e.backend = "unset" THEN DefaultForBuild(e.development) ELSE e.backend

Known(kind) == kind \in { "mock", "subprocess", "runsc", "vm" }

\* ensure_allowed: what does not isolate is for development only.
Allowed(kind, development) ==
  kind \in { "mock", "subprocess" } => development

Isolated(kind) == kind \in { "runsc", "vm" }

-----------------------------------------------------------------------------
(* The two assets of the VM and the digests they must have.                *)

\* Every line names one asset once, with a digest and no third field.
ManifestParses(lines) ==
  /\ \A i \in 1..Len(lines) : lines[i].wellFormed /\ lines[i].name \in Assets
  /\ \A a \in Assets :
       Cardinality({ i \in 1..Len(lines) : lines[i].name = a }) = 1

\* An override brings its own digest, or, in a development build, none.
OverrideDigest(digest, development) ==
  IF digest = "unset" /\ ~development THEN "missing" ELSE digest

DigestOf(asset, development) ==
  IF asset.override THEN OverrideDigest(asset.digest, development) ELSE "good"

Located(asset, e) == asset.override \/ e.vmDir

VmConfig(e) ==
  LET digest == [a \in Assets |-> DigestOf(e[a], e.development)]
      wanted == \E a \in Assets : ~e[a].override
  IN  IF /\ \A a \in Assets : Located(e[a], e)
         /\ wanted => ManifestParses(e.manifest)
         /\ \A a \in Assets : digest[a] \in { "unset", "good" }
      THEN [kind |-> "vm", pinned |-> { a \in Assets : digest[a] = "good" }]
      ELSE Refused

FromEnv(e) ==
  LET kind == BackendKind(e)
  IN  IF ~Known(kind) \/ ~Allowed(kind, e.development) THEN Refused
      ELSE IF kind = "vm" THEN VmConfig(e)
      ELSE [kind |-> kind, pinned |-> {}]

-----------------------------------------------------------------------------
(* A session's limits, [document, width, height, buffer, memory, cpu,      *)
(* processes, network], and the bundle runsc is given.                     *)

ValidConfig(c) ==
  /\ c.document # 0 /\ c.width # 0 /\ c.height # 0 /\ c.buffer # 0
  /\ ~c.network

\* Half of the memory, at most the cap, in whole KiB.
TmpSize(c) ==
  IF c.memory = Unlimited \/ c.memory \div 2 > TmpfsTmpSize
  THEN TmpfsTmpSize \div 1024
  ELSE (c.memory \div 2) \div 1024

Quota(c) ==
  IF c.cpu = Unlimited THEN Unlimited ELSE (c.cpu * CfsPeriod) \div 1000

Bundle(c) ==
  [state |-> "config", readonly |-> TRUE,
   namespaces |-> { "pid", "network", "ipc", "uts", "mount" },
   tmp |-> TmpSize(c), memory |-> c.memory, quota |-> Quota(c),
   pids |-> c.processes]
=============================================================================
