-------------------------- MODULE SandboxLaunch_proof --------------------------
(***************************************************************************)
(* Nothing of a session outlives it, and what runs was checked, for any    *)
(* environments, limits and number of sessions.  The state of the runtime  *)
(* is tied to the place of the host thread: what exists belongs to a       *)
(* session of the table or to the one session being started or ended.      *)
(***************************************************************************)
EXTENDS SandboxLaunch, TLAPS

Watching == { "spawnCommand", "poll", "drain" }

\* Before the first session may be started.
Starting == pc \in { "configure", "initialize", "queryVersion", "queryAccelerators",
                     "prepare", "unavailable", "unisolated" }
            \/ (pc \in Watching /\ command.purpose = "probe")

\* The session being started or ended may have a process or a container.
Begun == pc \in { "spawn", "handshake", "shutdown" }
         \/ (pc \in Watching /\ command.purpose = "delete")

Busy == Begun \/ pc \in { "write", "removeBundle" }

Types ==
  /\ env \in Environments /\ pc \in Labels
  /\ config \in { Refused } \cup
       [kind : { "mock", "subprocess", "runsc", "vm" }, pinned : SUBSET Assets]
  /\ nextId \in 0..MaxSessions /\ current \in 0..MaxSessions
  /\ stateDir \in BOOLEAN /\ verified \in BOOLEAN /\ leaving \in BOOLEAN
  /\ bundle \in [SessionIds -> { Absent, Empty } \cup { Bundle(c) : c \in Configs }]
  /\ asset \in [Assets -> BOOLEAN] /\ replaced \subseteq Assets
  /\ asked \in Configs \cup { NoConfig }

\* The place of the host and the child it watches.
CommandOK ==
  /\ pc \notin Watching => command = NoCommand
  /\ pc \in Watching => command.purpose \in { "probe", "delete" } /\ Runsc
  /\ pc = "spawnCommand" => command \in [child : { "none" }, purpose : { "probe", "delete" }]
  /\ pc \in { "poll", "drain" } =>
       command \in [child : { "running", "exited", "killed" },
                    purpose : { "probe", "delete" }, held : BOOLEAN,
                    success : BOOLEAN, expired : BOOLEAN, drainExpired : BOOLEAN]
  /\ pc \in { "poll", "drain" } /\ command.purpose = "delete" /\ command.success
       => current \notin containers

\* The backend is one that isolates, and its files are those it was given.
BackendOK ==
  /\ pc = "configure" => config = Refused
  /\ pc \notin { "configure", "unavailable", "unisolated" } => Isolated(config.kind)
  /\ pc \in { "write", "prepare" } => Runsc
  /\ pc \in Querying => ~Runsc
  /\ Vm => \A a \in Assets :
             a \in config.pinned \/ (env.development /\ env[a].override)

StartingOK ==
  Starting => /\ nextId = 0 /\ sessions = {} /\ launched = {} /\ containers = {}
              /\ Directories = {} /\ undeleted = {} /\ ~verified /\ ~stateDir

\* The state directory is made by the start-up, and removed last.
StateDirOK == Runsc /\ ~Starting /\ pc # "off" => stateDir

\* Ids are drawn in their order, and one session at a time is worked on.
IdsOK ==
  /\ sessions \cup undeleted \subseteq 1..nextId
  /\ current <= nextId /\ current \notin sessions
  /\ current # 0 <=> Busy
  /\ pc \in { "verify", "validate" } => nextId < MaxSessions
  /\ pc \in { "verify", "validate", "write" } => asked \in Configs
  /\ pc = "off" => sessions = {} /\ ~stateDir

\* What exists, and whose it is.
OwnersOK ==
  /\ Directories = sessions \cup (IF Busy THEN { current } ELSE {})
  /\ launched \subseteq
       sessions \cup (IF pc \in { "handshake", "shutdown" } THEN { current } ELSE {})
  /\ containers \subseteq
       sessions \cup undeleted \cup (IF Begun THEN { current } ELSE {})
  /\ containers # {} => Runsc
  /\ Runsc => \A s \in sessions \cup (IF Begun THEN { current } ELSE {}) :
                bundle[s] \in { Bundle(c) : c \in Configs }

\* The digests were compared before anything was started.
VerifiedOK ==
  /\ verified => \A a \in config.pinned : asset[a] \/ a \in replaced
  /\ Vm /\ (pc = "validate" \/ sessions # {} \/ current # 0) => verified

IInv == /\ Types /\ CommandOK /\ BackendOK /\ StartingOK /\ StateDirOK /\ IdsOK
        /\ OwnersOK /\ VerifiedOK

USE DEF setup, call, sandboxVars, assetVars, Watching, Starting, Begun, Busy,
    Runsc, Vm, Directories, SessionIds, Querying

-----------------------------------------------------------------------------
(* What the definitions of LaunchConfig give.                              *)

\* A VM's file without a pinned digest is one a development build overrides.
LEMMA UnpinnedIsOverridden ==
  ASSUME NEW e \in Environments, FromEnv(e).kind = "vm", NEW a \in Assets,
         a \notin FromEnv(e).pinned
  PROVE  e.development /\ e[a].override
<1> DEFINE digest == [x \in Assets |-> DigestOf(e[x], e.development)]
<1>1. FromEnv(e) = [kind |-> "vm", pinned |-> { x \in Assets : digest[x] = "good" }]
      /\ digest[a] \in { "unset", "good" }
  BY DEF FromEnv, VmConfig, Refused
<1>2. DigestOf(e[a], e.development) = "unset"
  BY <1>1
<1> QED BY <1>2, SessionsAssumption DEF DigestOf, OverrideDigest

\* What is configured is nothing, or a backend of a known kind.
LEMMA ConfigsAreKnown ==
  ASSUME NEW e \in Environments
  PROVE  FromEnv(e) \in { Refused } \cup
           [kind : { "mock", "subprocess", "runsc", "vm" }, pinned : SUBSET Assets]
  BY DEF FromEnv, VmConfig, Refused, Known

\* /tmp takes at most half of the memory, in whole KiB.
LEMMA HalfOfTheMemory ==
  ASSUME NEW c \in Configs, c.memory # Unlimited
  PROVE  2 * 1024 * TmpSize(c) <= c.memory
  BY LaunchAssumption, SessionsAssumption DEF TmpSize

-----------------------------------------------------------------------------

LEMMA InitHolds == Init => IInv
<1> SUFFICES ASSUME Init PROVE IInv
  OBVIOUS
<1>1. Directories = {} /\ Starting
  BY DEF Init, Absent
<1>2. Types
  <2>1. bundle \in [SessionIds -> { Absent, Empty } \cup { Bundle(c) : c \in Configs }]
    BY DEF Init
  <2>2. pc \in Labels /\ nextId \in 0..MaxSessions /\ current \in 0..MaxSessions
    BY SessionsAssumption DEF Init, Labels
  <2> QED BY <2>1, <2>2 DEF Init, Types
<1>3. CommandOK /\ BackendOK
  BY DEF Init, CommandOK, BackendOK, Refused
<1>4. StartingOK /\ StateDirOK /\ IdsOK
  BY <1>1, SessionsAssumption DEF Init, StartingOK, StateDirOK, IdsOK
<1>5. OwnersOK /\ VerifiedOK
  BY <1>1 DEF Init, OwnersOK, VerifiedOK
<1> QED BY <1>2, <1>3, <1>4, <1>5 DEF IInv

-----------------------------------------------------------------------------
(* output_with_timeout.                                                    *)

\* While a command is watched only the command changes.
LEMMA WatchKeeps ==
  ASSUME IInv, UNCHANGED << setup, call, sandboxVars, assetVars >>,
         pc \in Watching, pc' \in Watching, command'.purpose = command.purpose, CommandOK'
  PROVE  IInv'
<1>1. UNCHANGED << Starting, Begun, Busy >>
  OBVIOUS
<1> QED BY <1>1 DEF IInv, Types, BackendOK, StartingOK, StateDirOK, IdsOK, OwnersOK,
    VerifiedOK, Labels

LEMMA ChildKeeps ==
  ASSUME IInv,
         CommandStarts \/ PollExited \/ PollExpired \/ Deadline \/ DrainDeadline
           \/ ChildExits
  PROVE  IInv'
<1>1. CASE CommandStarts
  <2>1. CommandOK' /\ command'.purpose = command.purpose
    BY <1>1 DEF IInv, CommandOK, CommandStarts
  <2> QED BY <1>1, <2>1, WatchKeeps DEF CommandStarts
<1>2. CASE PollExited
  <2>1. CommandOK'
    BY <1>2 DEF IInv, CommandOK, PollExited
  <2> QED BY <1>2, <2>1, WatchKeeps DEF PollExited
<1>3. CASE PollExpired \/ Deadline \/ DrainDeadline
  <2>1. CommandOK' /\ command'.purpose = command.purpose
    BY <1>3 DEF IInv, CommandOK, PollExpired, Deadline, DrainDeadline
  <2> QED BY <1>3, <2>1, WatchKeeps DEF PollExpired, Deadline, DrainDeadline
<1>4. CASE ChildExits
  <2>1. pc \in { "poll", "drain" }
    <3>1. command.child = "running"
      BY <1>4 DEF ChildExits
    <3>2. NoCommand.child = "none"
      BY DEF NoCommand
    <3>3. pc # "spawnCommand"
      BY <3>1 DEF IInv, CommandOK
    <3> QED BY <3>1, <3>2, <3>3 DEF IInv, CommandOK
  <2>2. CommandOK' /\ command'.purpose = command.purpose
    BY <1>4, <2>1 DEF IInv, CommandOK, ChildExits, Deleting
  <2> QED BY <1>4, <2>1, <2>2, WatchKeeps DEF ChildExits
<1> QED BY <1>1, <1>2, <1>3, <1>4

\* A command that reported success has deleted its container.
LEMMA OverKeeps ==
  ASSUME IInv, pc \in Watching, NEW success \in BOOLEAN, Over(success),
         success /\ Deleting => current \notin containers
  PROVE  IInv'
<1>1. CASE Deleting
  <2>1. Deleted(success)
    BY <1>1 DEF Over
  <2>2. Types' /\ CommandOK' /\ BackendOK' /\ VerifiedOK'
    BY <1>1, <2>1 DEF IInv, Types, CommandOK, BackendOK, VerifiedOK, Deleted, Labels
  <2>3. StartingOK' /\ StateDirOK'
    BY <1>1, <2>1 DEF IInv, CommandOK, StartingOK, StateDirOK, Deleted, Deleting
  <2>4. IdsOK' /\ OwnersOK'
    BY <1>1, <2>1, SessionsAssumption DEF IInv, IdsOK, OwnersOK, Deleted, Deleting
  <2> QED BY <2>2, <2>3, <2>4 DEF IInv
<1>2. CASE ~Deleting
  <2>1. Probed(success) /\ Starting
    BY <1>2 DEF Over, Deleting, IInv, CommandOK
  <2> QED BY <2>1 DEF IInv, Types, CommandOK, BackendOK, StartingOK, StateDirOK,
      IdsOK, OwnersOK, VerifiedOK, Probed, Labels
<1> QED BY <1>1, <1>2

LEMMA CommandEnds ==
  ASSUME IInv, CommandNotStarted \/ WaitFails \/ Collect
  PROVE  IInv'
<1>1. CASE CommandNotStarted \/ WaitFails
  BY <1>1, OverKeeps DEF CommandNotStarted, WaitFails
<1>2. CASE Collect
  <2>1. command.success \in BOOLEAN
        /\ (command.success /\ Deleting => current \notin containers)
    BY <1>2 DEF Collect, IInv, CommandOK, Deleting
  <2> QED BY <1>2, <2>1, OverKeeps DEF Collect
<1> QED BY <1>1, <1>2

LEMMA ChildDeletesKeeps ==
  ASSUME IInv, ChildDeletes
  PROVE  IInv'
<1>1. Types' /\ CommandOK' /\ BackendOK' /\ StateDirOK'
  BY DEF IInv, Types, CommandOK, BackendOK, StateDirOK, ChildDeletes
<1>2. StartingOK' /\ IdsOK' /\ OwnersOK' /\ VerifiedOK'
  BY DEF IInv, StartingOK, IdsOK, OwnersOK, VerifiedOK, ChildDeletes
<1> QED BY <1>1, <1>2 DEF IInv

-----------------------------------------------------------------------------
(* Start-up.                                                               *)

LEMMA ConfigureKeeps ==
  ASSUME IInv, Configure
  PROVE  IInv'
<1> DEFINE c == FromEnv(env)
<1>1. /\ config' = c /\ env \in Environments /\ pc = "configure"
      /\ pc' \in { "unavailable", "initialize", "unisolated" }
      /\ pc' = "initialize" => Isolated(c.kind)
      /\ UNCHANGED << env, call, sandboxVars, assetVars, command >>
  BY DEF Configure, IInv, Types
<1>2. Types' /\ CommandOK'
  BY <1>1, ConfigsAreKnown DEF IInv, Types, CommandOK, Labels
<1>3. BackendOK'
  BY <1>1, UnpinnedIsOverridden DEF BackendOK
<1>4. StartingOK' /\ StateDirOK' /\ IdsOK' /\ OwnersOK' /\ VerifiedOK'
  BY <1>1 DEF IInv, StartingOK, StateDirOK, IdsOK, OwnersOK, VerifiedOK
<1> QED BY <1>2, <1>3, <1>4 DEF IInv

LEMMA InitializeRunscKeeps ==
  ASSUME IInv, InitializeRunsc
  PROVE  IInv'
<1>1. Types' /\ CommandOK' /\ BackendOK' /\ StartingOK' /\ StateDirOK'
  BY DEF IInv, Types, CommandOK, BackendOK, StartingOK, StateDirOK,
      InitializeRunsc, Watch, Labels
<1>2. IdsOK' /\ OwnersOK' /\ VerifiedOK'
  BY DEF IInv, IdsOK, OwnersOK, VerifiedOK, InitializeRunsc, Watch
<1> QED BY <1>1, <1>2 DEF IInv

LEMMA PrepareKeeps ==
  ASSUME IInv, Prepare
  PROVE  IInv'
<1>1. Types' /\ CommandOK' /\ BackendOK' /\ StartingOK' /\ StateDirOK'
  BY DEF IInv, Types, CommandOK, BackendOK, StartingOK, StateDirOK, Prepare, Labels
<1>2. IdsOK' /\ OwnersOK' /\ VerifiedOK'
  BY DEF IInv, IdsOK, OwnersOK, VerifiedOK, Prepare
<1> QED BY <1>1, <1>2 DEF IInv

LEMMA InitializeVmKeeps ==
  ASSUME IInv, InitializeVm
  PROVE  IInv'
<1>1. Types' /\ CommandOK' /\ BackendOK' /\ StartingOK' /\ StateDirOK'
  BY DEF IInv, Types, CommandOK, BackendOK, StartingOK, StateDirOK, InitializeVm,
      Labels
<1>2. IdsOK' /\ OwnersOK' /\ VerifiedOK'
  BY DEF IInv, IdsOK, OwnersOK, VerifiedOK, InitializeVm
<1> QED BY <1>1, <1>2 DEF IInv

LEMMA ToldKeeps ==
  ASSUME IInv, VersionTold \/ AcceleratorsTold
  PROVE  IInv'
<1>1. ~Runsc
  BY DEF IInv, BackendOK, VersionTold, AcceleratorsTold
<1>2. Types' /\ CommandOK' /\ BackendOK'
  BY <1>1 DEF IInv, Types, CommandOK, BackendOK, VersionTold, AcceleratorsTold, Labels
<1>3. StartingOK' /\ StateDirOK'
  BY <1>1 DEF IInv, StartingOK, StateDirOK, VersionTold, AcceleratorsTold
<1>4. IdsOK' /\ OwnersOK' /\ VerifiedOK'
  BY <1>1 DEF IInv, StartingOK, IdsOK, OwnersOK, VerifiedOK, VersionTold,
      AcceleratorsTold
<1> QED BY <1>2, <1>3, <1>4 DEF IInv

\* The file that is replaced is noted, the others are what they were.
LEMMA ReplaceKeeps ==
  ASSUME IInv, NEW a \in Assets, Replace(a)
  PROVE  IInv'
<1>1. PICK pinned \in BOOLEAN : asset' = [asset EXCEPT ![a] = pinned]
  BY DEF Replace
<1>2. /\ Vm /\ replaced' = replaced \cup {a}
      /\ UNCHANGED << setup, pc, call, sandboxVars, verified, command >>
  BY DEF Replace
<1>3. Types' /\ CommandOK' /\ BackendOK' /\ StartingOK' /\ StateDirOK'
  BY <1>1, <1>2 DEF IInv, Types, CommandOK, BackendOK, StartingOK, StateDirOK
<1>4. IdsOK' /\ OwnersOK'
  BY <1>2 DEF IInv, IdsOK, OwnersOK
<1>5. VerifiedOK'
  <2>1. \A b \in Assets : asset[b] \/ b \in replaced => asset'[b] \/ b \in replaced'
    BY <1>1, <1>2 DEF IInv, Types
  <2>2. config.pinned \subseteq Assets
    BY <1>2 DEF IInv, Types, Refused
  <2> QED BY <1>2, <2>1, <2>2 DEF IInv, VerifiedOK
<1> QED BY <1>3, <1>4, <1>5 DEF IInv

-----------------------------------------------------------------------------
(* start_session.                                                          *)

LEMMA StartKeeps ==
  ASSUME IInv, NEW c \in Configs, Start(c)
  PROVE  IInv'
  BY SessionsAssumption DEF IInv, Types, CommandOK, BackendOK, StartingOK,
      StateDirOK, IdsOK, OwnersOK, VerifiedOK, Start, Labels

LEMMA VerifyKeeps ==
  ASSUME IInv, Verify
  PROVE  IInv'
<1>1. /\ pc = "verify" /\ pc' \in { "idle", "validate" }
      /\ \/ /\ \A a \in config.pinned : asset[a]
            /\ verified' = TRUE /\ replaced' = replaced \ config.pinned
         \/ UNCHANGED << verified, replaced >> /\ pc' = "idle"
      /\ UNCHANGED << setup, call, sandboxVars, asset, command >>
  BY DEF Verify, ToVerify
<1>2. Types'
  <2>1. config.pinned \subseteq Assets
    BY <1>1 DEF IInv, Types, BackendOK, Isolated, Refused
  <2> QED BY <1>1, <2>1 DEF IInv, Types, Labels
<1>3. CommandOK' /\ StartingOK' /\ StateDirOK'
  BY <1>1 DEF IInv, CommandOK, StartingOK, StateDirOK
<1>4. IdsOK' /\ OwnersOK'
  BY <1>1 DEF IInv, IdsOK, OwnersOK
<1>5. BackendOK' /\ VerifiedOK'
  BY <1>1 DEF IInv, BackendOK, VerifiedOK
<1> QED BY <1>2, <1>3, <1>4, <1>5 DEF IInv

LEMMA RefuseKeeps ==
  ASSUME IInv, Refuse
  PROVE  IInv'
<1>1. Types' /\ CommandOK' /\ BackendOK' /\ StartingOK' /\ StateDirOK'
  BY DEF IInv, Types, CommandOK, BackendOK, StartingOK, StateDirOK, Refuse, Labels
<1>2. IdsOK' /\ OwnersOK' /\ VerifiedOK'
  BY DEF IInv, IdsOK, OwnersOK, VerifiedOK, Refuse
<1> QED BY <1>1, <1>2 DEF IInv

LEMMA MakeDirectoryKeeps ==
  ASSUME IInv, MakeDirectory
  PROVE  IInv'
<1> DEFINE n == nextId + 1
<1>1. /\ pc = "validate" /\ nextId' = n /\ n \in 1..MaxSessions
      /\ n \notin sessions \cup undeleted \cup { current } /\ current = 0
      /\ UNCHANGED << setup, asked, leaving, sessions, stateDir, launched, containers,
                      undeleted, assetVars, command >>
  BY SessionsAssumption DEF MakeDirectory, IInv, Types, IdsOK
<1>2. CASE /\ bundle' = [bundle EXCEPT ![n] = Empty] /\ current' = n
           /\ pc' = IF Runsc THEN "write" ELSE "spawn"
  <2>1. Directories' = Directories \cup { n }
    BY <1>1, <1>2 DEF IInv, Types, Absent, Empty
  <2>2. Types' /\ CommandOK' /\ BackendOK' /\ StartingOK' /\ StateDirOK'
    BY <1>1, <1>2 DEF IInv, Types, CommandOK, BackendOK, StartingOK, StateDirOK,
        Labels
  <2>3. IdsOK' /\ VerifiedOK'
    BY <1>1, <1>2, SessionsAssumption DEF IInv, Types, IdsOK, VerifiedOK
  <2>4. OwnersOK'
    <3>1. \A s \in sessions : bundle'[s] = bundle[s]
      BY <1>1, <1>2 DEF IInv, Types, IdsOK
    <3>2. Busy' /\ (Begun' => ~Runsc) /\ ~Busy
      BY <1>1, <1>2
    <3>3. Directories' = sessions' \cup { current' }
      BY <1>1, <1>2, <2>1, <3>2 DEF IInv, OwnersOK
    <3> QED BY <1>1, <1>2, <3>1, <3>2, <3>3 DEF IInv, OwnersOK
  <2> QED BY <2>2, <2>3, <2>4 DEF IInv
<1>3. CASE pc' = "idle" /\ UNCHANGED << bundle, current >>
  <2>1. Types' /\ CommandOK' /\ BackendOK' /\ StartingOK' /\ StateDirOK' /\ VerifiedOK'
    BY <1>1, <1>3 DEF IInv, Types, CommandOK, BackendOK, StartingOK, StateDirOK,
        VerifiedOK, Labels
  <2>2. IdsOK' /\ OwnersOK'
    BY <1>1, <1>3, SessionsAssumption DEF IInv, Types, IdsOK, OwnersOK
  <2> QED BY <2>1, <2>2 DEF IInv
<1> QED BY <1>1, <1>2, <1>3 DEF MakeDirectory

LEMMA WriteBundleKeeps ==
  ASSUME IInv, WriteBundle
  PROVE  IInv'
<1>1. CASE bundle' = [bundle EXCEPT ![current] = Bundle(asked)] /\ pc' = "spawn"
  <2>1. /\ asked \in Configs /\ current \in SessionIds /\ current \notin sessions
        /\ Bundle(asked) # Absent
    BY DEF WriteBundle, IInv, IdsOK, Types, Bundle, Absent
  <2>2. UNCHANGED Directories /\ (\A s \in sessions : bundle'[s] = bundle[s])
    BY <1>1, <2>1 DEF IInv, Types, OwnersOK, WriteBundle
  <2>3. Types' /\ CommandOK' /\ BackendOK' /\ StartingOK' /\ StateDirOK'
    BY <1>1, <2>1 DEF IInv, Types, CommandOK, BackendOK, StartingOK, StateDirOK,
        WriteBundle, Labels
  <2>4. IdsOK' /\ VerifiedOK'
    BY <1>1 DEF IInv, IdsOK, VerifiedOK, WriteBundle
  <2>5. OwnersOK'
    BY <1>1, <2>1, <2>2 DEF IInv, Types, OwnersOK, WriteBundle
  <2> QED BY <2>3, <2>4, <2>5 DEF IInv
<1>2. CASE pc' = "removeBundle" /\ UNCHANGED bundle
  BY <1>2 DEF IInv, Types, CommandOK, BackendOK, StartingOK, StateDirOK, IdsOK,
      OwnersOK, VerifiedOK, WriteBundle, Labels
<1> QED BY <1>1, <1>2 DEF WriteBundle

LEMMA SpawnKeeps ==
  ASSUME IInv, Spawn
  PROVE  IInv'
<1>1. Types' /\ CommandOK' /\ BackendOK' /\ StartingOK' /\ StateDirOK'
  BY DEF IInv, Types, CommandOK, BackendOK, StartingOK, StateDirOK, Spawn,
      StartFails, Watch, Labels
<1>2. IdsOK' /\ OwnersOK' /\ VerifiedOK'
  BY DEF IInv, IdsOK, OwnersOK, VerifiedOK, Spawn, StartFails, Watch
<1> QED BY <1>1, <1>2 DEF IInv

LEMMA ContainerCreatedKeeps ==
  ASSUME IInv, NEW s \in SessionIds, ContainerCreated(s)
  PROVE  IInv'
  BY DEF IInv, Types, CommandOK, BackendOK, StartingOK, StateDirOK, IdsOK, OwnersOK,
      VerifiedOK, ContainerCreated

LEMMA SandboxEndsKeeps ==
  ASSUME IInv, NEW s \in SessionIds, SandboxEnds(s)
  PROVE  IInv'
  BY DEF IInv, Types, CommandOK, BackendOK, StartingOK, StateDirOK, IdsOK, OwnersOK,
      VerifiedOK, SandboxEnds

LEMMA HandshakeOkKeeps ==
  ASSUME IInv, HandshakeOk
  PROVE  IInv'
<1>1. Types' /\ CommandOK'
  BY SessionsAssumption DEF IInv, Types, CommandOK, HandshakeOk, Labels
<1>2. BackendOK' /\ StartingOK' /\ StateDirOK'
  BY DEF IInv, CommandOK, BackendOK, StartingOK, StateDirOK, HandshakeOk
<1>3. IdsOK' /\ OwnersOK' /\ VerifiedOK'
  BY SessionsAssumption DEF IInv, Types, IdsOK, OwnersOK, VerifiedOK, HandshakeOk
<1> QED BY <1>1, <1>2, <1>3 DEF IInv

LEMMA HandshakeFailsKeeps ==
  ASSUME IInv, HandshakeFails
  PROVE  IInv'
<1>1. Types' /\ CommandOK' /\ BackendOK' /\ StartingOK' /\ StateDirOK'
  BY DEF IInv, Types, CommandOK, BackendOK, StartingOK, StateDirOK, HandshakeFails,
      StartFails, Watch, Labels
<1>2. IdsOK' /\ OwnersOK' /\ VerifiedOK'
  BY DEF IInv, IdsOK, OwnersOK, VerifiedOK, HandshakeFails, StartFails, Watch
<1> QED BY <1>1, <1>2 DEF IInv

-----------------------------------------------------------------------------
(* close_session and drop.                                                 *)

LEMMA CloseKeeps ==
  ASSUME IInv, NEW s \in SessionIds, Close(s)
  PROVE  IInv'
<1>1. Types' /\ CommandOK' /\ BackendOK' /\ StartingOK' /\ StateDirOK'
  BY DEF IInv, Types, CommandOK, BackendOK, StartingOK, StateDirOK, Close, Labels
<1>2. IdsOK' /\ OwnersOK' /\ VerifiedOK'
  BY SessionsAssumption DEF IInv, IdsOK, OwnersOK, VerifiedOK, Close
<1> QED BY <1>1, <1>2 DEF IInv

LEMMA ShutdownKeeps ==
  ASSUME IInv, Shutdown
  PROVE  IInv'
<1>1. Types' /\ CommandOK' /\ BackendOK' /\ StartingOK' /\ StateDirOK'
  BY DEF IInv, Types, CommandOK, BackendOK, StartingOK, StateDirOK, Shutdown,
      AfterShutdown, Watch, Labels
<1>2. IdsOK' /\ OwnersOK' /\ VerifiedOK'
  BY DEF IInv, IdsOK, OwnersOK, VerifiedOK, Shutdown, AfterShutdown, Watch
<1> QED BY <1>1, <1>2 DEF IInv

LEMMA RemoveBundleKeeps ==
  ASSUME IInv, RemoveBundle
  PROVE  IInv'
<1>1. Types' /\ CommandOK' /\ BackendOK' /\ StartingOK' /\ StateDirOK'
  BY SessionsAssumption DEF IInv, Types, CommandOK, BackendOK, StartingOK, StateDirOK,
      OwnersOK, RemoveBundle, Labels
<1>2. IdsOK' /\ OwnersOK' /\ VerifiedOK'
  BY SessionsAssumption DEF IInv, Types, IdsOK, OwnersOK, VerifiedOK, RemoveBundle
<1> QED BY <1>1, <1>2 DEF IInv

LEMMA DropKeeps ==
  ASSUME IInv, Drop
  PROVE  IInv'
<1>1. Types' /\ CommandOK' /\ BackendOK' /\ StartingOK' /\ StateDirOK'
  BY DEF IInv, Types, CommandOK, BackendOK, StartingOK, StateDirOK, Drop, Labels
<1>2. IdsOK' /\ OwnersOK' /\ VerifiedOK'
  BY DEF IInv, IdsOK, OwnersOK, VerifiedOK, Drop
<1> QED BY <1>1, <1>2 DEF IInv

LEMMA DropNextKeeps ==
  ASSUME IInv, DropNext
  PROVE  IInv'
<1>1. CASE sessions = {}
  <2>1. /\ pc = "dropping" /\ pc' = "off" /\ stateDir' = FALSE
        /\ UNCHANGED << setup, sessions, current, asked, leaving, nextId, bundle,
                        launched, containers, undeleted, assetVars, command >>
    BY <1>1 DEF DropNext
  <2>2. Types' /\ CommandOK' /\ BackendOK' /\ StartingOK' /\ StateDirOK'
    BY <2>1 DEF IInv, Types, CommandOK, BackendOK, StartingOK, StateDirOK, Labels
  <2>3. IdsOK' /\ VerifiedOK'
    BY <1>1, <2>1 DEF IInv, IdsOK, VerifiedOK
  <2>4. OwnersOK'
    BY <2>1 DEF IInv, OwnersOK
  <2> QED BY <2>2, <2>3, <2>4 DEF IInv
<1>2. CASE sessions # {}
  <2>1. PICK s \in sessions : sessions' = sessions \ {s} /\ current' = s /\ pc' = "shutdown"
    BY <1>2 DEF DropNext
  <2>2. /\ pc = "dropping" /\ s \in SessionIds /\ s <= nextId
        /\ UNCHANGED << setup, asked, leaving, nextId, bundle, stateDir, launched,
                        containers, undeleted, assetVars, command >>
    BY <1>2, SessionsAssumption DEF DropNext, IInv, Types, IdsOK
  <2>3. Types' /\ CommandOK' /\ BackendOK' /\ StartingOK' /\ StateDirOK'
    BY <2>1, <2>2 DEF IInv, Types, CommandOK, BackendOK, StartingOK, StateDirOK,
        Labels
  <2>4. IdsOK' /\ VerifiedOK'
    BY <1>2, <2>1, <2>2 DEF IInv, IdsOK, VerifiedOK
  <2>5. OwnersOK'
    BY <2>1, <2>2 DEF IInv, OwnersOK
  <2> QED BY <2>3, <2>4, <2>5 DEF IInv
<1> QED BY <1>1, <1>2

-----------------------------------------------------------------------------
(* The theorems.                                                           *)

LEMMA NextKeeps ==
  ASSUME IInv, [Next]_vars
  PROVE  IInv'
<1>1. CASE HostStep
  BY <1>1, ChildKeeps, CommandEnds, ConfigureKeeps, InitializeRunscKeeps, PrepareKeeps,
     InitializeVmKeeps, VerifyKeeps, RefuseKeeps, MakeDirectoryKeeps, WriteBundleKeeps,
     SpawnKeeps, HandshakeOkKeeps, HandshakeFailsKeeps, ShutdownKeeps,
     RemoveBundleKeeps, DropNextKeeps
  DEF HostStep
<1>2. CASE User
  BY <1>2, StartKeeps, CloseKeeps, DropKeeps DEF User
<1>3. CASE Clock \/ World
  BY <1>3, ChildKeeps, CommandEnds, ChildDeletesKeeps, ToldKeeps, ReplaceKeeps,
     ContainerCreatedKeeps, SandboxEndsKeeps
  DEF Clock, World
<1>4. CASE UNCHANGED vars
  BY <1>4 DEF IInv, Types, CommandOK, BackendOK, StartingOK, StateDirOK, IdsOK,
      OwnersOK, VerifiedOK, vars
<1> QED BY <1>1, <1>2, <1>3, <1>4 DEF Next

\* What exists is tied to the place of the host, in every state of the launch
\* (linux.rs, vm/mod.rs, start_session to drop).
THEOREM LaunchInvariance == Spec => []IInv
<1>1. IInv /\ [Next]_vars => IInv'
  BY NextKeeps
<1> QED BY InitHolds, <1>1, PTL DEF Spec

\* The variables keep their types at every place of the host thread, no child is
\* watched but those of a probe or a deletion, and the state directory of the
\* runtime outlives the sessions (linux.rs).
THEOREM LaunchTypes == Spec => []TypeOK
<1>1. IInv => TypeOK
  <2> SUFFICES ASSUME IInv PROVE TypeOK
    OBVIOUS
  <2>1. command \in Children
    BY DEF IInv, CommandOK, Children
  <2>2. /\ sessions \cup undeleted \subseteq SessionIds
        /\ launched \subseteq SessionIds /\ containers \subseteq SessionIds
    BY SessionsAssumption DEF IInv, Types, IdsOK, OwnersOK
  <2>3. StateDirStays
    BY DEF IInv, StartingOK, StateDirOK, IdsOK, OwnersOK, StateDirStays
  <2> QED BY <2>1, <2>2, <2>3 DEF IInv, Types, TypeOK
<1> QED BY LaunchInvariance, <1>1, PTL

\* Between two calls nothing is left of a session that did not start or was
\* closed, wherever its start failed (linux.rs, start_session and StartupGuard).
THEOREM NoRemains == Spec => []NothingLeftBehind
<1>1. IInv => NothingLeftBehind
  BY DEF IInv, IdsOK, OwnersOK, NothingLeftBehind, Resting
<1> QED BY LaunchInvariance, <1>1, PTL

\* What is launched isolates, a VM boots from files that were as pinned when they
\* were compared or were replaced after it (app_config.rs, vm/mod.rs), and a
\* runsc sandbox has a whole bundle with half of its memory for /tmp at most
\* (runsc_bundle.rs).
THEOREM CheckedBeforeLaunch == Spec => []LaunchesOnlyWhatWasChecked
<1>1. IInv => LaunchesOnlyWhatWasChecked
  <2> SUFFICES ASSUME IInv PROVE LaunchesOnlyWhatWasChecked
    OBVIOUS
  <2>1. RunsFromWholeBundle
    <3> SUFFICES ASSUME Runsc, NEW s \in launched \cup (containers \ undeleted)
                 PROVE  /\ bundle[s].state = "config"
                        /\ "network" \in bundle[s].namespaces
                        /\ bundle[s].memory # Unlimited =>
                             2 * 1024 * bundle[s].tmp <= bundle[s].memory
      BY DEF RunsFromWholeBundle
    <3>1. PICK c \in Configs : bundle[s] = Bundle(c)
      BY DEF IInv, OwnersOK
    <3> QED BY <3>1, HalfOfTheMemory DEF Bundle
  <2>2. launched # {} => Isolated(config.kind)
    BY DEF IInv, BackendOK, StartingOK
  <2>3. ASSUME Vm, pc = "spawn", NEW a \in Assets
        PROVE  asset[a] \/ a \in replaced \/ (env.development /\ env[a].override)
    <3>1. verified
      BY <2>3 DEF IInv, IdsOK, VerifiedOK
    <3> QED BY <2>3, <3>1 DEF IInv, BackendOK, VerifiedOK
  <2> QED BY <2>1, <2>2, <2>3 DEF LaunchesOnlyWhatWasChecked
<1> QED BY LaunchInvariance, <1>1, PTL

HIDE DEF Directories

\* A bundle is removed after its process and its container are gone, or the
\* container was given up (linux.rs, close_session and the end of a start).
THEOREM BundleGoesLast == Spec => BundleOutlivesSandbox
<1> DEFINE Kept == \A s \in Directories \ Directories' :
                     s \notin launched /\ (s \in containers => s \in undeleted)
<1>1. ASSUME IInv, [Next]_vars PROVE [Kept]_vars
  <2> SUFFICES ASSUME Next, NEW s \in SessionIds,
                      bundle[s] # Absent, bundle'[s] = Absent
               PROVE  s \notin launched /\ (s \in containers => s \in undeleted)
    BY <1>1 DEF Directories, vars
  <2>1. Empty # Absent /\ \A c \in Configs : Bundle(c) # Absent
    BY DEF Empty, Absent, Bundle
  <2>2. CASE MakeDirectory
    BY <1>1, <2>1, <2>2 DEF MakeDirectory, IInv, Types
  <2>3. CASE WriteBundle
    BY <1>1, <2>1, <2>3 DEF WriteBundle, IInv, Types, IdsOK
  <2>4. CASE RemoveBundle
    <3>1. pc = "removeBundle" /\ s = current
      BY <1>1, <2>4 DEF RemoveBundle, IInv, Types
    <3> QED BY <1>1, <3>1 DEF IInv, IdsOK, OwnersOK, Directories
  <2>5. CASE UNCHANGED bundle
    BY <2>5
  <2> QED BY <2>2, <2>3, <2>4, <2>5
      DEF Next, HostStep, User, Clock, World, CommandStarts, CommandNotStarted,
          WaitFails, PollExited, PollExpired, Collect, Over, Deleted, Probed,
          ChildDeletes, ChildExits, Deadline, DrainDeadline, Configure,
          InitializeRunsc, Prepare, InitializeVm, VersionTold, AcceleratorsTold,
          Replace, Start, Verify, Refuse,
          Spawn, ContainerCreated, SandboxEnds, HandshakeOk, HandshakeFails, Close,
          Shutdown, Drop, DropNext
<1>2. Spec => [][Kept]_vars
  BY <1>1, LaunchInvariance, PTL DEF Spec
<1> QED BY <1>2 DEF BundleOutlivesSandbox
=============================================================================
