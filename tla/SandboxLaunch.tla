----------------------------- MODULE SandboxLaunch -----------------------------
(***************************************************************************)
(* How sandboxes are launched and torn down: the choice of the backend at  *)
(* start-up (src-tauri/src/main.rs), and the start, the end and the drop   *)
(* of the sessions of the two isolating backends                           *)
(*   - runsc (crates/sandbox/src/platforms/linux.rs): a bundle on disk, a  *)
(*     `runsc run` process, and a container the runtime keeps track of;    *)
(*   - QEMU (crates/sandbox/src/platforms/vm/mod.rs): a run-time directory *)
(*     and a QEMU process.                                                 *)
(* The host thread is one; next to it run the sandboxes and, for the time  *)
(* of a `runsc --version` or `runsc delete`, a child that is watched by    *)
(* output_with_timeout; nothing watches QEMU's two queries at start-up.    *)
(* What a session does between its start and its end is the subject of     *)
(* ProcessTransport and WorkerSession.                                     *)
(***************************************************************************)
EXTENDS LaunchConfig

CONSTANTS Environments, \* environments the application may be started in
          Configs,      \* limits a session may be asked for
          MaxSessions   \* bound: session ids drawn

ASSUME SessionsAssumption ==
  /\ MaxSessions \in Nat
  /\ \A c \in Configs : c.memory \in Nat \cup { Unlimited }
  /\ \A e \in Environments :
       e.development \in BOOLEAN /\ \A a \in Assets : e[a].override \in BOOLEAN

SessionIds == 1..MaxSessions

VARIABLES
  env,        \* the environment of the application
  config,     \* the backend it configures
  pc,         \* where the host thread is
  asked,      \* the limits of the session being started
  current,    \* the session being started or ended, 0 when none is
  leaving,    \* the backend is being dropped
  nextId,     \* session ids drawn
  sessions,   \* ids in the backend's table
  bundle,     \* the directory of each session
  stateDir,   \* the runtime's state directory exists
  launched,   \* sessions whose `runsc run` or QEMU process lives
  containers, \* containers the runtime knows
  undeleted,  \* history: containers whose deletion did not report success
  asset,      \* the files the VM boots from: as pinned, or not
  verified,   \* assets_verified
  replaced,   \* history: the assets replaced since they were last verified
  command     \* the child output_with_timeout watches

sandboxVars == << nextId, sessions, bundle, stateDir, launched, containers,
                  undeleted >>
assetVars   == << asset, verified, replaced >>
setup       == << env, config >>
call        == << asked, current, leaving >>
vars == << setup, pc, call, sandboxVars, assetVars, command >>

Absent == [state |-> "absent"]
Empty  == [state |-> "empty"]
NoCommand == [child |-> "none"]
NoConfig == [document |-> 0]

Runsc == config.kind = "runsc"
Vm    == config.kind = "vm"

Init ==
  /\ env \in Environments /\ config = Refused /\ pc = "configure"
  /\ asked = NoConfig /\ current = 0 /\ leaving = FALSE
  /\ nextId = 0 /\ sessions = {}
  /\ bundle = [s \in SessionIds |-> Absent]
  /\ stateDir = FALSE /\ launched = {} /\ containers = {} /\ undeleted = {}
  /\ asset \in [Assets -> BOOLEAN] /\ verified = FALSE /\ replaced = {}
  /\ command = NoCommand

-----------------------------------------------------------------------------
(* output_with_timeout.  The child is polled until it has exited or the    *)
(* deadline has passed, which kills it; then its pipes are drained for a   *)
(* little while.  A descendant may hold the pipes open for ever.           *)

Watch(purpose) ==
  /\ pc' = "spawnCommand"
  /\ command' = [child |-> "none", purpose |-> purpose]

CommandStarts ==
  /\ pc = "spawnCommand"
  /\ \E held \in BOOLEAN :
       command' = [child |-> "running", purpose |-> command.purpose,
                   held |-> held, success |-> FALSE, expired |-> FALSE,
                   drainExpired |-> FALSE]
  /\ pc' = "poll"
  /\ UNCHANGED << setup, call, sandboxVars, assetVars >>

Deleting == command.purpose = "delete"

\* A deletion that reports no success is only logged.
Deleted(success) ==
  /\ command' = NoCommand
  /\ undeleted' = IF success THEN undeleted ELSE undeleted \cup {current}
  /\ pc' = "removeBundle"
  /\ UNCHANGED << setup, call, nextId, sessions, bundle, stateDir, launched,
                  containers, assetVars >>


\* A probe that reports no success makes the backend unusable.
Probed(success) ==
  /\ command' = NoCommand
  /\ pc' = IF success THEN "prepare" ELSE "unavailable"
  /\ UNCHANGED << setup, call, sandboxVars, assetVars >>

\* The command is over, and its caller goes on.
Over(success) == IF Deleting THEN Deleted(success) ELSE Probed(success)

CommandNotStarted == pc = "spawnCommand" /\ Over(FALSE)

\* try_wait fails: the error is returned and the child left to itself.
WaitFails == pc = "poll" /\ Over(FALSE)

\* What `runsc delete --force` does, at any time while it lives.
ChildDeletes ==
  /\ command.child = "running" /\ Deleting /\ current \in containers
  /\ containers' = containers \ {current}
  /\ UNCHANGED << setup, pc, call, nextId, sessions, bundle, stateDir,
                  launched, undeleted, assetVars, command >>

ChildExits ==
  /\ command.child = "running"
  /\ \E success \in BOOLEAN :
       /\ success /\ Deleting => current \notin containers
       /\ command' = [command EXCEPT !.child = "exited", !.success = success]
  /\ UNCHANGED << setup, pc, call, sandboxVars, assetVars >>

Deadline ==
  /\ pc = "poll" /\ ~command.expired
  /\ command' = [command EXCEPT !.expired = TRUE]
  /\ UNCHANGED << setup, pc, call, sandboxVars, assetVars >>

PollExited ==
  /\ pc = "poll" /\ command.child = "exited"
  /\ pc' = "drain"
  /\ UNCHANGED << setup, call, sandboxVars, assetVars, command >>

\* The child may exit between the look at it and the kill; the output is
\* thrown away all the same.
PollExpired ==
  /\ pc = "poll" /\ command.expired
  /\ command' = [command EXCEPT !.child = "killed", !.success = FALSE]
  /\ pc' = "drain"
  /\ UNCHANGED << setup, call, sandboxVars, assetVars >>

DrainDeadline ==
  /\ pc = "drain" /\ ~command.drainExpired
  /\ command' = [command EXCEPT !.drainExpired = TRUE]
  /\ UNCHANGED << setup, pc, call, sandboxVars, assetVars >>

\* A mutant: the readers are always joined.
JoinedReaders(c) == ~c.held

\* The readers have finished, or are detached.
Drained(c) == ~c.held \/ c.drainExpired

Collect == pc = "drain" /\ Drained(command) /\ Over(command.success)

-----------------------------------------------------------------------------
(* Start-up: configure, select the backend, initialize it.                 *)

Configure ==
  /\ pc = "configure"
  /\ config' = FromEnv(env)
  /\ pc' = CASE config'.kind = "refused" -> "unavailable"
             [] Isolated(config'.kind)   -> "initialize"
             [] OTHER                    -> "unisolated"
  /\ UNCHANGED << env, call, sandboxVars, assetVars, command >>

InitializeRunsc ==
  /\ pc = "initialize" /\ Runsc
  /\ Watch("probe")
  /\ UNCHANGED << setup, call, sandboxVars, assetVars >>

\* The root file system, the temporary base and the state directory.
Prepare ==
  /\ pc = "prepare"
  /\ stateDir' \in BOOLEAN
  /\ pc' = IF stateDir' THEN "idle" ELSE "unavailable"
  /\ UNCHANGED << setup, call, nextId, sessions, bundle, launched, containers,
                  undeleted, assetVars, command >>

\* The asset files are there, or not; QEMU is asked for its version, in a
\* program that output() waits for without a deadline.  No digest is looked at.
InitializeVm ==
  /\ pc = "initialize" /\ Vm
  /\ pc' \in { "queryVersion", "unavailable" }
  /\ UNCHANGED << setup, call, sandboxVars, assetVars, command >>

\* QEMU has told its version and is asked for its accelerators, or did not
\* start or failed.  It may as well never end.
VersionTold ==
  /\ pc = "queryVersion"
  /\ pc' \in { "queryAccelerators", "unavailable" }
  /\ UNCHANGED << setup, call, sandboxVars, assetVars, command >>

\* QEMU has told its accelerators.  The configured one must be among them and
\* the directory for the run-time directories be there or made.
AcceleratorsTold ==
  /\ pc = "queryAccelerators"
  /\ pc' \in { "idle", "unavailable" }
  /\ UNCHANGED << setup, call, sandboxVars, assetVars, command >>

\* A file is replaced at any time, by an update for one.
Replace(a) ==
  /\ Vm
  /\ \E pinned \in BOOLEAN : asset' = [asset EXCEPT ![a] = pinned]
  /\ replaced' = replaced \cup {a}
  /\ UNCHANGED << setup, pc, call, sandboxVars, verified, command >>

-----------------------------------------------------------------------------
(* start_session.                                                          *)

Start(c) ==
  /\ pc = "idle" /\ nextId < MaxSessions
  /\ asked' = c
  /\ pc' = IF Vm /\ ~verified THEN "verify" ELSE "validate"
  /\ UNCHANGED << setup, current, leaving, sandboxVars, assetVars, command >>

\* A mutant: the initramfs is not looked at.
VerifyKernelOnly == config.pinned \cap { "kernel" }

\* The assets whose digest is compared.
ToVerify == config.pinned

Verify ==
  /\ pc = "verify"
  /\ IF \A a \in ToVerify : asset[a]
     THEN verified' = TRUE /\ replaced' = replaced \ ToVerify /\ pc' = "validate"
     ELSE UNCHANGED << verified, replaced >> /\ pc' = "idle"
  /\ UNCHANGED << setup, call, sandboxVars, asset, command >>

\* The configuration is refused before an id is drawn.
Refuse ==
  /\ pc = "validate" /\ ~ValidConfig(asked)
  /\ pc' = "idle"
  /\ UNCHANGED << setup, call, sandboxVars, assetVars, command >>

\* An id is drawn and its directory made; the id is lost when that fails.
MakeDirectory ==
  /\ pc = "validate" /\ ValidConfig(asked)
  /\ nextId' = nextId + 1
  /\ \/ /\ bundle' = [bundle EXCEPT ![nextId'] = Empty]
        /\ current' = nextId'
        /\ pc' = IF Runsc THEN "write" ELSE "spawn"
     \/ /\ pc' = "idle" /\ UNCHANGED << bundle, current >>
  /\ UNCHANGED << setup, asked, leaving, sessions, stateDir, launched,
                  containers, undeleted, assetVars, command >>

\* OciBundle::write.  When it fails, only the directory has to go.
WriteBundle ==
  /\ pc = "write"
  /\ \/ bundle' = [bundle EXCEPT ![current] = Bundle(asked)] /\ pc' = "spawn"
     \/ pc' = "removeBundle" /\ UNCHANGED bundle
  /\ UNCHANGED << setup, call, nextId, sessions, stateDir, launched,
                  containers, undeleted, assetVars, command >>

\* A mutant: the guard is not armed.
StartFailsUnguarded == pc' = "removeBundle" /\ UNCHANGED command

\* What a start that fails from here on runs before it returns: the armed
\* StartupGuard of the runsc backend, nothing for a VM.
StartFails ==
  IF Runsc THEN Watch("delete")
           ELSE pc' = "removeBundle" /\ UNCHANGED command

Spawn ==
  /\ pc = "spawn"
  /\ \/ /\ launched' = launched \cup {current} /\ pc' = "handshake"
        /\ UNCHANGED command
     \/ StartFails /\ UNCHANGED launched
  /\ UNCHANGED << setup, call, nextId, sessions, bundle, stateDir, containers,
                  undeleted, assetVars >>

\* `runsc run` makes its container in its own time.
ContainerCreated(s) ==
  /\ Runsc /\ s \in launched \ containers
  /\ containers' = containers \cup {s}
  /\ UNCHANGED << setup, pc, call, nextId, sessions, bundle, stateDir,
                  launched, undeleted, assetVars, command >>

\* A sandbox ends on its own; a container may stay behind.
SandboxEnds(s) ==
  /\ s \in launched
  /\ launched' = launched \ {s}
  /\ containers' \in { containers, containers \ {s} }
  /\ UNCHANGED << setup, pc, call, nextId, sessions, bundle, stateDir,
                  undeleted, assetVars, command >>

\* The worker has answered Hello; the guard is disarmed, the session kept.
HandshakeOk ==
  /\ pc = "handshake" /\ current \in launched
  /\ Runsc => current \in containers
  /\ sessions' = sessions \cup {current}
  /\ current' = 0 /\ pc' = "idle"
  /\ UNCHANGED << setup, asked, leaving, nextId, bundle, stateDir, launched,
                  containers, undeleted, assetVars, command >>

\* No answer, a wrong one, or none in time: the process is killed first.
HandshakeFails ==
  /\ pc = "handshake"
  /\ launched' = launched \ {current}
  /\ StartFails
  /\ UNCHANGED << setup, call, nextId, sessions, bundle, stateDir, containers,
                  undeleted, assetVars >>

-----------------------------------------------------------------------------
(* close_session and drop.                                                 *)

Close(s) ==
  /\ pc = "idle" /\ s \in sessions
  /\ sessions' = sessions \ {s} /\ current' = s /\ pc' = "shutdown"
  /\ UNCHANGED << setup, asked, leaving, nextId, bundle, stateDir, launched,
                  containers, undeleted, assetVars, command >>

\* A mutant: the session is dropped, its container never deleted.
ShutdownKeepsContainer == pc' = "removeBundle" /\ UNCHANGED command

\* The worker was asked to leave, or killed; its process is gone now.
AfterShutdown == IF Runsc THEN Watch("delete")
                          ELSE pc' = "removeBundle" /\ UNCHANGED command

Shutdown ==
  /\ pc = "shutdown"
  /\ launched' = launched \ {current}
  /\ containers' \in { containers, containers \ {current} }
  /\ AfterShutdown
  /\ UNCHANGED << setup, call, nextId, sessions, bundle, stateDir, undeleted,
                  assetVars >>

\* The TempDir is dropped, after a failed start, a close or in a drop.
RemoveBundle ==
  /\ pc = "removeBundle"
  /\ bundle' = [bundle EXCEPT ![current] = Absent]
  /\ current' = 0
  /\ pc' = IF leaving THEN "dropping" ELSE "idle"
  /\ UNCHANGED << setup, asked, leaving, nextId, sessions, stateDir, launched,
                  containers, undeleted, assetVars, command >>

Drop ==
  /\ pc = "idle"
  /\ leaving' = TRUE /\ pc' = "dropping"
  /\ UNCHANGED << setup, asked, current, sandboxVars, assetVars, command >>

\* A mutant: the state directory goes before the sessions.
DropStateFirst ==
  /\ pc = "dropping"
  /\ stateDir' = FALSE
  /\ IF sessions = {}
     THEN pc' = "off" /\ UNCHANGED << sessions, current >>
     ELSE \E s \in sessions :
            sessions' = sessions \ {s} /\ current' = s /\ pc' = "shutdown"
  /\ UNCHANGED << setup, asked, leaving, nextId, bundle, launched, containers,
                  undeleted, assetVars, command >>

\* The sessions are drained one by one; the state directory is a field of the
\* backend and goes after them.
DropNext ==
  /\ pc = "dropping"
  /\ IF sessions = {}
     THEN /\ stateDir' = FALSE /\ pc' = "off"
          /\ UNCHANGED << sessions, current >>
     ELSE \E s \in sessions :
            /\ sessions' = sessions \ {s} /\ current' = s /\ pc' = "shutdown"
            /\ UNCHANGED stateDir
  /\ UNCHANGED << setup, asked, leaving, nextId, bundle, launched, containers,
                  undeleted, assetVars, command >>

-----------------------------------------------------------------------------
\* What the host thread does by itself.  A handshake that is not answered
\* fails in the end: ProcessTransport has a deadline for it.
HostStep ==
  \/ CommandStarts \/ CommandNotStarted \/ PollExited \/ PollExpired \/ Collect
  \/ Configure \/ InitializeRunsc \/ Prepare \/ InitializeVm
  \/ Verify \/ Refuse \/ MakeDirectory \/ WriteBundle \/ Spawn
  \/ HandshakeOk \/ HandshakeFails \/ Shutdown \/ RemoveBundle \/ DropNext

User == (\E c \in Configs : Start(c)) \/ (\E s \in SessionIds : Close(s)) \/ Drop

Clock == Deadline \/ DrainDeadline

World ==
  \/ WaitFails \/ ChildDeletes \/ ChildExits \/ VersionTold \/ AcceleratorsTold
  \/ \E a \in Assets : Replace(a)
  \/ \E s \in SessionIds : ContainerCreated(s) \/ SandboxEnds(s)

Next == HostStep \/ User \/ Clock \/ World

\* The host thread runs and time passes; no child has to do anything, and QEMU
\* need not answer the two queries of the start-up.
Fairness == WF_vars(HostStep) /\ WF_vars(Clock)

Spec == Init /\ [][Next]_vars /\ Fairness

-----------------------------------------------------------------------------
(* Properties.                                                             *)

\* Where the host thread waits for QEMU's answers without a deadline.
Querying == { "queryVersion", "queryAccelerators" }

Labels == { "configure", "initialize", "spawnCommand", "poll", "drain",
            "prepare", "idle", "verify", "validate", "write", "spawn",
            "handshake", "shutdown", "removeBundle", "dropping",
            "off", "unavailable", "unisolated" } \cup Querying

Children ==
  { NoCommand }
  \cup [child : { "none" }, purpose : { "probe", "delete" }]
  \cup [child : { "running", "exited", "killed" }, purpose : { "probe", "delete" },
        held : BOOLEAN, success : BOOLEAN, expired : BOOLEAN,
        drainExpired : BOOLEAN]

\* The runtime's state directory is there as long as a container may lie in it.
StateDirStays ==
  Runsc /\ (current # 0 \/ sessions \cup launched # {}) => stateDir

\* The types of the variables; and the state directory, made at start-up and
\* removed when the backend is dropped, outlives every session: `runsc delete`
\* is given it (linux.rs, initialize and drop).
TypeOK ==
  /\ env \in Environments
  /\ config \in { Refused } \cup
       [kind : { "mock", "subprocess", "runsc", "vm" }, pinned : SUBSET Assets]
  /\ pc \in Labels
  /\ asked \in Configs \cup { NoConfig }
  /\ current \in 0..MaxSessions
  /\ leaving \in BOOLEAN /\ stateDir \in BOOLEAN /\ verified \in BOOLEAN
  /\ nextId \in 0..MaxSessions
  /\ sessions \subseteq SessionIds /\ launched \subseteq SessionIds
  /\ containers \subseteq SessionIds /\ undeleted \subseteq SessionIds
  /\ bundle \in [SessionIds -> { Absent, Empty } \cup { Bundle(c) : c \in Configs }]
  /\ asset \in [Assets -> BOOLEAN] /\ replaced \subseteq Assets
  /\ command \in Children
  /\ StateDirStays

Directories == { s \in SessionIds : bundle[s] # Absent }

Resting == { "idle", "off", "unavailable" }

\* Between two calls nothing is left of a session that did not start or was
\* closed: no directory, no process, and no container unless a `runsc delete`
\* for it reported no success.  A start can fail at every step, before and
\* after the guard of the runsc backend is armed (linux.rs, start_session).
NothingLeftBehind ==
  pc \in Resting =>
    /\ Directories = sessions
    /\ launched \subseteq sessions
    /\ containers \subseteq sessions \cup undeleted
    /\ pc = "off" => sessions = {} /\ ~stateDir

\* A session's directory is removed only after its process is gone and its
\* container is deleted or was given up: the runtime reads the bundle and the
\* container's root lies in it.  Rust drops locals and fields in an order of
\* its own, and the order of close_session and of a failed start rests on it.
BundleOutlivesSandbox ==
  [][\A s \in Directories \ Directories' :
       s \notin launched /\ (s \in containers => s \in undeleted)]_vars

\* Every runsc process and container runs from a complete bundle with a network
\* namespace of its own, and /tmp takes at most half of a limited memory.
RunsFromWholeBundle ==
  Runsc => \A s \in launched \cup (containers \ undeleted) :
    /\ bundle[s].state = "config"
    /\ "network" \in bundle[s].namespaces
    /\ bundle[s].memory # Unlimited => 2 * 1024 * bundle[s].tmp <= bundle[s].memory

\* What is launched isolates; a runsc sandbox runs from a whole bundle.  When a
\* VM is about to boot, each file it boots from has the digest pinned for it, or
\* was replaced after the comparison: the digests are compared once for all the
\* VMs of a backend, so a file replaced later is booted from as it is.  A
\* development build may leave out the digest of a file it overrides.  Six
\* environment variables and a manifest decide what is pinned (app_config.rs),
\* and the comparison can fail half-way and be tried again (vm/mod.rs).
LaunchesOnlyWhatWasChecked ==
  /\ RunsFromWholeBundle
  /\ launched # {} => Isolated(config.kind)
  /\ Vm /\ pc = "spawn" => \A a \in Assets :
       asset[a] \/ a \in replaced \/ (env.development /\ env[a].override)

\* Every call returns, whatever the children of output_with_timeout do: a
\* `runsc delete` may hang, be slow to die, or leave descendants that hold its
\* pipes open for ever (linux.rs).  Left out is the start-up of the QEMU
\* backend, which waits for the answers to its two queries without a deadline
\* (vm/mod.rs, initialize).
CallsReturn == []<>(pc \in Resting \cup Querying \cup { "unisolated" })
=============================================================================
