---------------------------- MODULE MCSandboxLaunch ----------------------------
(* Model-checking instance of the launch of sandboxes: every way to name a   *)
(* backend and its assets that is decided differently.                       *)
EXTENDS SandboxLaunch

CONSTANTS NoLimit

Line(name) == [name |-> name, wellFormed |-> TRUE]
Whole == << Line("kernel"), Line("initramfs") >>
Manifests == { Whole, << Line("kernel") >>, Whole \o << Line("kernel") >>,
               << Line("kernel"), [name |-> "initramfs", wellFormed |-> FALSE] >> }

Bundled == [override |-> FALSE, digest |-> "unset"]
Override(digest) == [override |-> TRUE, digest |-> digest]
SomeAssets == { Bundled } \cup { Override(d) : d \in { "unset", "good", "malformed" } }

Environment(backend, development, vmDir, manifest, kernel, initramfs) ==
  [backend |-> backend, development |-> development, vmDir |-> vmDir,
   manifest |-> manifest, kernel |-> kernel, initramfs |-> initramfs]

ManyEnvironments ==
  { Environment(b, d, TRUE, Whole, Bundled, Bundled) :
      b \in { "unset", "mock", "subprocess", "runsc", "other" }, d \in BOOLEAN }
  \cup { Environment("vm", d, v, Whole, k, i) :
      d \in BOOLEAN, v \in BOOLEAN, k \in SomeAssets, i \in SomeAssets }
  \cup { Environment("vm", FALSE, TRUE, m, Bundled, k) :
      m \in Manifests, k \in { Bundled, Override("good") } }

Limits(document, memory, cpu, network) ==
  [document |-> document, width |-> 1, height |-> 1, buffer |-> 1,
   memory |-> memory, cpu |-> cpu, processes |-> 64, network |-> network]

SomeConfigs == { Limits(1, 536870912, 1000, FALSE), Limits(1, NoLimit, NoLimit, FALSE),
                 Limits(1, 4096, 1, FALSE), Limits(0, 4096, 1, FALSE),
                 Limits(1, 4096, 1, TRUE) }
=============================================================================
