--------------------------- MODULE Configuration ---------------------------
(***************************************************************************)
(* The configuration files of the working directory, setting by setting:   *)
(* what InitState checks, copies and writes, and what CleanUpState reverts, *)
(* over any number of invocations that follow one another.                 *)
(*                                                                         *)
(* LocalNode knows of bootstrap.properties and application.yml only which  *)
(* mode they are in; boot and mirror repeat what it knows here, beside the *)
(* settings that the files really hold.                                    *)
(***************************************************************************)
EXTENDS Naturals

CONSTANTS
    Environments,  \* the Docker, Node and npm installations that may be found
    Faults         \* "port", "copy", "kill": what may go wrong

Flags == {"full", "multi", "block", "bytes"}  \* --full, --multinode, ...
FileNames == {"bootstrap", "application", "yml"}

ASSUME EnvironmentsAssumption ==
    Environments \subseteq [compose : {"ok", "old", "unparsable"}, running : BOOLEAN,
                            memory : Nat, cpus : Nat, CI : BOOLEAN, versions : BOOLEAN]
ASSUME FaultsAssumption == Faults \subseteq {"port", "copy", "kill"}

VARIABLES
    pc,           \* where the current invocation is; "idle" between two
    restarting,   \* it runs CleanUpState and StopState before InitState
    ending,       \* it has been through, or given up, its other states
    options,      \* the flags of its command line
    usable,       \* what it has found of Docker will do
    copied,       \* the files it has copied from the package
    bootstrap,    \* settings in bootstrap.properties ({}: there is no file)
    application,  \* settings in application.properties
    yml,          \* settings in the mirror node's application.yml
    boot,         \* LocalNode's abstraction of bootstrap.properties
    mirror        \* LocalNode's abstraction of application.yml

knowledge == <<restarting, ending, options, usable, copied>>
files == <<bootstrap, application, yml, boot, mirror>>
vars == <<pc, knowledge, files>>

\* The files of the package. Each kind of monitor.nodes is a setting of its own.
Template ==
    [ bootstrap |-> {"original"},
      application |-> {"autoRenew", "original"},
      yml |-> {"nodes: template"} ]

Nodes == {"nodes: template", "nodes: full", "nodes: multi"}

Init ==
    /\ pc = "idle" /\ restarting = FALSE /\ ending = FALSE /\ options = {}
    /\ usable = TRUE /\ copied = {}
    /\ bootstrap = {} /\ application = {} /\ yml = {}
    /\ boot = {"absent"} /\ mirror = {"absent"}

\* The process goes on at another point, or ends, and with it what it knew.
Goto(l) == pc' = l /\ UNCHANGED knowledge
Exit ==
    /\ pc' = "idle" /\ restarting' = FALSE /\ ending' = FALSE /\ options' = {}
    /\ usable' = TRUE /\ copied' = {}

-----------------------------------------------------------------------------
(* The checks *)

\* checkMemoryResources: below the recommendation, multi-node included, only
\* a warning is logged as long as a single node's minimum is there.
EnoughMemory(memory, multi) ==
    (IF multi THEN memory < 14 ELSE memory < 8) => memory >= 4

EnoughCpus(cpus, CI) == cpus >= 4 \/ CI

\* What the three Docker checks find in the installation e.
DockerUsable(e, o) ==
    /\ e.compose = "ok" /\ e.running
    /\ EnoughMemory(e.memory, "multi" \in o) /\ EnoughCpus(e.cpus, e.CI)

\* Mutant of Begin: the restart begins at InitState.
Begin_StraightAway ==
    /\ pc = "idle" /\ pc' = "checks"
    /\ restarting' \in BOOLEAN /\ options' \in SUBSET Flags
    /\ UNCHANGED <<ending, usable, copied, files>>

Begin ==
    /\ pc = "idle"
    /\ restarting' \in BOOLEAN /\ options' \in SUBSET Flags
    /\ pc' = IF restarting' THEN "clean.node" ELSE "checks"
    /\ UNCHANGED <<ending, usable, copied, files>>

\* A version that semver cannot parse makes it throw; otherwise the checks
\* stop the invocation only if the versions of Node and npm are valid.
Check ==
    /\ pc = "checks"
    /\ \E e \in Environments :
        \/ e.compose = "unparsable" /\ Exit
        \/ /\ e.compose # "unparsable"
           /\ usable' = DockerUsable(e, options)
           /\ ending' = (~usable' /\ e.versions)
           /\ pc' = IF ending' THEN "clean.node" ELSE "ports"
           /\ UNCHANGED <<restarting, options, copied>>
    /\ UNCHANGED files

\* isPortInUse ends the process.
CheckPorts ==
    /\ pc = "ports"
    /\ Goto("copy") \/ ("port" \in Faults /\ Exit)
    /\ UNCHANGED files

-----------------------------------------------------------------------------
(* Copying and configuring *)

\* copyPaths: an error is logged and ignored, after some of the files.
PrepareWorkDirectory ==
    /\ pc = "copy" /\ pc' = "bootstrap"
    /\ copied' \in SUBSET FileNames
    /\ "copy" \in Faults \/ copied' = FileNames
    /\ bootstrap' = IF "bootstrap" \in copied' THEN Template.bootstrap ELSE bootstrap
    /\ application' = IF "application" \in copied' THEN Template.application ELSE application
    /\ yml' = IF "yml" \in copied' THEN Template.yml ELSE yml
    /\ boot' = IF "bootstrap" \in copied' THEN {"original"} ELSE boot
    /\ mirror' = IF "yml" \in copied' THEN {"original"} ELSE mirror
    /\ UNCHANGED <<restarting, ending, options, usable>>

NodeProperties(o) == {"original", "node"} \cup (o \cap {"block"})

\* The two files are written anew with the same properties, one after the
\* other; that throws as long as their directory has never been copied.
ConfigureBootstrap ==
    /\ pc = "bootstrap"
    /\ \/ /\ bootstrap' = NodeProperties(options) /\ boot' = options
          /\ Goto("application")
       \/ bootstrap = {} /\ Exit /\ UNCHANGED <<bootstrap, boot>>
    /\ UNCHANGED <<application, yml, mirror>>

ConfigureApplication ==
    /\ pc = "application" /\ Goto("mirror")
    /\ application' = NodeProperties(options)
    /\ UNCHANGED <<bootstrap, yml, boot, mirror>>

\* Mutant of MirrorProperties: the nodes are added to those that are there.
MirrorProperties_AddsNodes(o, y) ==
    y \cup (IF "full" \in o THEN {} ELSE {"turbo"})
      \cup (IF "multi" \in o THEN {"nodes: multi"} ELSE {}) \cup (o \cap {"bytes"})

\* What becomes of application.yml with the settings y: keys are assigned,
\* none is removed.
MirrorProperties(o, y) ==
    (IF "multi" \in o THEN (y \ Nodes) \cup {"nodes: multi"} ELSE y)
      \cup (IF "full" \in o THEN {} ELSE {"turbo"}) \cup (o \cap {"bytes"})

ConfigureMirror ==
    /\ pc = "mirror"
    /\ \/ /\ yml # {} /\ Goto("up")
          /\ yml' = MirrorProperties(options, yml)
          /\ mirror' = IF mirror \in {{"original"}, options} THEN options ELSE {"mixed"}
       \/ yml = {} /\ Exit /\ UNCHANGED <<yml, mirror>>
    /\ UNCHANGED <<bootstrap, application, boot>>

-----------------------------------------------------------------------------
(* Reverting *)

\* The network has been up, or a later state has failed: CleanUpState.
End ==
    /\ pc = "up" /\ pc' = "clean.node" /\ ending' = TRUE
    /\ UNCHANGED <<restarting, options, usable, copied, files>>

\* application.properties is left as it is.
RevertNodeProperties ==
    /\ pc = "clean.node" /\ Goto("clean.mirror")
    /\ bootstrap' = IF bootstrap = {} THEN {} ELSE {"original"}
    /\ boot' = IF boot = {"absent"} THEN boot ELSE {"original"}
    /\ UNCHANGED <<application, yml, mirror>>

\* Mutant of RevertedMirror: the nodes are left as they are.
RevertedMirror_KeepsNodes(y) == y \ {"turbo"}

\* dataPath and sources are deleted, the nodes are replaced by the single one
\* of a full node; what persists the transaction bytes stays.
RevertedMirror(y) == (y \ (Nodes \cup {"turbo"})) \cup {"nodes: full"}

RevertMirrorNodeProperties ==
    /\ pc = "clean.mirror" /\ IF ending THEN Exit ELSE Goto("checks")
    /\ yml' = IF yml = {} THEN {} ELSE RevertedMirror(yml)
    /\ mirror' = IF mirror = {"absent"} THEN mirror ELSE {"original"}
    /\ UNCHANGED <<bootstrap, application, boot>>

\* The process is killed, or its SIGINT handler runs "stop", which reverts
\* nothing.
Abandon ==
    /\ "kill" \in Faults /\ pc # "idle" /\ Exit
    /\ UNCHANGED files

Next ==
    \/ Begin \/ Check \/ CheckPorts
    \/ PrepareWorkDirectory \/ ConfigureBootstrap \/ ConfigureApplication \/ ConfigureMirror
    \/ End \/ RevertNodeProperties \/ RevertMirrorNodeProperties
    \/ Abandon

Spec == Init /\ [][Next]_vars

-----------------------------------------------------------------------------
(* Properties *)

Points == {"idle", "checks", "ports", "copy", "bootstrap", "application", "mirror",
           "up", "clean.node", "clean.mirror"}
LocalNodeModes == (SUBSET Flags) \cup {{"absent"}, {"original"}, {"mixed"}}

\* Every variable has its type, and an application.yml that exists names the
\* nodes of the monitor in exactly one way.
TypeOK ==
    /\ pc \in Points /\ restarting \in BOOLEAN /\ ending \in BOOLEAN
    /\ options \in SUBSET Flags /\ usable \in BOOLEAN
    /\ copied \in SUBSET FileNames
    /\ bootstrap \in SUBSET {"original", "node", "block"}
    /\ application \in SUBSET {"original", "node", "block", "autoRenew"}
    /\ yml \in SUBSET (Nodes \cup {"turbo", "bytes"})
    /\ yml # {} => \E n \in Nodes : yml \cap Nodes = {n}
    /\ boot \in LocalNodeModes /\ mirror \in LocalNodeModes

\* application.yml makes the mirror node work with what options o start.
FitsMirror(o) ==
    /\ "turbo" \in yml <=> "full" \notin o
    /\ "nodes: multi" \in yml <=> "multi" \in o
    /\ "bytes" \in o => "bytes" \in yml

\* What LocalNode says of the two files is true of the settings they hold,
\* after any sequence of invocations, killed ones and failed copies included:
\* absent, original (nothing left of a mode), or in the mode of some options.
AbstractionSound ==
    /\ boot = {"absent"} <=> bootstrap = {}
    /\ boot = {"original"} => bootstrap = {"original"}
    /\ boot \subseteq Flags => bootstrap = NodeProperties(boot)
    /\ mirror = {"absent"} <=> yml = {}
    /\ mirror = {"original"} => yml \cap {"turbo", "nodes: multi"} = {}
    /\ mirror \subseteq Flags => FitsMirror(mirror)

\* The services start with the configuration of this command line, whatever
\* earlier invocations have left behind: exactly it when application.yml has
\* been copied, and after the CleanUpState of a restart a fitting one even when
\* the copies have failed.
UpAsAsked ==
    pc = "up" =>
        /\ bootstrap = NodeProperties(options) /\ application = bootstrap
        /\ "yml" \in copied => yml = MirrorProperties(options, Template.yml)
        /\ restarting => FitsMirror(options)

\* InitState.spec.ts:151, InitState finishes with UnresolvableError on the
\* Docker checks (Compose version, Docker running, resources): it goes on only
\* where they succeed.
StopsOnDockerChecks == pc = "ports" => usable

=============================================================================
