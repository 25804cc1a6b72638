------------------------ MODULE ConfigurationProofs ------------------------
(***************************************************************************)
(* Proofs about Configuration: its types, the soundness of LocalNode's     *)
(* abstraction of the files, and that the services start as asked.         *)
(***************************************************************************)
EXTENDS Configuration, TLAPS

\* How far the files have been written at each point of an invocation.
Progress ==
    /\ pc \in {"application", "mirror", "up"} => bootstrap = NodeProperties(options)
    /\ pc \in {"mirror", "up"} => application = NodeProperties(options)
    /\ pc \in {"bootstrap", "application", "mirror"} /\ "yml" \in copied =>
        yml = Template.yml
    /\ pc = "up" /\ "yml" \in copied => yml = MirrorProperties(options, Template.yml)
    /\ pc = "up" /\ restarting => FitsMirror(options)

\* After its CleanUpState a restart finds nothing of an earlier mode.
Cleaned ==
    restarting /\ ~ending
      /\ pc \in {"checks", "ports", "copy", "bootstrap", "application", "mirror"} =>
        yml \cap {"turbo", "nodes: multi"} = {}

\* CleanUpState at the end of an invocation, and at its beginning.
Ending == ending => pc \in {"clean.node", "clean.mirror"}

IInv == TypeOK /\ AbstractionSound /\ Progress /\ Cleaned /\ Ending

-----------------------------------------------------------------------------
(* Types *)

\* The files of the package have the types of the files.
LEMMA TemplateType ==
    /\ Template.bootstrap = {"original"}
    /\ Template.application = {"autoRenew", "original"}
    /\ Template.yml = {"nodes: template"}
BY DEF Template

\* application.yml still names the nodes in one way after it was configured.
LEMMA MirrorPropertiesType ==
    ASSUME NEW o \in SUBSET Flags, NEW y \in SUBSET (Nodes \cup {"turbo", "bytes"}),
           NEW n \in Nodes, y \cap Nodes = {n}
    PROVE  /\ MirrorProperties(o, y) \in SUBSET (Nodes \cup {"turbo", "bytes"})
           /\ \E m \in Nodes : MirrorProperties(o, y) \cap Nodes = {m}
<1>1. CASE "multi" \in o
  <2>1. MirrorProperties(o, y) \cap Nodes = {"nodes: multi"}
    BY <1>1 DEF MirrorProperties, Nodes
  <2> QED BY <1>1, <2>1 DEF MirrorProperties, Nodes
<1>2. CASE "multi" \notin o
  <2>1. MirrorProperties(o, y) \cap Nodes = {n}
    BY <1>2 DEF MirrorProperties, Nodes
  <2> QED BY <1>2, <2>1 DEF MirrorProperties, Nodes
<1> QED BY <1>1, <1>2

\* And after it was reverted: as the single node of a full one.
LEMMA RevertedMirrorType ==
    ASSUME NEW y \in SUBSET (Nodes \cup {"turbo", "bytes"})
    PROVE  /\ RevertedMirror(y) \in SUBSET (Nodes \cup {"turbo", "bytes"})
           /\ RevertedMirror(y) \cap Nodes = {"nodes: full"}
BY DEF RevertedMirror, Nodes

\* The files can only be configured in a way that fits.
LEMMA MirrorPropertiesFit ==
    ASSUME NEW o \in SUBSET Flags, NEW y \in SUBSET (Nodes \cup {"turbo", "bytes"}),
           y \cap {"turbo", "nodes: multi"} = {}
    PROVE  /\ "turbo" \in MirrorProperties(o, y) <=> "full" \notin o
           /\ "nodes: multi" \in MirrorProperties(o, y) <=> "multi" \in o
           /\ "bytes" \in o => "bytes" \in MirrorProperties(o, y)
BY DEF MirrorProperties, Nodes

\* Configuring again with the same options leaves a file fitting.
LEMMA MirrorPropertiesAgain ==
    ASSUME NEW o \in SUBSET Flags, NEW y \in SUBSET (Nodes \cup {"turbo", "bytes"}),
           "turbo" \in y <=> "full" \notin o,
           "nodes: multi" \in y <=> "multi" \in o
    PROVE  /\ "turbo" \in MirrorProperties(o, y) <=> "full" \notin o
           /\ "nodes: multi" \in MirrorProperties(o, y) <=> "multi" \in o
           /\ "bytes" \in o => "bytes" \in MirrorProperties(o, y)
BY DEF MirrorProperties, Nodes

\* The values of LocalNode's abstraction that are not modes are no modes.
LEMMA NotModes ==
    /\ ~({"absent"} \subseteq Flags) /\ ~({"original"} \subseteq Flags)
    /\ ~({"mixed"} \subseteq Flags)
    /\ {"absent"} # {"original"} /\ {"absent"} # {"mixed"} /\ {"original"} # {"mixed"}
    /\ \A o \in SUBSET Flags : o \notin {{"absent"}, {"original"}, {"mixed"}}
BY DEF Flags

-----------------------------------------------------------------------------
(* The invariant *)

\* It holds when no file exists yet.
LEMMA InitInv == Init => IInv
<1> SUFFICES ASSUME Init PROVE IInv
  OBVIOUS
<1>1. TypeOK
  BY DEF Init, TypeOK, Points, LocalNodeModes, Flags, FileNames, Nodes
<1>2. AbstractionSound
  BY NotModes DEF Init, AbstractionSound
<1>3. Progress /\ Cleaned /\ Ending
  BY DEF Init, Progress, Cleaned, Ending
<1> QED BY <1>1, <1>2, <1>3 DEF IInv

\* A process that ends while no file changes keeps it.
LEMMA ExitStep ==
    ASSUME IInv, Exit, UNCHANGED files
    PROVE  IInv'
BY DEF Exit, files, IInv, TypeOK, AbstractionSound, FitsMirror, Progress, Cleaned,
       Ending, Points, Flags, FileNames

\* Every step keeps it.
LEMMA NextInv ==
    ASSUME IInv, [Next]_vars
    PROVE  IInv'
<1> USE DEF IInv
<1>1. CASE Begin
  BY <1>1
  DEF Begin, files, TypeOK, AbstractionSound, FitsMirror, Progress, Cleaned,
      Ending, Points
<1>2. CASE Check
  <2>1. CASE Exit
    BY <1>2, <2>1, ExitStep DEF Check
  <2>2. CASE ~Exit
    <3>1. /\ usable' \in BOOLEAN /\ ending' \in BOOLEAN
          /\ pc' = IF ending' THEN "clean.node" ELSE "ports"
          /\ pc = "checks" /\ UNCHANGED <<restarting, options, copied, files>>
      BY <1>2, <2>2 DEF Check, DockerUsable
    <3>2. TypeOK'
      BY <3>1 DEF files, TypeOK, Points
    <3>3. AbstractionSound'
      BY <3>1 DEF files, AbstractionSound, FitsMirror
    <3>4. Progress' /\ Cleaned' /\ Ending'
      BY <3>1 DEF files, Progress, Cleaned, Ending
    <3> QED BY <3>2, <3>3, <3>4
  <2> QED BY <2>1, <2>2
<1>3. CASE CheckPorts
  <2>1. CASE Exit
    BY <1>3, <2>1, ExitStep DEF CheckPorts
  <2>2. CASE ~Exit
    <3>1. pc = "ports" /\ Goto("copy") /\ UNCHANGED files
      BY <1>3, <2>2 DEF CheckPorts
    <3>2. TypeOK'
      BY <3>1 DEF Goto, knowledge, files, TypeOK, Points
    <3>3. AbstractionSound'
      BY <3>1 DEF files, AbstractionSound, FitsMirror
    <3>4. Progress' /\ Cleaned' /\ Ending'
      BY <3>1 DEF Goto, knowledge, files, Progress, Cleaned, Ending
    <3> QED BY <3>2, <3>3, <3>4
  <2> QED BY <2>1, <2>2
<1>4. CASE PrepareWorkDirectory
  <2>1. TypeOK'
    <3>1. /\ bootstrap' \in {{"original"}, bootstrap}
          /\ application' \in {{"autoRenew", "original"}, application}
          /\ yml' \in {{"nodes: template"}, yml}
          /\ boot' \in {{"original"}, boot} /\ mirror' \in {{"original"}, mirror}
      BY <1>4, TemplateType DEF PrepareWorkDirectory
    <3>2. bootstrap' \in SUBSET {"original", "node", "block"}
      BY <3>1 DEF TypeOK
    <3>3. application' \in SUBSET {"original", "node", "block", "autoRenew"}
      BY <3>1 DEF TypeOK
    <3>4. /\ yml' \in SUBSET (Nodes \cup {"turbo", "bytes"})
          /\ yml' # {} => \E n \in Nodes : yml' \cap Nodes = {n}
      BY <3>1 DEF TypeOK, Nodes
    <3>5. boot' \in LocalNodeModes /\ mirror' \in LocalNodeModes
      BY <3>1 DEF TypeOK, LocalNodeModes
    <3>6. /\ pc' \in Points /\ copied' \in SUBSET FileNames
          /\ UNCHANGED <<restarting, ending, options, usable>>
      BY <1>4 DEF PrepareWorkDirectory, Points
    <3> QED BY <3>2, <3>3, <3>4, <3>5, <3>6 DEF TypeOK
  <2>2. AbstractionSound'
    BY <1>4, TemplateType, NotModes
    DEF PrepareWorkDirectory, AbstractionSound, FitsMirror, TypeOK
  <2>3. Progress' /\ Cleaned' /\ Ending'
    BY <1>4, TemplateType
    DEF PrepareWorkDirectory, Progress, Cleaned, Ending
  <2> QED BY <2>1, <2>2, <2>3
<1>5. CASE ConfigureBootstrap
  <2>1. CASE Exit /\ UNCHANGED files
    BY <2>1, ExitStep
  <2>2. CASE ~(Exit /\ UNCHANGED files)
    <3>1. /\ bootstrap' = NodeProperties(options) /\ boot' = options
          /\ Goto("application") /\ pc = "bootstrap"
          /\ UNCHANGED <<application, yml, mirror>>
      BY <1>5, <2>2 DEF ConfigureBootstrap, files
    <3>2. TypeOK'
      BY <3>1 DEF Goto, knowledge, TypeOK, Points, NodeProperties, LocalNodeModes
    <3>3. AbstractionSound'
      BY <3>1, NotModes
      DEF Goto, knowledge, AbstractionSound, FitsMirror, TypeOK, NodeProperties
    <3>4. Progress' /\ Cleaned' /\ Ending'
      BY <3>1 DEF Goto, knowledge, Progress, Cleaned, Ending, NodeProperties
    <3> QED BY <3>2, <3>3, <3>4
  <2> QED BY <2>1, <2>2
<1>6. CASE ConfigureApplication
  BY <1>6
  DEF ConfigureApplication, Goto, knowledge, TypeOK, AbstractionSound, FitsMirror,
      Progress, Cleaned, Ending, Points, NodeProperties
<1>7. CASE ConfigureMirror
  <2>1. CASE yml = {}
    BY <1>7, <2>1, ExitStep DEF ConfigureMirror, files
  <2>2. CASE yml # {}
    <3>1. /\ yml' = MirrorProperties(options, yml) /\ pc = "mirror"
          /\ mirror' = IF mirror \in {{"original"}, options} THEN options ELSE {"mixed"}
          /\ Goto("up") /\ UNCHANGED <<bootstrap, application, boot>>
      BY <1>7, <2>2 DEF ConfigureMirror
    <3>2. PICK n \in Nodes : yml \cap Nodes = {n}
      BY <2>2 DEF TypeOK
    <3>3. options \in SUBSET Flags /\ yml \in SUBSET (Nodes \cup {"turbo", "bytes"})
      BY DEF TypeOK
    <3>4. /\ yml' \in SUBSET (Nodes \cup {"turbo", "bytes"})
          /\ \E m \in Nodes : yml' \cap Nodes = {m}
      BY <3>1, <3>2, <3>3, MirrorPropertiesType
    <3>5. TypeOK'
      <4>1. mirror' \in LocalNodeModes
        BY <3>1, <3>3 DEF LocalNodeModes
      <4>2. pc' \in Points /\ UNCHANGED knowledge
        BY <3>1 DEF Goto, Points
      <4> QED BY <3>1, <3>4, <4>1, <4>2 DEF knowledge, TypeOK
    <3>6. mirror \in {{"original"}, options} =>
            /\ "turbo" \in yml' <=> "full" \notin options
            /\ "nodes: multi" \in yml' <=> "multi" \in options
            /\ "bytes" \in options => "bytes" \in yml'
      <4>1. CASE mirror = {"original"}
        BY <4>1, <3>1, <3>3, MirrorPropertiesFit DEF AbstractionSound
      <4>2. CASE mirror = options
        BY <4>2, <3>1, <3>3, MirrorPropertiesAgain DEF AbstractionSound, FitsMirror
      <4> QED BY <4>1, <4>2
    <3>7. AbstractionSound'
      <4>1. yml' # {}
        BY <3>4
      <4>2. mirror' \in {options, {"mixed"}}
        BY <3>1
      <4>3. mirror' # {"absent"} /\ mirror' # {"original"}
        BY <4>2, <3>3, NotModes
      <4>4. mirror' \subseteq Flags =>
              /\ mirror' = options /\ mirror \in {{"original"}, options}
        BY <3>1, <4>2, NotModes
      <4> QED BY <3>1, <3>6, <4>1, <4>3, <4>4
          DEF AbstractionSound, FitsMirror
    <3>8. Progress'
      <4>1. restarting => yml \cap {"turbo", "nodes: multi"} = {}
        BY <3>1 DEF Cleaned, Ending
      <4>2. restarting => FitsMirror(options)'
        BY <4>1, <3>1, <3>3, MirrorPropertiesFit DEF FitsMirror, Goto, knowledge
      <4> QED BY <3>1, <4>2 DEF Progress, Goto, knowledge
    <3>9. Cleaned' /\ Ending'
      BY <3>1 DEF Cleaned, Ending, Goto, knowledge
    <3> QED BY <3>5, <3>7, <3>8, <3>9
  <2> QED BY <2>1, <2>2
<1>8. CASE End
  BY <1>8
  DEF End, files, TypeOK, AbstractionSound, FitsMirror, Progress, Cleaned, Ending,
      Points
<1>9. CASE RevertNodeProperties
  <2>1. /\ bootstrap' = IF bootstrap = {} THEN {} ELSE {"original"}
        /\ boot' = IF boot = {"absent"} THEN boot ELSE {"original"}
        /\ pc' = "clean.mirror" /\ UNCHANGED <<knowledge, application, yml, mirror>>
    BY <1>9 DEF RevertNodeProperties, Goto
  <2>2. TypeOK'
    <3>1. bootstrap' \in SUBSET {"original", "node", "block"}
      BY <2>1
    <3>2. boot' \in LocalNodeModes /\ pc' \in Points
      BY <2>1 DEF TypeOK, LocalNodeModes, Points
    <3> QED BY <2>1, <3>1, <3>2 DEF knowledge, TypeOK
  <2>3. AbstractionSound'
    BY <2>1, NotModes DEF AbstractionSound, FitsMirror
  <2>4. Progress' /\ Cleaned' /\ Ending'
    BY <2>1 DEF knowledge, Progress, Cleaned, Ending
  <2> QED BY <2>2, <2>3, <2>4
<1>10. CASE RevertMirrorNodeProperties
  <2>1. /\ yml' \in SUBSET (Nodes \cup {"turbo", "bytes"})
        /\ yml' # {} => yml' \cap Nodes = {"nodes: full"}
        /\ yml' = {} <=> yml = {}
        /\ yml' \cap {"turbo", "nodes: multi"} = {}
    BY <1>10, RevertedMirrorType
    DEF RevertMirrorNodeProperties, RevertedMirror, TypeOK, Nodes
  <2>2. /\ mirror' \in {{"absent"}, {"original"}}
        /\ mirror' = {"absent"} <=> mirror = {"absent"}
        /\ UNCHANGED <<bootstrap, application, boot>>
        /\ (Exit \/ (Goto("checks") /\ ~ending))
    BY <1>10, NotModes DEF RevertMirrorNodeProperties
  <2>3. TypeOK'
    <3>1. mirror' \in LocalNodeModes
      BY <2>2 DEF LocalNodeModes
    <3>2. yml' # {} => \E n \in Nodes : yml' \cap Nodes = {n}
      BY <2>1 DEF Nodes
    <3>3. CASE Exit
      BY <2>1, <2>2, <3>1, <3>2, <3>3 DEF Exit, TypeOK, Points, Flags, FileNames
    <3>4. CASE Goto("checks")
      BY <2>1, <2>2, <3>1, <3>2, <3>4 DEF Goto, knowledge, TypeOK, Points
    <3> QED BY <2>2, <3>3, <3>4
  <2>4. AbstractionSound'
    BY <2>1, <2>2, NotModes DEF AbstractionSound
  <2>5. Progress' /\ Cleaned' /\ Ending'
    <3>1. CASE Exit
      BY <3>1 DEF Exit, Progress, Cleaned, Ending
    <3>2. CASE Goto("checks") /\ ~ending
      BY <2>1, <3>2 DEF Goto, knowledge, Progress, Cleaned, Ending
    <3> QED BY <2>2, <3>1, <3>2
  <2> QED BY <2>3, <2>4, <2>5
<1>11. CASE Abandon
  BY <1>11, ExitStep DEF Abandon
<1>12. CASE UNCHANGED vars
  <2>1. UNCHANGED knowledge /\ UNCHANGED files /\ pc' = pc
    BY <1>12 DEF vars
  <2>2. TypeOK' /\ AbstractionSound'
    BY <2>1 DEF knowledge, files, TypeOK, AbstractionSound, FitsMirror
  <2>3. Progress' /\ Cleaned' /\ Ending'
    BY <2>1 DEF knowledge, files, Progress, Cleaned, Ending, FitsMirror
  <2> QED BY <2>2, <2>3
<1> QED BY <1>1, <1>2, <1>3, <1>4, <1>5, <1>6, <1>7, <1>8, <1>9, <1>10, <1>11,
           <1>12 DEF Next

\* IInv holds in every reachable state.
THEOREM Invariance == Spec => []IInv
BY InitInv, NextInv, PTL DEF Spec

-----------------------------------------------------------------------------

\* Whatever installations are found and whatever goes wrong, the variables keep
\* their types and application.yml names the monitor's nodes in one way.
THEOREM Typing == Spec => []TypeOK
<1>1. IInv => TypeOK
  BY DEF IInv
<1> QED BY <1>1, Invariance, PTL

\* What LocalNode says of bootstrap.properties and application.yml is true of
\* the settings in them, after any sequence of invocations.
THEOREM LocalNodeAbstraction == Spec => []AbstractionSound
<1>1. IInv => AbstractionSound
  BY DEF IInv
<1> QED BY <1>1, Invariance, PTL

\* The services start with the configuration of their own command line.
THEOREM StartedAsAsked == Spec => []UpAsAsked
<1>1. IInv => UpAsAsked
  BY DEF IInv, Progress, UpAsAsked
<1> QED BY <1>1, Invariance, PTL

=============================================================================
