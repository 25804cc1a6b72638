---------------------------- MODULE MCLocalNode ----------------------------
(***************************************************************************)
(* Instances of LocalNode for TLC: which commands and options the          *)
(* invocations take, and which faults can happen, in each run.             *)
(***************************************************************************)
EXTENDS LocalNode, TLC

CONSTANTS p1, p2, p3, turbo, full

Commands(cs, ms) ==
    [command : cs, mode : ms, async : {FALSE}, blocklist : {FALSE}, resources : {FALSE}]

AnyOptions ==
    [command : DOMAIN Procedure, mode : {turbo}, async : BOOLEAN,
     blocklist : BOOLEAN, resources : BOOLEAN]

\* Sequential runs: later invocations find what earlier ones left behind.
SequentialOptions == Commands({"start", "restart", "stop"}, {turbo, full})

OverlapOptions == Commands({"start", "restart", "accountCreation"}, {turbo})

StartOptions == Commands({"start"}, {turbo})

\* The invocations are interchangeable, and so are the modes: no command or
\* option is tied to one of them.  (The properties that are checked with it are
\* invariants and properties of single steps.)
Symmetry == Permutations({p1, p2}) \cup Permutations({turbo, full})

\* Every fault except those that make a command's failure go unnoticed.
NoticedFaults == FaultKinds \ {"insert", "down"}
LiveFaults == FaultKinds \ {"images", "kill"}
ImageFault == {"images"}
ComposeFault == {"compose1"}
OverlapFaults == {"compose1", "insert", "split", "down", "sigint"}
=============================================================================
