-------------------------- MODULE MCConfiguration --------------------------
EXTENDS Configuration

\* An installation with which every check succeeds.
Usable == [compose |-> "ok", running |-> TRUE, memory |-> 14, cpus |-> 6,
           CI |-> FALSE, versions |-> TRUE]

\* One that succeeds, one per check that fails or only warns, and failing ones
\* beside an old Node or npm.
MCEnvironments ==
    { Usable,
      [Usable EXCEPT !.compose = "old"], [Usable EXCEPT !.compose = "unparsable"],
      [Usable EXCEPT !.running = FALSE],
      [Usable EXCEPT !.memory = 3], [Usable EXCEPT !.memory = 4],
      [Usable EXCEPT !.cpus = 3], [Usable EXCEPT !.cpus = 3, !.CI = TRUE],
      [Usable EXCEPT !.versions = FALSE],
      [Usable EXCEPT !.versions = FALSE, !.running = FALSE] }

=============================================================================
