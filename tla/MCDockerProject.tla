--------------------------- MODULE MCDockerProject ---------------------------
EXTENDS DockerProject

MCDirs == {"d1", "d2"}

Plain == [full |-> FALSE, multi |-> FALSE, block |-> FALSE, user |-> FALSE, dir |-> "d1"]

\* The two modes, each with several nodes and block nodes, and user files in another
\* directory: each compose file is selected by one of them and left out by another.
MCOptions ==
    { Plain,
      [Plain EXCEPT !.full = TRUE],
      [Plain EXCEPT !.full = TRUE, !.multi = TRUE],
      [Plain EXCEPT !.multi = TRUE, !.block = TRUE],
      [Plain EXCEPT !.user = TRUE, !.dir = "d2"] }

==============================================================================
