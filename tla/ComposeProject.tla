--------------------------- MODULE ComposeProject ---------------------------
(***************************************************************************)
(* What the CLI takes the project of `docker compose` to be, seen from     *)
(* outside: its containers as a whole, and whether its volumes hold        *)
(* anything.  Only what runs writes into volumes, only `up` makes anything *)
(* run, and nothing but `down -v` removes a container or empties a volume. *)
(***************************************************************************)

VARIABLES
    containers, \* "none", "stopped", "partial" (a failed `up`) or "up"
    volumes     \* "empty" or "filled"

vars == <<containers, volumes>>

Init == containers = "none" /\ volumes = "empty"

\* A failed `up` leaves what runs running.
Up ==
    /\ containers' \in (IF containers = "up" THEN {"up"} ELSE {"partial", "up"})
    /\ UNCHANGED volumes

Kill ==
    /\ containers # "none" /\ containers' = "stopped"
    /\ UNCHANGED volumes

Down == containers' = "none" /\ volumes' = "empty"

Write ==
    /\ containers \in {"partial", "up"} /\ volumes' = "filled"
    /\ UNCHANGED containers

Next == Up \/ Kill \/ Down \/ Write

Spec == Init /\ [][Next]_vars
=============================================================================
