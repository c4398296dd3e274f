--------------------------- MODULE MCDockerIgnore ---------------------------
(* Small instances of DockerIgnore: the file is empty or absent, or has     *)
(* lines of the administrator with or without the entry.                    *)
EXTENDS DockerIgnore, TLC

CONSTANTS r1, r2, r3, x, y

MCInitialLines == {{}, {x, y}, {x, Entry}}
Symmetry == Permutations(Requests)
=============================================================================
