----------------------------- MODULE MCHeadAuth -----------------------------
(* Small instances of HeadAuth: the file is absent, invalid, or holds a    *)
(* password and one session.  Requests and passwords are interchangeable. *)
EXTENDS HeadAuth, TLC

CONSTANTS r1, r2, p1, p2

MCInitialFiles ==
    {Absent, Corrupt,
     Stored([password |-> p1, sessions |-> {[token |-> 1, expires |-> 1]}]),
     Stored([password |-> p2, sessions |-> {[token |-> 1, expires |-> 1]}])}
Symmetry ==
    {p @@ q : p \in Permutations({r1, r2}), q \in Permutations({p1, p2})}
=============================================================================
