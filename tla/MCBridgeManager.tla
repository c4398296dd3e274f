-------------------------- MODULE MCBridgeManager ---------------------------
(***************************************************************************)
(* Small instances of BridgeManager for TLC.  Names, ports and hand edits  *)
(* are chosen so that creations collide on a name or on a port, updates    *)
(* rename, and a hand edit leaves a read-only service, an unreadable file  *)
(* or no file.                                                             *)
(***************************************************************************)
EXTENDS BridgeManager, TLC

CONSTANTS a, b, r1, r2, r3

MCNames == {a, b}

In(n, p) == [name |-> n, port |-> p]
Create(n, p)    == [op |-> "create", value |-> In(n, p)]
Update(m, n, p) == [op |-> "update", name |-> m, value |-> In(n, p)]
Call(o)         == [op |-> o]
On(o, n)        == [op |-> o, name |-> n]

Standard(n, p) == [name |-> n, port |-> p, shape |-> "standard"]
CustomService(n, p) == [name |-> n, port |-> p, shape |-> "custom"]

-----------------------------------------------------------------------------
(* Saves: two threads, collisions on name a and on port 2, one call with a *)
(* port the validation refuses.                                            *)
SaveRunCalls ==
    {Create(a, 1), Create(b, 2), Create(b, 0),
     Update(a, a, 2), Update(a, b, 1), On("delete", b)}
SaveRunFiles == {NoFile, Doc(<<CustomService(b, 1)>>)}
SaveRunEdits ==
    {NoFile, Broken, Doc(<<CustomService(b, 1), Standard(a, 1)>>)}

(* Applies: saves, applies and commands on one or two services (start does *)
(* to a container what restart does).                                      *)
ApplyRunCalls ==
    {Create(a, 1), Update(a, b, 1), On("delete", a), Call("apply"),
     On("stop", a), On("restart", a), Call("restart_project")}
ApplyRunFiles == {Doc(<<Standard(a, 1)>>), NoFile}

(* Answers: the smallest set of calls in which they are interesting.       *)
AnswerRunCalls == {Create(a, 1), On("delete", a), Call("apply"), Call("project")}
AnswerRunFiles == {Doc(<<>>), NoFile}

EditRunEdits == {Doc(<<Standard(b, 2)>>)}

Symmetry == Permutations(Requests)
=============================================================================
