-------------------------- MODULE MCHeadInventory --------------------------
(* Small instances of HeadInventory.  The configuration knows the head and *)
(* the minion m, or has dropped the head and moved m.  The only client has *)
(* the address that m had, and a name of its own or that of the head; or a *)
(* file that is no text; or one with a value that is too long.             *)
EXTENDS HeadInventory

CONSTANTS h, m, a, b, c, i1, i2, i3, d, x

MCTopologies ==
    {{Named(h, i1), Named(m, i2)}, {Named(m, i3)}}
MCClientFiles ==
    {{Named(a, i2)}, {Named(h, i2)}} \cup {NotText, TooLong}
MCNotText == {Named(b, i3)}
MCTooLong == {Named(c, i3)}
MCTargets == <<m>>
MCAnswers == {{x}}
=============================================================================
