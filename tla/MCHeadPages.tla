---------------------------- MODULE MCHeadPages ----------------------------
(***************************************************************************)
(* Two nodes: a mounts directories of b, which it calls by its host name,  *)
(* by its address and by a name nobody has.  b may report its exports or   *)
(* be reinstalled with another port; a may come to bear b's host name.     *)
(***************************************************************************)
EXTENDS HeadPages

CONSTANTS a, b, pc, box, ia, ib, pub, far, other, user, docs, home

MCOrder == <<a, b>>
MCIp == [n \in {a, b} |-> IF n = a THEN ia ELSE ib]
Mount(host, path, dir) ==
    [host |-> host, port |-> 22, user |-> user, path |-> path, dir |-> dir]
MCMounts ==
    <<Mount(pc, <<docs>>, 1), Mount(pc, <<docs>>, 2), Mount(ib, <<Up, home>>, 3),
      Mount(other, <<docs>>, 4), Mount(pc, Relative, 5)>>
Says(host, public, web, mounts, ports) ==
    [host |-> host, public |-> public, web |-> web, mounts |-> mounts,
     exports |-> <<[user |-> user, ports |-> {2222}, chroot |-> <<home>>],
                   [user |-> user, ports |-> ports, chroot |-> <<home, docs>>]>>,
     windows |-> <<[path |-> <<home>>, root |-> <<"C">>],
                   [path |-> <<home, docs>>, root |-> <<"D">>]>>]
MCReports ==
    [n \in {a, b} |->
        IF n = a
        THEN {Says(box, None, None, MCMounts, {}), Says(pc, pub, "up", MCMounts, {22})}
        ELSE {Says(pc, pub, "up", <<>>, {22}), Says(None, ia, "down", <<>>, {23})}]
MCDevices ==
    <<[name |-> "phone", ip |-> far, endpoint |-> pub],
      [name |-> "laptop", ip |-> ia, endpoint |-> None]>>
=============================================================================
