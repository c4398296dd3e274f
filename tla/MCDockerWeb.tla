---------------------------- MODULE MCDockerWeb ----------------------------
(* Two probes at a time and requests of two units, within eight: the       *)
(* proportions of the code with two probes for its eight.                  *)
EXTENDS DockerWeb

CONSTANTS a, b, c, d, e, f, jellyfin

At(s, x, t) == [service |-> s, address |-> x, tls |-> t]
MCOrder ==
    <<At(a, Any, FALSE), At(b, Any, TRUE), At(c, Public, FALSE),
      At(d, Vpn, FALSE), At(e, Any, FALSE), At(f, Vpn, TRUE),
      At(f, Loopback, FALSE), At(jellyfin, Any, FALSE)>>
MCBindings == {MCOrder[i] : i \in DOMAIN MCOrder}

MCSpeaks == [x \in MCBindings |->
    CASE x.service = a -> {"https"}
      [] x.service = c -> {"http"}
      [] x.service \in {b, d, e} -> {}
      [] OTHER -> {"http", "https"}]
MCBroken == {At(c, Public, FALSE)}

MCHosts ==
    {h \in [ip: {Vpn, None}, name: {Name, None}, public: {Public, None}] :
        h.ip = None => h.name = None}
=============================================================================
