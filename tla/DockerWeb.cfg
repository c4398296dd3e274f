SPECIFICATION Spec
CONSTANTS
    a = a  b = b  c = c  d = d  e = e  f = f  jellyfin = jellyfin
    None = None  Any = Any  Loopback = Loopback  Vpn = Vpn  Public = Public
    Name = Name
    Hosts <- MCHosts
    Bindings <- MCBindings
    Order <- MCOrder
    Special = {jellyfin}
    Speaks <- MCSpeaks
    Broken <- MCBroken
    Probes = 2  Limit = 2  Budget = 8
CHECK_DEADLOCK FALSE
INVARIANTS TypeOK WarnedOrComplete FewFinish
