\* A session that drops uplink TCP, and uplink TCP while it comes and goes.
SPECIFICATION Spec
CONSTANTS
    ue1 = ue1  ue2 = ue2  gnb1 = gnb1  gnb2 = gnb2  gnb3 = gnb3  gnb4 = gnb4  None = None
    Seids = {1}
    Ues = {ue1}
    UeOf <- UeOfOne
    TunnelsOf <- TunnelsOfOne
    RulesOf <- OneTcp
    Packets <- UplinkTraffic
    Cpus = {1}
    MaxPdr = 3
    MaxPrecedence = 255
INVARIANT NeverLetThrough
