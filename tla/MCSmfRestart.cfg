\* A disciplined SMF that restarts, or whose Recovery Time Stamp changes.
SPECIFICATION Spec
CONSTANTS
    smfA = smfA  smfB = smfB  nodeA = nodeA  nodeB = nodeB
    ue1 = ue1  ue2 = ue2  gnb1 = gnb1  gnb2 = gnb2  None = None
    Peers = {smfA, smfB}
    Nodes = {nodeA, nodeB}
    NodeOf <- NodeOfPeer
    CpOf <- CpOfDisjoint
    CpSeids = {1, 2, 3}
    Ues = {ue1}
    Tunnels = {gnb1}
    PdrIds = {1, 2, 3}
    FarIds = {1, 2}
    UrrIds = {1}
    Rules <- CompactOnly
    MaxPdr = 2
    Tasks = {1, 2}
    Cpus = {1}
    Restored <- NothingStored
    LeftRoutes = {}
    MaxSeid = 2
    Timestamps = {1, 2}
    Disciplined = TRUE
    MapsMayFill = FALSE
INVARIANT EverySessionOwned
