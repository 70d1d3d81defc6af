\* SMFs send anything at any time: retransmitted and overlapping
\* Establishments, restarts, failing map inserts.  The UPF starts with a
\* session and a route of its earlier life.
SPECIFICATION Spec
CONSTANTS
    smfA = smfA  smfB = smfB  nodeA = nodeA  nodeB = nodeB
    ue1 = ue1  ue2 = ue2  gnb1 = gnb1  gnb2 = gnb2  None = None
    Peers = {smfA, smfB}
    Nodes = {nodeA, nodeB}
    NodeOf <- NodeOfPeer
    CpOf <- CpOfDisjoint
    CpSeids = {1, 2}
    Ues = {ue1}
    Tunnels = {gnb1}
    PdrIds = {1, 2, 3}
    FarIds = {1, 2}
    UrrIds = {1}
    Rules <- OversizedOnly
    MaxPdr = 2
    Tasks = {task1, task2}
    Cpus = {1}
    Restored <- LastStored
    LeftRoutes = {ue1}
    MaxSeid = 2
    Timestamps = {1, 2}
    Disciplined = FALSE
    MapsMayFill = TRUE
INVARIANTS TypeOK LiveRulesInstalled NoStaleSessionEntry NoStaleRoute ExclusiveOwnership
PROPERTY SeidsNeverReused
\* The tasks are alike.
SYMMETRY TaskSymmetry
