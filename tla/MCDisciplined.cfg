\* SMFs that never restart and reuse a UE address or a CP-SEID only when the
\* Deletion of the session that had it has been answered.  Map inserts fail.
SPECIFICATION Spec
CONSTANTS
    smfA = smfA  smfB = smfB  nodeA = nodeA  nodeB = nodeB
    ue1 = ue1  ue2 = ue2  gnb1 = gnb1  gnb2 = gnb2  None = None
    Peers = {smfA}
    Nodes = {nodeA}
    NodeOf <- NodeOfSolo
    CpOf <- CpOfSolo
    CpSeids = {1, 2}
    Ues = {ue1, ue2}
    Tunnels = {gnb1}
    PdrIds = {1, 2}
    FarIds = {1, 2}
    UrrIds = {1}
    Rules <- CompactOnly
    MaxPdr = 2
    Tasks = {1, 2}
    Cpus = {1}
    Restored <- NothingStored
    LeftRoutes = {}
    MaxSeid = 2
    Timestamps = {1}
    Disciplined = TRUE
    MapsMayFill = TRUE
INVARIANTS LiveForwardable LiveRouted ReclaimedAfterDeletion EverySessionOwned
PROPERTIES DeletionReclaims ImplementsLifecycle
\* When every SEID within the bound is used the server is idle.
CHECK_DEADLOCK FALSE
