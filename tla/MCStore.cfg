\* Two SEIDs, three lives.
SPECIFICATION Spec
CONSTANTS
    ue1 = ue1  ue2 = ue2  gnb1 = gnb1  gnb2 = gnb2  None = None
    Ues = {ue1, ue2}
    CpSeids = {11, 12}
    Tunnels = {gnb1, gnb2}
    Requests <- TwoSessions
    MaxSeid = 2
    MaxLives = 3
INVARIANTS TypeOK LiveSessionsStored RecordsWhole DeletedForgotten
\* All lives and SEIDs are used.
CHECK_DEADLOCK FALSE
