\* Three sessions with the same rule IDs, two of them for the same UE one
\* after the other; traffic while they come, move and go.
SPECIFICATION Spec
CONSTANTS
    ue1 = ue1  ue2 = ue2  gnb1 = gnb1  gnb2 = gnb2  gnb3 = gnb3  gnb4 = gnb4  None = None
    Seids = {1, 2, 3}
    Ues = {ue1, ue2}
    UeOf <- UeOfSession
    TunnelsOf <- TunnelsOfSession
    RulesOf <- Rules
    Packets <- Traffic
    Cpus = {1}
    MaxPdr = 3
    MaxPrecedence = 255
INVARIANTS TypeOK VerdictAsRuled NoMixingOfSessions
