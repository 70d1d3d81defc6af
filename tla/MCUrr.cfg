\* A URR with traffic on two CPUs, reconfigured and deleted at any time.
SPECIFICATION Spec
CONSTANTS
    smfA = smfA  urr1 = urr1  None = None
    Urrs = {urr1}
    Smfs = {smfA}
    OwnerOf <- OwnerSolo
    SettingsOf <- SettingsAll
    Cpus = {1, 2}
    MaxVolume = 3
    MaxPeriod = 2
    SeqnMod = 3
INVARIANTS TypeOK ThresholdReportedOnce NeverOverbilled
PROPERTIES ReportsNumbered ThresholdEventuallyReported PeriodEventuallyReported
