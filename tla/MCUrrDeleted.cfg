\* A URR with traffic whose session is deleted.
SPECIFICATION Spec
CONSTANTS
    smfA = smfA  urr1 = urr1  None = None
    Urrs = {urr1}
    Smfs = {smfA}
    OwnerOf <- OwnerSolo
    SettingsOf <- SettingsPerio
    Cpus = {1}
    MaxVolume = 2
    MaxPeriod = 2
    SeqnMod = 3
PROPERTY DeletedUrrFallsSilent
