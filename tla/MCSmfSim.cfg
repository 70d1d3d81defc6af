\* smf-sim in each of its three modes against one UPF.
SPECIFICATION Spec
CONSTANTS
    None = None
    Modes = {"run", "interactive", "send"}
    MaxRetries <- Retries
    Capacity = 2
    MaxTries = 1
    MaxCommands = 3
    MaxKaSeq <- KaSeqs
    MaxSeid = 2
    MaxEpoch <- Epochs
    MaxUpfRequests <- UpfRequestsSent
    PoolSize = 2
    MaxTs <- ClockReadings
INVARIANTS TypeOK KnownSessionReachable LeakOnlyByRetransmission DistinctUpfSeids
PROPERTY ScenarioEnds
\* The process ends, or its numbers are used up.
CHECK_DEADLOCK FALSE
