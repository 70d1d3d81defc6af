\* Requests of every kind between smf-sim and the UPF, sequence numbers up to
\* and beyond the width of their field.
CONSTANTS
    SeqNumMod = 4
    Seqs = {3, 5}
    Seids = {1}
    Ts = {1}
    SmfAddr = 10
    UpfAddr = 20
    Teid = 6
    PdrLists <- MCPdrLists
    FarLists <- MCFarLists
    UrrLists <- MCUrrLists
    Reports <- MCReports
    UnknownIe <- MCUnknownIe
SPECIFICATION Spec
INVARIANTS
    TypeOK
    RequestUnderstood
    CutRequestIsBeginning
    AnswerUnderstood
    DictionaryAgrees
