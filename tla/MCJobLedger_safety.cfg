SPECIFICATION Spec
CONSTANTS
    Writers = {w1, w2, w3}
    Contents = {c1, c2}
    NoContent = NoContent
    NoWriter = NoWriter
    NoLedger = NoLedger
    StageBound = 3
SYMMETRY Symmetry
INVARIANTS
    HistoriesValid
    NoLostCommit
    OneWinnerPerStage
    LedgerBindsArtifacts
PROPERTIES
    ImplementsStageLog
