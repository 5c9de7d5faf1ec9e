CONSTANTS
    PageHeight = 12
    Margin = 1
    BlockGap = 1
    HeadingWithNext = 2
    MaxPages = 4
    MaxLines = 20
    FullWidth = 13
    ColumnGap = 1
    MaxItems = 8
    MaxLabels = 4
    MaxStyled = 4
    MaxAuxiliary = 4
    MaxContent = 5
    MaxComposite = 40
    MaxTotal = 45
    TargetBasisPoints = 2000
    HardCapBasisPoints = 4000
    MaxReported = 1000
    MaxNesting = 3
    MaxOperands = 2
    MaxRuns = 60
    AmbiguityLabel <- MCAmbiguityLabel
    InputFamilies <- MCInputFamilies
SPECIFICATION MCSpec
INVARIANTS
    GlyphsAreKept
    PaperIsReadInOrder
    LinesAreComplete
    LayoutIsSound
    SelectionIsSound
    SelectedIsFinal
    AnswersAreTrue
    PreflightIsSound
CHECK_DEADLOCK FALSE
