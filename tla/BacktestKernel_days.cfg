SPECIFICATION FairSpec
CONSTANTS
    MaxThreads = 2
    MaxRows = 3
    RowsPerThread = 1
    Instruments = {1, 2, 3}
    Runs <- MCRuns
    RowsOf <- MCRowsOf
    Splits <- MCSplits
    Delisted <- MCDelisted
    MaxPositions = 2
    PositionPct = 90
    StageTargets <- MCStageTargets
    MinStrength = 20
    Indicators <- MCIndicators
    CalendarDay <- MCCalendarDay
    MinHistory = 2
    Island <- MCIsland
    DoubleBottom <- MCDoubleBottom
    HeadShoulders <- MCHeadShoulders
    RoundedBottom <- MCRoundedBottom
    VReversal <- MCVReversal
    PatternRisk <- MCPatternRisk
    Bowl <- MCBowl
    HistoryFloor = 0
    HistorySlack = 0
    AtrWindow = 3
    SR <- MCSupport
    Decay <- MCDecay
    Grain = 12
INVARIANTS Solvent RowsOnce DecidesAsReplayed
PROPERTIES FillsAtNextOpen BacktestEnds
