SPECIFICATION FairClientSpec
CONSTANTS
    Modulus = 16
    Payload = 14
    Heights = {0, 1, 6, 9, 13, 15, 17}
    Widths = {1, 2, 3, 8}
    Times <- FrameTimes
    DeltaLimit = 12
    Threads = {main, config}
    Main = main
    MaxSignals = 2
CHECK_DEADLOCK FALSE
INVARIANTS TypeOK RowsInOrder BlocksFit WholeImage FramesGivenBack
PROPERTIES ClientComesBack
