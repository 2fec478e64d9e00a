CONSTANTS
    Receivers <- CategoryMains
    Standard <- Profiles
    Inputs = {"udp", "tcp", "raw"}
    Divergent <- KnownDivergent
    Fatal = {4, 7}
    Leaky = {11, 15, 17, 18, 20, 48, 62}
    MaxExtent = 2
    MaxFrames = 2
    MaxRecords = 2
    MaxTail = 4
SPECIFICATION Spec
INVARIANTS AsterixTypeOK KnownMisreads RecordForRecord DiesOnlyWhereListed
PROPERTY BlockEnds
