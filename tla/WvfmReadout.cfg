CONSTANTS
    WaveLen = 4
    Thresh = 2
    Depth = 9
    MaxWaves = 4
SPECIFICATION FairSpec
INVARIANTS TypeOK WholeWaveform TimestampRecent SentInOrder
PROPERTY FifoDrained
