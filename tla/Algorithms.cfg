SPECIFICATION MCSpec
CONSTANTS
    MaxOps = 3
    MaxRounds = 2
    MAX_CBOR_DEPTH = 2
    MAX_CBOR_COLLECTION_LENGTH = 24
    MaxSpread = 256
    MaxBytes = 80
    MAX_PENDING_WRITE_BYTES = 50
    ChunkSizes = {8, 13, 40}
    MaxChunks = 4
    MaxDrainFaults = 2
CHECK_DEADLOCK FALSE
INVARIANTS
    WireIsFaithful
    NeverWidens
    ProgramsAreSound
    RecoveryIsSound
    ScansAreEvident
    OutputIsTrue
PROPERTIES
    ArtifactRowIsTrue
