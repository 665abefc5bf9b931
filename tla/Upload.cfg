SPECIFICATION Spec
CONSTANTS
    Uploads = {u1, u2}
    Sizes = {0, 2, 3}
    ChunkSize = 2
INVARIANTS
    TypeOK
    CompleteOnce
    AnnouncedStored
    NoTornChunk
PROPERTY
    UploadEnds
CHECK_DEADLOCK FALSE
