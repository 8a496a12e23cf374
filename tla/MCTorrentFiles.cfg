SPECIFICATION Spec
CONSTANTS
    a = a
    b = b
    c = c
    HashedFiles <- FilesDef
    Releases <- ReleasesDef
    SizeOf <- SizeDef
    BlockLength = 2
    BlocksPerPiece = 2
    Chunks = {3, 5}
    MaxWrites = 2
    None = None
INVARIANTS
    PiecesRight
    RootsRight
    CoverageHonest
    MetainfoRight
    ArrivesWhole
