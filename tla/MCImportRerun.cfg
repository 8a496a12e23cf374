SPECIFICATION Spec
CONSTANTS
    a = a
    b = b
    c = c
    HashedFiles <- FilesDef
    Releases <- ReleasesDef
    SizeOf <- SizeDef
    BlockLength = 2
    BlocksPerPiece = 2
    Chunks = {3, 5}
    MaxWrites = 0
    None = None
PROPERTIES
    RightPayloadImports
CHECK_DEADLOCK FALSE
