\* A frame cut short, read from a bytes.Buffer-like reader.
CONSTANTS
    W = 2
    Ids <- MCIds
    Keys <- MCKeys
    Values <- MCValues
    Readers <- BufferReader
    Chunk = 4
SPECIFICATION Spec
INVARIANT ExtractFollowsSpec
