SPECIFICATION ConfigSpec
CONSTANTS
    ByteBits = 2
    Families = {"AF_INET", "AF_INET6"}
    Bytes <- MCBytes
    Unreadable = Unreadable
    NoSlash = NoSlash
    NoFile = NoFile
    Atoms <- MCAtoms
    Cidr <- MCCidr
    Rights <- MCRights
    Ports = 8
    Ints = 16
    Numerals <- MCNumerals
    Default <- MCDefault
    FirstRange <- MCFirstRange
    Lines <- MCLines
    Typed <- MCTyped
    TypedNames <- MCTypedNames
    TypedHashes <- MCTypedHashes
    TypedRanges <- MCTypedRanges
    MaxLines = 3
    MaxEdits = 2
    MaxSaves = 2
INVARIANTS
    FilterExact
    RestartServesTheSame
PROPERTIES
    OkChangesWhatWasEdited
