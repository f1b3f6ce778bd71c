SPECIFICATION Spec
CONSTANTS
    th1 = th1
    th2 = th2
    th3 = th3
    Threads <- ThreeThreads
    Creator = th1
    MaxRefs = 4
    Modulus = 64
    Texts <- MCTexts
    Astral = {"w"}
    MaxSize = 3
    MaxUtf8 = 3
    Native = {"n", "nd"}
    Foreign = {"f", "fd"}
    Dual = {"nd", "fd"}
    MaxCount = 10
    Guids = {1, 2}
    MaxLength = 2
    Keys = {"k", "l"}
    Places <- TwoPlaces
    PlainValues = {"integer"}
    MaxDepth = 2
    MaxJsonRefs = 1
    MaxBytes = 2
    MaxSide = 3
    IntLimit = 4
    MaxImages = 2
    MaxResizes = 1
    Listed = {"p", "q"}
    Undescribed = {"q"}
    MaxVectors = 1
    MaxUses = 3
CHECK_DEADLOCK FALSE
INVARIANTS
    ObjectsTypeOK
    ReferencedNotDestroyed
    ReadersFindText
    DeletedUnowned
    MemberRefsStay
    ImagesShowMemory
PROPERTIES
    LastReleaseFrees
    DtorDoesNotDelete
