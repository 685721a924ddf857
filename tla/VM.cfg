SPECIFICATION FairSpec
CONSTANTS
    MEMORY_MAX = 512
    Programs <- AllPrograms
    Garbage <- SomeGarbage
    Ints <- SomeInts
    Chars <- SomeChars
    MaxConsole = 8
PROPERTIES
    StoredIsRead
    StoresStayLocal
    ShortBranchesLand
    JumpsLand
    ExamplesCompute
