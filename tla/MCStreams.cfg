CONSTANTS
    kCheapPrepend = 2
    kInitialSize = 4
    kExtraBuf = 3
    Radix = 8
    kMaxMessageLen = 20
    Tag <- MCTag
    TypeName = 3
    MaxValue = 2
    LongestCommand = 12
    Protocols = {"length", "lite", "protobuf", "fastcgi", "http", "hub", "sudoku", "wordcount", "memcached"}
    Messages <- MCMessages
    Scripts <- MCScripts
SPECIFICATION Spec
INVARIANTS BufferIsQueue CutsDoNotMatter MessagesArrive
CHECK_DEADLOCK FALSE
