SPECIFICATION MemorySpec
CONSTANTS
    Procs = {1, 2}
    initproc = 1
    NFRAMES = 10
    PGSIZE = 1
    NPTENTRIES = 2
    KERNBASE = 4
    ADDRS = 8
    KTABLES = 1
    Grow = {1, 7}
    Segments <- MCSegments
CHECK_DEADLOCK FALSE
INVARIANTS NoAlias SizesMapped PagesAccounted
PROPERTIES MallocRight
