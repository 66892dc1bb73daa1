SPECIFICATION Spec
CONSTANTS
    Processes = {p1, p2}
    Mortal = {p1, p2}
    Kernel = Kernel
    Pages = {1, 2}
    DefaultArea = {11}
    MessageArea = {1, 2}
    QueueLen = 1
    Writables = {TRUE}
    MaxRetries = 1
    Accidents = {}
    None = None
SYMMETRY Interchangeable
INVARIANTS OneMapping PagesAccounted LendsOnRecord
CHECK_DEADLOCK FALSE
