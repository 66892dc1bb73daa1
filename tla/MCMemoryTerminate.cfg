SPECIFICATION Spec
CONSTANTS
    Processes = {p1, p2}
    Mortal = {p1}
    Kernel = Kernel
    Pages = {1, 2}
    DefaultArea = {11}
    MessageArea = {1}
    QueueLen = 2
    Writables = {TRUE}
    MaxRetries = 1
    Accidents = {}
    None = None
INVARIANT LentPagesKept
CHECK_DEADLOCK FALSE
