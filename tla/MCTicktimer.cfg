SPECIFICATION FairSpec
CONSTANTS
    t1 = t1
    t2 = t2
    t3 = t3
    p1 = p1
    p2 = p2
    Threads = {t1, t2, t3}
    Processes = {p1, p2}
    ProcessOf <- MCProcessOf
    Mortal = {p2}
    Conds = {c}
    Slots = {s1, s2}
    Delays = {1}
    MaxTime = 1
    MaxCalls = 3
    Clients = {"SleepMs", "WaitForCondition", "NotifyCondition", "FreeCondition", "ElapsedMs"}
    None = None
INVARIANTS NoAssertFails TimerArmed WaitersOnRecord
PROPERTIES OnlyJustifiedAnswers SleepersWake
CHECK_DEADLOCK FALSE
