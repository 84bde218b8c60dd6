SPECIFICATION FairThreadSpec
CONSTANTS
    Owner = owner
    Threads = {owner}
    Tasks = {t1}
    Channels = {}
    Wakeup = wakeup
    EventfdMax = 2
PROPERTIES DestructorReturns
