\* Two accesses to files of every kind; two starts or loads.
SPECIFICATION FairSpec
CONSTANTS
    virus = virus
    worm = worm
    note = note
    system = system
    vault = vault
    Ios = {o1, o2}
    Own = Own
    Files = {virus, worm, note, system, vault}
    Class <- MCClass
    Excluded = {system}
    FailOpen = {system, vault}
    MaxRestarts = 2
    None = None
INVARIANTS
    DeniedHasCause
    PortIsServed
    SelfAskedIsAllowed
PROPERTIES
    EveryIoEnds
CHECK_DEADLOCK FALSE
