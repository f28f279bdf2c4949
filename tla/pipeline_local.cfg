CONSTANTS
    A = A  B = B  L = L  a1 = a1  a2 = a2  b1 = b1  l1 = l1
    Packages = {p}
    Encoders = {L}
    Policies <- AnyPolicy
    Builds = {l1}
    NoBuild = NoBuild
    NoLease = NoLease
    NoPackage = NoPackage
    NoEncoder = NoEncoder
    MaxConcurrency = 1
    AttemptBound = 2
    RemoteThreads = {}
    LocalThreads = {l1}
    Owner <- MCOwner
    LocalEncoder = L
    Demanded = {p}
    MaxAttempts = 2
    LocalMaxAttempts = 0
    MaxCrashes = 1
    Faults = {"stall", "cancel", "workerCrash", "vanish", "reclaim"}
SPECIFICATION FairSpec
INVARIANT ReferencesResolve
PROPERTY ProcessingEnds
PROPERTY DamageRepaired
