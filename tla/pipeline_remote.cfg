CONSTANTS
    A = A  B = B  L = L  a1 = a1  a2 = a2  b1 = b1  l1 = l1
    Packages = {p}
    Encoders = {A, B, L}
    Policies <- AnyPolicy
    Builds = {a1, b1}
    NoBuild = NoBuild
    NoLease = NoLease
    NoPackage = NoPackage
    NoEncoder = NoEncoder
    MaxConcurrency = 1
    AttemptBound = 2
    RemoteThreads = {a1, b1}
    LocalThreads = {}
    Owner <- MCOwner
    LocalEncoder = L
    Demanded = {p}
    MaxAttempts = 2
    LocalMaxAttempts = 0
    MaxCrashes = 1
    Faults = {"stall", "cancel", "encoder", "network"}
SPECIFICATION Spec
INVARIANT ReferencesResolve
INVARIANT LeaseDiscipline
PROPERTY ImplementsQueue
