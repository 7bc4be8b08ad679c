CONSTANTS
    r1 = r1
    r2 = r2
    Procs = {r1, r2}
SPECIFICATION Spec
SYMMETRY Symmetry
INVARIANTS
    TypeOK
    AloneInstalls
    AloneCleansUp
    TornLibraryHasCause
    DamageHasCause
