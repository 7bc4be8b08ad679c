CONSTANTS
    r1 = r1
    Procs = {r1}
SPECIFICATION Spec
INVARIANT InstallMakesLoadable
