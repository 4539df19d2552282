SPECIFICATION Spec
CONSTANTS
    Callers = {c1, c2}
    MaxOps = 3
PROPERTIES RestartSupersedes
