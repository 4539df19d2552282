SPECIFICATION Spec
CONSTANTS
    Callers = {c1}
    MaxOps = 2
PROPERTIES StartedIsRecording
