\* Three goroutines of two processes.
CONSTANTS
    a = a
    b = b
    c = c
    Callers = {a, b, c}
    ProcOf <- TwoAndOne
    Data = {"x"}
    Mtimes = {1, 2}
    MaxCalls = 2
SPECIFICATION Spec
PROPERTIES ImplementsCasFile CallsReturn
