CONSTANTS
    c1 = c1
    c2 = c2
    c3 = c3
    f1 = f1
    f2 = f2
    NoOne = NoOne
    Nil = Nil
    Callers <- MCCallers2
    MaxCalls = 1
    Files <- OneFile
    Names = {"TestA", "TestB"}
    Decls <- MCDecls
    Parses <- NoFile
    Targets <- MainTargets
SPECIFICATION Spec
PROPERTY CallsReturn
CHECK_DEADLOCK FALSE
