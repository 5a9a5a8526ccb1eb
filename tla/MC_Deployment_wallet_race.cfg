\* Two bridge_deploy runs at the same time, no other failure.
CONSTANTS
    d1 = d1
    d2 = d2
    m1 = m1
    m2 = m2
    a1 = a1
    a2 = a2
    Proc = {d1, d2}
    Script <- MCScriptConcurrent
    MaxVersion = 2
    MayFail = FALSE
    KillInSave = FALSE
    Sequential = FALSE
    None = None
SPECIFICATION Spec
CHECK_DEADLOCK FALSE
INVARIANT
    NoSequenceMismatch
