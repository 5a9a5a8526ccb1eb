\* Two bridge_deploy runs at the same time, sharing
\* terraWallet; any chain call may fail; a process may be killed inside
\* saveConstants; the artifacts may be rebuilt once.
CONSTANTS
    d1 = d1
    d2 = d2
    m1 = m1
    m2 = m2
    a1 = a1
    a2 = a2
    Proc = {d1, d2}
    Script <- MCScriptConcurrent
    MaxVersion = 2
    MayFail = TRUE
    KillInSave = TRUE
    Sequential = FALSE
    None = None
SPECIFICATION Spec
SYMMETRY MCSymmetry
CHECK_DEADLOCK FALSE
INVARIANTS
    TypeOK
    EnvNamesOneDeployment
    RunningOnDeployedConfig
