\* A bridge_deploy run and two attest_token runs at the same time, all
\* signing with terraWallet; any chain call may fail; a process may be
\* killed inside saveConstants; the artifacts may be rebuilt once.
CONSTANTS
    d1 = d1
    d2 = d2
    m1 = m1
    m2 = m2
    a1 = a1
    a2 = a2
    Proc = {d1, a1, a2}
    Script <- MCScriptDeployAttest
    MaxVersion = 2
    MayFail = TRUE
    KillInSave = TRUE
    Sequential = FALSE
    None = None
SPECIFICATION Spec
SYMMETRY MCSymmetry
CHECK_DEADLOCK FALSE
INVARIANT
    AttestOkMeansWrapped
