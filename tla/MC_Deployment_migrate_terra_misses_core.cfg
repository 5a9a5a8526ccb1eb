\* One script at a time: bridge_deploy and migrate_terra, with a rebuild.
CONSTANTS
    d1 = d1
    d2 = d2
    m1 = m1
    m2 = m2
    a1 = a1
    a2 = a2
    Proc = {d1, m1}
    Script <- MCScriptMigrateTerra
    MaxVersion = 2
    MayFail = FALSE
    KillInSave = FALSE
    Sequential = TRUE
    None = None
SPECIFICATION Spec
CHECK_DEADLOCK FALSE
INVARIANT
    MigrateTerraReachesDeployment
