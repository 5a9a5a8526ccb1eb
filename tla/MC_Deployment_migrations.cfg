\* One script at a time: bridge_deploy, migrate_eth and migrate_terra in any order,
\* with failures and a rebuild of the artifacts at any point.
CONSTANTS
    d1 = d1
    d2 = d2
    m1 = m1
    m2 = m2
    a1 = a1
    a2 = a2
    Proc = {d1, m1, m2}
    Script <- MCScriptMigrations
    MaxVersion = 2
    MayFail = TRUE
    KillInSave = FALSE
    Sequential = TRUE
    None = None
SPECIFICATION Spec
CHECK_DEADLOCK FALSE
INVARIANT
    UpgradeReachesDeployment
