---------------------------- MODULE MC_Deployment ----------------------------
(* Model-checking instances of Deployment: named script processes.        *)
EXTENDS Deployment

CONSTANTS d1, d2, m1, m2, a1, a2

\* Two operators deploying at once.
MCScriptConcurrent == (d1 :> "deploy") @@ (d2 :> "deploy")

\* A deployment while two operators provision the wrapped token.
MCScriptDeployAttest == (d1 :> "deploy") @@ (a1 :> "attest") @@ (a2 :> "attest")

\* The two deploy processes, and the two attest processes, are interchangeable.
MCSymmetry == Permutations({d1, d2}) \cup Permutations({a1, a2})

\* A deployment and both migrations, in any order.
MCScriptMigrations == (d1 :> "deploy") @@ (m1 :> "migrateEth") @@ (m2 :> "migrateTerra")

\* A deployment, then the Terra migration.
MCScriptMigrateTerra == (d1 :> "deploy") @@ (m1 :> "migrateTerra")

=============================================================================
