------------------------- MODULE MC_CrossChainRelay -------------------------
(* Model-checking instance of CrossChainRelay: the integration tests run  *)
(* against the same bridges, serially or as separate runs.                *)
EXTENDS CrossChainRelay

CONSTANTS r1, r2, r3

\* r1 runs tests/4_unlock_collateral, r2 runs tests/6_repay_stable.
MCKind == (r1 :> "unlock") @@ (r2 :> "repay")

\* As MCKind, with r3 running the "Bridge Collateral" case of
\* tests/3_lock_collateral (bridgeAsset) at the same time.
MCKindWithBridge == MCKind @@ (r3 :> "bridge")

\* r1 runs tests/4_unlock_collateral, r2 runs tests/5_borrow_stable: two
\* round trips whose returning messages take adjacent Terra sequences.
MCKindRoundTrips == (r1 :> "unlock") @@ (r2 :> "borrow")

\* The token bridge and the cross-anchor bridge count independently, so
\* their sequences differ (the tests' own example is [685, 45]); so do
\* Terra's and Ethereum's.
MCInitSeq == ("ethToken" :> 5) @@ ("ethXanchor" :> 0)
             @@ ("terraToken" :> 3) @@ ("terraXanchor" :> 7)
=============================================================================
