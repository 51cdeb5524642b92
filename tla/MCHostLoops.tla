----------------------------- MODULE MCHostLoops -----------------------------
(* The host tools that have to get somewhere in the end: the cache migration *)
(* with its restarts, the session watchdog and the byte bridge.  One run     *)
(* follows one of them.                                                      *)
EXTENDS MetalCacheMigration, DevinWatch, McpBridge

VARIABLE part

loopPartVars == <<part, cacheVars, watchVars, bridgeVars>>

TwoTabs == <<"t1", "t2">>

MCInit == part \in {"cache", "watch", "bridge"} /\ CacheInit /\ WatchInit /\ BridgeInit

OnlyCache == UNCHANGED <<part, watchVars, bridgeVars>>
OnlyWatch == UNCHANGED <<part, cacheVars, bridgeVars>>
OnlyBridge == UNCHANGED <<part, cacheVars, watchVars>>

MCNext ==
    \/ part = "cache" /\ CacheNext /\ OnlyCache
    \/ part = "watch" /\ WatchNext /\ OnlyWatch
    \/ part = "bridge" /\ BridgeNext /\ OnlyBridge

(* The attempts and the loops of the watchdog and the bridge go on; a        *)
(* graphics client quits in the end, as the migration asks for.              *)
MCFairness ==
    /\ \A p \in Attempts : WF_loopPartVars(part = "cache" /\ AttemptStep(p) /\ OnlyCache)
    /\ WF_loopPartVars(part = "cache" /\ ClientExit /\ OnlyCache)
    /\ WF_loopPartVars(part = "watch" /\ WatchLoop /\ OnlyWatch)
    /\ WF_loopPartVars(part = "bridge" /\ BridgeLoop /\ OnlyBridge)

MCSpec == MCInit /\ [][MCNext]_loopPartVars /\ MCFairness
=============================================================================
