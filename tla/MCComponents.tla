---------------------------- MODULE MCComponents ----------------------------
(***************************************************************************)
(* Finite instances of components that share nothing with each other:      *)
(* one behaviour exercises one of them.                                    *)
(***************************************************************************)
EXTENDS ActionHistory, RestoreRun, LiveSync, UsageMetering, TenantStateCache,
        ModelCalls, BatchExport, TLC

VARIABLE part

allVars == <<historyVars, restoreVars, syncVars, usageVars, cacheVars,
             callVars, exportVars, part>>

\* Two plans of one bundle and one of another.
Bundles == "p1" :> "u" @@ "p2" :> "u" @@ "p3" :> "v"

\* The period ends between the second request and the third.
Periods == "q1" :> 1 @@ "q2" :> 1 @@ "q3" :> 2 @@ "x" :> 3
Amounts == "q1" :> 1 @@ "q2" :> 1 @@ "q3" :> 1 @@ "x" :> 2

\* Two materialisations under one id.
SameArtifact == {<<"m", "x">>, <<"m", "y">>}

Init ==
    /\ part \in {"history", "restore", "sync", "usage", "cache", "calls", "exports"}
    /\ HistoryInit /\ RestoreInit /\ SyncInit /\ UsageInit /\ CacheInit
    /\ ModelCallsInit /\ ExportInit
    /\ part # "history" => traced /\ flow.exists /\ flow.began = "started"
    /\ flow.exists => traced               \* traced matters only without a row,
    /\ ~traced => flow.began = "started"   \* the first state only with one
    /\ part # "usage" => failureMode = "closed"

Next ==
    /\ \/ /\ part = "history" /\ HistoryNext
          /\ UNCHANGED <<restoreVars, syncVars, usageVars, cacheVars, callVars,
                         exportVars>>
       \/ /\ part = "restore" /\ RestoreNext
          /\ UNCHANGED <<historyVars, syncVars, usageVars, cacheVars, callVars,
                         exportVars>>
       \/ /\ part = "sync" /\ SyncNext
          /\ UNCHANGED <<historyVars, restoreVars, usageVars, cacheVars, callVars,
                         exportVars>>
       \/ /\ part = "usage" /\ UsageNext
          /\ UNCHANGED <<historyVars, restoreVars, syncVars, cacheVars, callVars,
                         exportVars>>
       \/ /\ part = "cache" /\ CacheNext
          /\ UNCHANGED <<historyVars, restoreVars, syncVars, usageVars, callVars,
                         exportVars>>
       \/ /\ part = "calls" /\ ModelCallsNext
          /\ UNCHANGED <<historyVars, restoreVars, syncVars, usageVars, cacheVars,
                         exportVars>>
       \/ /\ part = "exports" /\ ExportNext
          /\ UNCHANGED <<historyVars, restoreVars, syncVars, usageVars, cacheVars,
                         callVars>>
    /\ UNCHANGED part

Spec == Init /\ [][Next]_allVars
=============================================================================
