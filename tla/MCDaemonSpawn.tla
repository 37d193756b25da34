--------------------------- MODULE MCDaemonSpawn ---------------------------
EXTENDS DaemonSpawn, TLC

CONSTANTS m1, m2

MCManagers == {m1, m2}
MCDebug == {m1}
MCVersion == (m1 :> 1) @@ (m2 :> 2)
MCMaxCalls == (m1 :> 1) @@ (m2 :> 2)
=============================================================================
