------------------------- MODULE MCStrayPerfLoop --------------------------
EXTENDS StrayPerfLoop

Run(mode, on) == [mode |-> mode, on |-> on]

(* Every switch is on in some run and off in another.                      *)
SmallOptions ==
    { Run("bench", {"progress", "coolGame", "coolRender", "targets", "keepCC"}),
      Run("bench", {"applaunch", "waitTrace", "fairOnly"}),
      Run("bench", {"progress", "probes", "direct", "quiesce"}),
      Run("bench", {"overlayEnv", "skipWorkspace", "retain"}),
      Run("bench", {"leave", "reuse", "keepSteam"}),
      Run("handoff", {"leave"}),
      Run("preflight", {}),
      Run("steam_preflight", {}) }

Desktop(game, steam, cc, render) ==
    [game |-> game, steam |-> steam, cc |-> cc, render |-> render]
SmallDesktops == { Desktop("none", "none", FALSE, FALSE),
                   Desktop("stale", "owner", TRUE, TRUE) }
=============================================================================
