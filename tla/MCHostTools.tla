----------------------------- MODULE MCHostTools -----------------------------
(* The tools that install, prepare, relay and accept: each reads and changes *)
(* files or sessions that other processes change meanwhile.  One run follows *)
(* one of them.                                                              *)
EXTENDS FirstRunPipeline, BootTrust, LegacyJobs, ShaderInstall, RelayMessage, ManagedJob,
        PrepareServer, LocalBenchmark, DependencyClosure, ProviderContract, WindowAcceptance

VARIABLE part

toolVars == <<part, pipeVars, trustVars, legacyVars, shaderVars, relayVars,
              managedVars, serverVars, benchVars, closureVars, providerVars,
              acceptVars>>

Tools == {"pipe", "trust", "legacy", "exact", "office", "relay", "managed",
          "server", "ini", "overlay", "meter", "closure", "provider", "accept"}

(* A part that is not followed starts in one of its initial states.          *)
Pinned(p, formula) == part = p \/ formula

TwoKeys == <<"k1", "k2">>

MCInit ==
    /\ part \in Tools
    /\ PipeInit /\ TrustInit /\ LegacyInit /\ ShaderInit
    /\ RelayInit /\ Pinned("relay", tool = "macpad" /\ \A r \in Relays : ~reminder[r])
    /\ ServerInit /\ Pinned("server", server = "universal")
    /\ IF part = "managed" THEN ManagedInit
       ELSE /\ service = [loaded |-> FALSE, procs |-> [c \in Copies |-> "none"], own |-> NoCopy]
            /\ plist = "good"
            /\ refr = [stage |-> "list", round |-> 1, starts |-> FALSE, seen |-> Unseen,
                       late |-> {}, reloaded |-> FALSE, rc |-> 0, world |-> 0]
    /\ IF part = "ini" THEN IniInit ELSE ini = [done |-> FALSE, before |-> <<>>, after |-> <<>>]
    /\ OverlayInit /\ MeterInit
    /\ IF part = "closure" THEN ClosureInit
       ELSE /\ graph = [loads |-> ByImage(<<>>, <<>>, <<>>), rpaths |-> ByImage(<<>>, <<>>, <<>>),
                        seeds |-> {}]
            /\ walk = [pc |-> "start", stack |-> <<>>, visited |-> {}, seeds |-> {}]
    /\ ProviderInit
    /\ AcceptInit /\ Pinned("accept", harness.mode = "drag")

OnlyPipe == UNCHANGED <<part, trustVars, legacyVars, shaderVars, relayVars,
                        managedVars, serverVars, benchVars, closureVars,
                        providerVars, acceptVars>>
OnlyTrust == UNCHANGED <<part, pipeVars, legacyVars, shaderVars, relayVars,
                         managedVars, serverVars, benchVars, closureVars,
                         providerVars, acceptVars>>
OnlyLegacy == UNCHANGED <<part, pipeVars, trustVars, shaderVars, relayVars,
                          managedVars, serverVars, benchVars, closureVars,
                          providerVars, acceptVars>>
OnlyShader == UNCHANGED <<part, pipeVars, trustVars, legacyVars, relayVars,
                          managedVars, serverVars, benchVars, closureVars,
                          providerVars, acceptVars>>
OnlyRelay == UNCHANGED <<part, pipeVars, trustVars, legacyVars, shaderVars,
                         managedVars, serverVars, benchVars, closureVars,
                         providerVars, acceptVars>>
OnlyManaged == UNCHANGED <<part, pipeVars, trustVars, legacyVars, shaderVars,
                           relayVars, serverVars, benchVars, closureVars,
                           providerVars, acceptVars>>
OnlyServer == UNCHANGED <<part, pipeVars, trustVars, legacyVars, shaderVars,
                          relayVars, managedVars, benchVars, closureVars,
                          providerVars, acceptVars>>
OnlyBench == UNCHANGED <<part, pipeVars, trustVars, legacyVars, shaderVars,
                         relayVars, managedVars, serverVars, closureVars,
                         providerVars, acceptVars>>
OnlyClosure == UNCHANGED <<part, pipeVars, trustVars, legacyVars, shaderVars,
                           relayVars, managedVars, serverVars, benchVars,
                           providerVars, acceptVars>>
OnlyProvider == UNCHANGED <<part, pipeVars, trustVars, legacyVars, shaderVars,
                            relayVars, managedVars, serverVars, benchVars,
                            closureVars, acceptVars>>
OnlyAccept == UNCHANGED <<part, pipeVars, trustVars, legacyVars, shaderVars,
                          relayVars, managedVars, serverVars, benchVars,
                          closureVars, providerVars>>

MCNext ==
    \/ part = "pipe" /\ PipeNext /\ OnlyPipe
    \/ part = "trust" /\ TrustNext /\ OnlyTrust
    \/ part = "legacy" /\ LegacyNext /\ OnlyLegacy
    \/ part = "exact" /\ ExactNext /\ OnlyShader
    \/ part = "office" /\ OfficeNext /\ OnlyShader
    \/ part = "relay" /\ RelayNext /\ OnlyRelay
    \/ part = "managed" /\ ManagedNext /\ OnlyManaged
    \/ part = "server" /\ ServerNext /\ OnlyServer
    \/ part = "ini" /\ Configure /\ OnlyBench
    \/ part = "overlay" /\ OverlayNext /\ OnlyBench
    \/ part = "meter" /\ MeterNext /\ OnlyBench
    \/ part = "closure" /\ ClosureNext /\ OnlyClosure
    \/ part = "provider" /\ ProviderNext /\ OnlyProvider
    \/ part = "accept" /\ AcceptNext /\ OnlyAccept

MCSpec == MCInit /\ [][MCNext]_toolVars

(* The files that other processes load are whole, complete and trusted     *)
(* whenever they can be opened, whoever publishes them at once or dies     *)
(* half-way: the WindowServer image, the provider and its companions, the  *)
(* converted libraries and the routes to them.                             *)
PublishedSound ==
    [][/\ ServerWhole' /\ TempsOwned'
       /\ StagedOneBuild' /\ PublishedWhole' /\ PublishedTrusted'
       /\ InstallRepairs /\ RouteBacked' /\ SuccessProvisions']_toolVars

(* A measurement or an acceptance verdict is about a finished run, one     *)
(* scene and one gesture, under settings that were really placed.          *)
MeasurementsSound ==
    /\ IniEditPlaced
    /\ ResultWhole
    /\ LoggingNeedsSettings
    /\ PassIsOneScene
    /\ DragIsOneGesture
=============================================================================
