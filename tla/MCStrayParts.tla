---------------------------- MODULE MCStrayParts ----------------------------
(* The parts of misc/stray_perf_loop.py that main relies on, each with the *)
(* device it talks to: one run follows one of them.                        *)
EXTENDS StrayAgent, StrayStreams, StrayLaunch, StrayReady, StrayProfile

VARIABLE part

partVars == <<part, agentVars, streamVars, launchVars, readyVars, profileVars>>

MCInit ==
    /\ part \in {"agent", "streams", "launch", "ready", "profile"}
    /\ AgentInit /\ StreamInit /\ LaunchInit /\ ReadyInit /\ ProfileInit

OnlyAgent == UNCHANGED <<part, streamVars, launchVars, readyVars, profileVars>>
OnlyLaunch == UNCHANGED <<part, agentVars, streamVars, readyVars, profileVars>>

MCNext ==
    \/ part = "agent" /\ AgentNext /\ OnlyAgent
    \/ part = "launch" /\ LaunchNext /\ OnlyLaunch
    \/ /\ part = "streams" /\ StreamNext
       /\ UNCHANGED <<part, agentVars, launchVars, readyVars, profileVars>>
    \/ /\ part = "ready" /\ ReadyNext
       /\ UNCHANGED <<part, agentVars, streamVars, launchVars, profileVars>>
    \/ /\ part = "profile" /\ ProfileNext
       /\ UNCHANGED <<part, agentVars, streamVars, launchVars, readyVars>>

(* The script on the device serves its input and ends with its channel;    *)
(* the runner polls on until its deadline.                                 *)
MCFairness ==
    /\ WF_partVars(part = "agent" /\ Serve /\ OnlyAgent)
    /\ WF_partVars(part = "agent" /\ ChannelEnds /\ OnlyAgent)
    /\ WF_partVars(part = "launch" /\ RunnerSteps /\ OnlyLaunch)

MCSpec == MCInit /\ [][MCNext]_partVars /\ MCFairness
=============================================================================
