------------------------------- MODULE MCHost -------------------------------
(* A Mac for TLC: its onboarding, its services and its toolchain, its backup  *)
(* slots, the GitHub tier, its heartbeats and its soak, one of them at a time: *)
(* they share nothing, so the scene picked at the start is all that moves.    *)
EXTENDS Onboard, ServiceHost, Toolchain, CloudSlots, TierZero, Deadman, Soak, TLC

VARIABLE scene
machineVars == <<scene, onboardVars, hostVars, toolVars, cloudVars, tierVars, beatVars, soakVars>>

\* Two jobs of one host and one of another.
HostKey == ("job" :> "mini" @@ "hand" :> "mini" @@ "hub" :> "hub")

MachineInit ==
    /\ scene \in {"onboard", "services", "tools", "slots", "github", "beats", "soak"}
    /\ OnboardInit /\ HostInit /\ ToolInit /\ CloudInit /\ TierInit /\ BeatInit /\ SoakInit
    /\ scene # "onboard" => host = {}
    /\ scene # "services" => cur = CHOOSE l \in Wave1 : TRUE
    /\ scene # "services" => agents = AgentOnly /\ \A l \in Wave1 : daemons[l] = "none"
    /\ scene # "tools" => \A t \in Tools : have[t] = 0
    /\ scene # "slots" => vaults = {}
    /\ scene # "github" => \A f \in Dotfiles : home[f] = "first"
MachineNext ==
    /\ UNCHANGED scene
    /\ \/ /\ scene = "onboard" /\ OnboardNext
          /\ UNCHANGED <<hostVars, toolVars, cloudVars, tierVars, beatVars, soakVars>>
       \/ /\ scene = "services" /\ HostNext
          /\ UNCHANGED <<onboardVars, toolVars, cloudVars, tierVars, beatVars, soakVars>>
       \/ /\ scene = "tools" /\ ToolNext
          /\ UNCHANGED <<onboardVars, hostVars, cloudVars, tierVars, beatVars, soakVars>>
       \/ /\ scene = "slots" /\ CloudNext
          /\ UNCHANGED <<onboardVars, hostVars, toolVars, tierVars, beatVars, soakVars>>
       \/ /\ scene = "github" /\ TierNext
          /\ UNCHANGED <<onboardVars, hostVars, toolVars, cloudVars, beatVars, soakVars>>
       \/ /\ scene = "beats" /\ BeatNext
          /\ UNCHANGED <<onboardVars, hostVars, toolVars, cloudVars, tierVars, soakVars>>
       \/ /\ scene = "soak" /\ SoakNext
          /\ UNCHANGED <<onboardVars, hostVars, toolVars, cloudVars, tierVars, beatVars>>
MachineSpec == MachineInit /\ [][MachineNext]_machineVars
=============================================================================
