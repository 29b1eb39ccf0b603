------------------------------- MODULE MCNet --------------------------------
(* The node's network for TLC: the heal daemon, the link guard, the tailnet   *)
(* commands and the parcels of the mesh, one of them at a time: they share    *)
(* nothing, so the scene picked at the start is all that moves.               *)
EXTENDS NetHeal, LinkGuard, TailnetAcl, Parcel

\* The heuristic takes a file for the policy it wrote, and for one that differs
\* only behind a "//"; the server's own text of "third" it takes for nothing.
AlikeToDiff == {<<"first", "first">>, <<"first", "second">>, <<"second", "second">>}

VARIABLE scene
netVars == <<scene, healVars, linkVars, tailnetVars, parcelVars>>

NetInit ==
    /\ scene \in {"heal", "link", "tailnet", "parcel"}
    /\ HealInit /\ LinkInit /\ TailnetInit /\ ParcelInit
    /\ scene # "heal" => here = "home" /\ cfg = [method |-> "DHCP", net |-> "home"]
    /\ scene # "link" => net = "home" /\ portable /\ settled
    /\ scene # "tailnet" => live = "first" /\ local = "first" /\ grants = [c \in Clients |-> {}]
OnlyHeal == UNCHANGED <<linkVars, tailnetVars, parcelVars>>
NetNext ==
    /\ UNCHANGED scene
    /\ \/ scene = "heal" /\ HealNext /\ OnlyHeal
       \/ scene = "link" /\ LinkNext /\ UNCHANGED <<healVars, tailnetVars, parcelVars>>
       \/ scene = "tailnet" /\ TailnetNext /\ UNCHANGED <<healVars, linkVars, parcelVars>>
       \/ scene = "parcel" /\ ParcelNext /\ UNCHANGED <<healVars, linkVars, tailnetVars>>

\* The heal daemon's fairness (LiveSpec of NetHeal), in its scene.
NetSpec ==
    /\ NetInit /\ [][NetNext]_netVars
    /\ WF_netVars(scene = "heal" /\ DaemonStep /\ OnlyHeal /\ UNCHANGED scene)
    /\ WF_netVars(scene = "heal" /\ (Heal(Operator) \/ OperatorDone) /\ OnlyHeal /\ UNCHANGED scene)
=============================================================================
