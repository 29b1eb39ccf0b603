----------------------------- MODULE HostProofs ------------------------------
(* The theorems of what the commands say of this Mac.  Onboard: the recap is  *)
(* honest.  ServiceHost: an operator's own plist is never*)
(* lost, and nothing runs twice after an install.  Toolchain: what is reported*)
(* was read again.  Soak: green is soaked.  Each for any recipes, gear,       *)
(* services, tools and samples, and any number of commands.                   *)
EXTENDS Onboard, ServiceHost, Toolchain, Soak, Integers, TLAPS

---------------------------------------------------------------------------
\* Onboard: the wizard and the Setup Assistant.

\* What a screen of the wizard stands on: its gate, and what it has won there.
AtAi == Gate = "ai-providers" /\ won \subseteq AiKinds \cap proven
AtPairing == Gate \in PairingGates /\ won \subseteq GearKinds \cap proven \cap written

ScreensOfTheirGate ==
    /\ screen \in {"ask", "estimate", "backup", "canary", "restore"} => won = {}
    /\ screen \in {"ask", "estimate", "backup", "canary", "restore", "gemini", "settle", "next"} => kind = "none"
    /\ screen \in {"gemini", "settle"} => AtAi
    /\ screen = "next" => AtPairing
    /\ screen = "probe" => \/ kind \in AiKinds /\ AtAi
                           \/ kind \in GearKinds /\ AtPairing
    /\ screen = "fill" => \/ kind = "none" /\ AtAi /\ won # {}
                          \/ kind \in GearKinds \cap proven /\ AtPairing
    /\ screen = "token" => \/ kind = "firewalla" /\ Gate = "firewalla-pairing"
                           \/ kind = "ha" /\ Gate = "ha-green"

\* What instance.yaml holds was written to it.
HeldWasWritten == Read \subseteq written /\ blocks \subseteq written

\* The wizard says nothing of a gate that it has not earned, but of the Wi-Fi
\* identity's, which reports a profile it may not have written.
AllEarned == \A g \in did : g = "wifi-identity" \/ Earned(g)

MacTypes == family \in {"absent", "some", "broken"} /\ DOMAIN tok = Bearers

OnboardInv == ScreensOfTheirGate /\ HeldWasWritten /\ AllEarned /\ MacTypes

LEMMA OnboardInitial == OnboardInit => OnboardInv
  BY DEF OnboardInit, OnboardInv, ScreensOfTheirGate, HeldWasWritten, AllEarned, MacTypes, Read

\* What a gate earned stands: nothing written, proven or found is taken back.
Gains == /\ written \subseteq written' /\ proven \subseteq proven' /\ host \subseteq host'
         /\ \A b \in Bearers : tok[b] = "right" => tok'[b] = "right"
         /\ family = "some" => family' = "some"

EarnedNow(g) == Earned(g)'

LEMMA EarnedStands ==
  ASSUME Gains, NEW g, Earned(g)
  PROVE  EarnedNow(g)
<1> USE DEF Gains, Earned, EarnedNow, Bearers
<1>1. CASE g = "identity-setup" BY <1>1
<1>2. CASE g = "family-setup" BY <1>2
<1>3. CASE g = "ai-providers" BY <1>3
<1>4. CASE g = "firewalla-pairing" BY <1>4
<1>5. CASE g \in PairingGates BY <1>5 DEF PairingGates
<1>6. CASE g = "ha-green" BY <1>6
<1>7. CASE g = "wifi-identity" BY <1>7
<1>8. CASE g = "network-resilience" BY <1>8
<1>9. CASE g = "mesh-join" BY <1>9
<1>10. CASE g = "service-user-install" BY <1>10
<1> QED BY <1>1, <1>2, <1>3, <1>4, <1>5, <1>6, <1>7, <1>8, <1>9, <1>10 DEF PairingGates

\* The three ways instance.yaml is written.
LEMMA RewriteKeeps ==
  ASSUME HeldWasWritten, NEW b, Rewrite(b)
  PROVE  HeldWasWritten' /\ written \subseteq written' /\ b \subseteq written'
  BY DEF HeldWasWritten, Rewrite, Read

LEMMA TruncateKeeps ==
  ASSUME HeldWasWritten, Truncate
  PROVE  HeldWasWritten' /\ written' = written
  BY DEF HeldWasWritten, Truncate, Read

LEMMA FillKeeps ==
  ASSUME HeldWasWritten, NEW b, Fill(b)
  PROVE  HeldWasWritten' /\ written \subseteq written' /\ b \subseteq written'
  BY DEF HeldWasWritten, Fill, Read

LEMMA YamlStands ==
  ASSUME HeldWasWritten, UNCHANGED yaml
  PROVE  HeldWasWritten' /\ written' = written
  BY DEF HeldWasWritten, yaml, Read

\* The wizard goes on to its next gate, or stays at this one.
LEMMA NextGateKeeps ==
  ASSUME NextGate
  PROVE  ScreensOfTheirGate'
  BY DEF NextGate, ScreensOfTheirGate

LEMMA SameGate ==
  ASSUME UNCHANGED <<recipe, place>>
  PROVE  Gate' = Gate
  BY DEF Gate

\* A gate is done with: said to have done something only once it is earned.
Settled == \/ DidNothing
           \/ Did /\ \E g : g = Gate /\ (g = "wifi-identity" \/ EarnedNow(g))
           \/ UNCHANGED did
           \/ did' = {}

LEMMA SettledKeeps ==
  ASSUME AllEarned, Gains, Settled
  PROVE  AllEarned'
<1> SUFFICES ASSUME NEW g \in did' PROVE g = "wifi-identity" \/ EarnedNow(g)
  BY DEF AllEarned, EarnedNow
<1>1. CASE g \in did
  BY <1>1, EarnedStands DEF AllEarned
<1>2. CASE g \notin did
  <2>1. PICK h : Did /\ h = Gate /\ (h = "wifi-identity" \/ EarnedNow(h)) BY <1>2 DEF Settled, DidNothing
  <2>2. g = h BY <1>2, <2>1 DEF Did
  <2> QED BY <2>1, <2>2
<1> QED BY <1>1, <1>2

\* What every step of the wizard and of the page keeps.
Kept == HeldWasWritten' /\ Gains /\ Settled /\ ScreensOfTheirGate' /\ MacTypes'

LEMMA KeptIsEnough ==
  ASSUME OnboardInv, Kept
  PROVE  OnboardInv'
  BY SettledKeeps DEF OnboardInv, Kept

\* The wizard stays where it is while the page, or an editor, works.
LEMMA ScreenStands ==
  ASSUME ScreensOfTheirGate, UNCHANGED run, Gains
  PROVE  ScreensOfTheirGate' /\ Settled
<1>1. Gate' = Gate BY SameGate DEF run
<1>2. /\ screen' = screen /\ kind' = kind /\ won' = won /\ did' = did BY DEF run
<1> QED
  BY <1>1, <1>2 DEF ScreensOfTheirGate, Gains, AtAi, AtPairing, Settled

PageStep ==
    \/ \E b \in {"instance", "policy"} : PageSaves(b)
    \/ \E k \in AiKinds, s \in {"right", "wrong"}, up \in BOOLEAN : _act_provider(k, s, up)
    \/ \E b \in Bearers : _act_bearer(b)
    \/ _act_family
    \/ EditZshrc
    \/ UNCHANGED onboardVars

LEMMA PageKeeps ==
  ASSUME OnboardInv, PageStep
  PROVE  Kept
<1> USE DEF OnboardInv
<1>1. UNCHANGED run /\ repo' = repo
  BY DEF PageStep, PageSaves, _act_provider, _act_bearer, _act_family, EditZshrc, onboardVars, cloud
<1>2. HeldWasWritten' /\ written \subseteq written'
  BY RewriteKeeps, YamlStands
  DEF PageStep, PageSaves, _act_provider, _act_bearer, _act_family, EditZshrc, onboardVars
<1>3. host \subseteq host' /\ (family = "some" => family' = "some") /\ family' \in {"absent", "some", "broken"}
  BY DEF PageStep, PageSaves, _act_provider, _act_bearer, _act_family, EditZshrc, onboardVars, mac, MacTypes
<1>4. proven \subseteq proven'
  BY DEF PageStep, PageSaves, _act_provider, _act_bearer, _act_family, EditZshrc, onboardVars, vault
<1>5. DOMAIN tok' = Bearers /\ \A b \in Bearers : tok[b] = "right" => tok'[b] = "right"
  BY DEF PageStep, PageSaves, _act_provider, _act_bearer, _act_family, EditZshrc, onboardVars, MacTypes
<1>6. Gains BY <1>2, <1>3, <1>4, <1>5 DEF Gains
<1>8. MacTypes' BY <1>3, <1>5 DEF MacTypes
<1> QED BY <1>1, <1>2, <1>6, <1>8, ScreenStands DEF Kept

\* A run begins, ends, or is in its first chapter: nothing of it is won yet.
DataStep ==
    \/ \E r \in Recipes, y \in BOOLEAN : Begin(r, y)
    \/ Killed
    \/ _dispatch_cloud_setup \/ _run_data_chapter_no_restic \/ backup_run \/ _run_canary
    \/ restore_canary

LEMMA DataKeeps ==
  ASSUME OnboardInv, DataStep
  PROVE  Kept
<1> USE DEF OnboardInv
<1>1. UNCHANGED <<proven, tok, mac>>
  BY DEF DataStep, Begin, Killed, _dispatch_cloud_setup, _run_data_chapter_no_restic, backup_run,
         _run_canary, restore_canary, vault
<1>2. HeldWasWritten' /\ written \subseteq written'
  <2>1. CASE Killed BY <2>1 DEF Killed, HeldWasWritten, Read
  <2>2. CASE ~Killed
    BY <2>2, RewriteKeeps, YamlStands
    DEF DataStep, Begin, _dispatch_cloud_setup, _run_data_chapter_no_restic, backup_run, _run_canary,
        restore_canary
  <2> QED BY <2>1, <2>2
<1>3. Gains BY <1>1, <1>2 DEF Gains, mac
<1>4. screen' \in {"ask", "estimate", "backup", "canary", "restore"} /\ won' = {} /\ kind' = "none"
  BY DEF DataStep, Begin, Killed, _dispatch_cloud_setup, _run_data_chapter_no_restic, backup_run,
         _run_canary, restore_canary, InData, Goes, ScreensOfTheirGate
<1>5. ScreensOfTheirGate' BY <1>4 DEF ScreensOfTheirGate
<1>6. Settled
  BY DEF DataStep, Begin, Killed, _dispatch_cloud_setup, _run_data_chapter_no_restic, backup_run,
         _run_canary, restore_canary, Goes, Settled
<1>8. MacTypes' BY <1>1 DEF MacTypes, mac
<1> QED BY <1>2, <1>3, <1>5, <1>6, <1>8 DEF Kept

\* Steps that end a gate.
GateStep ==
    \/ Skip \/ _run_identity_setup \/ _run_family_setup
    \/ PairingOver \/ set_firewalla_bridge \/ _run_ha_green_known
    \/ \E klass \in {"server", "roamer"}, named \in BOOLEAN : _run_wifi_identity(klass, named)
    \/ \E spine, takes, root \in BOOLEAN : _run_network_resilience(spine, takes, root)
    \/ \E joined \in BOOLEAN : _run_mesh_join(joined)
    \/ _run_service_user_install

LEMMA GateKeeps ==
  ASSUME OnboardInv, GateStep
  PROVE  Kept
<1> USE DEF OnboardInv
<1>1. NextGate
  BY DEF GateStep, Skip, _run_identity_setup, _run_family_setup, PairingOver, set_firewalla_bridge,
         _run_ha_green_known, _run_wifi_identity, _run_network_resilience, _run_mesh_join,
         _run_service_user_install, Did, DidNothing
<1>2. proven' = proven
  BY DEF GateStep, Skip, _run_identity_setup, _run_family_setup, PairingOver, set_firewalla_bridge,
         _run_ha_green_known, _run_wifi_identity, _run_network_resilience, _run_mesh_join,
         _run_service_user_install, vault
<1>3. HeldWasWritten' /\ written \subseteq written'
  BY RewriteKeeps, FillKeeps, YamlStands
  DEF GateStep, Skip, _run_identity_setup, _run_family_setup, PairingOver, set_firewalla_bridge,
      _run_ha_green_known, _run_wifi_identity, _run_network_resilience, _run_mesh_join,
      _run_service_user_install
<1>4. host \subseteq host'
  BY DEF GateStep, Skip, _run_identity_setup, _run_family_setup, PairingOver, set_firewalla_bridge,
         _run_ha_green_known, _run_wifi_identity, _run_network_resilience, _run_mesh_join,
         _run_service_user_install, mac
<1>5. DOMAIN tok' = Bearers /\ \A b \in Bearers : tok[b] = "right" => tok'[b] = "right"
  BY DEF GateStep, Skip, _run_identity_setup, _run_family_setup, PairingOver, set_firewalla_bridge,
         _run_ha_green_known, _run_wifi_identity, _run_network_resilience, _run_mesh_join,
         _run_service_user_install, MacTypes
<1>6. (family = "some" => family' = "some") /\ family' \in {"absent", "some", "broken"}
  BY DEF GateStep, Skip, _run_identity_setup, _run_family_setup, PairingOver, set_firewalla_bridge,
         _run_ha_green_known, _run_wifi_identity, _run_network_resilience, _run_mesh_join,
         _run_service_user_install, mac, MacTypes
<1>7. Gains BY <1>2, <1>3, <1>4, <1>5, <1>6 DEF Gains
<1>9. MacTypes' BY <1>5, <1>6 DEF MacTypes
<1>10. Settled
  <2> USE DEF Settled, AtGate
  <2>1. CASE Skip BY <2>1 DEF Skip
  <2>2. CASE _run_identity_setup
    <3>1. Gate = "identity-setup" /\ Did BY <2>2 DEF _run_identity_setup
    <3>2. "notify" \in written'
      BY <2>2, <1>3, RewriteKeeps DEF _run_identity_setup, HeldWasWritten
    <3>3. EarnedNow("identity-setup") BY <3>2 DEF Earned, EarnedNow, PairingGates
    <3> QED BY <3>1, <3>3
  <2>3. CASE _run_family_setup
    <3>1. Gate = "family-setup" BY <2>3 DEF _run_family_setup
    <3>2. DidNothing \/ (Did /\ family' = "some") BY <2>3 DEF _run_family_setup, MacTypes
    <3>3. family' = "some" => EarnedNow("family-setup") BY DEF Earned, EarnedNow, PairingGates
    <3> QED BY <3>1, <3>2, <3>3
  <2>4. CASE PairingOver
    <3>1. AtPairing BY <2>4 DEF PairingOver, ScreensOfTheirGate
    <3>2. DidNothing \/ (Did /\ won # {}) BY <2>4 DEF PairingOver
    <3>3. won # {} => EarnedNow("haus-scan") /\ EarnedNow("network-gear")
      BY <3>1, <1>2, <1>3 DEF AtPairing, Earned, EarnedNow, PairingGates
    <3>4. Gate = "haus-scan" \/ Gate = "network-gear" BY <3>1 DEF AtPairing, PairingGates
    <3> QED BY <3>2, <3>3, <3>4
  <2>5. CASE set_firewalla_bridge
    <3>1. Did /\ kind \in written' /\ tok' = [tok EXCEPT ![kind] = "right"]
      BY <2>5, FillKeeps DEF set_firewalla_bridge
    <3>2. \/ kind = "firewalla" /\ Gate = "firewalla-pairing"
          \/ kind = "ha" /\ Gate = "ha-green"
      BY <2>5 DEF set_firewalla_bridge, ScreensOfTheirGate
    <3>3. tok'[kind] = "right" BY <3>1, <3>2 DEF MacTypes, Bearers
    <3>4. kind = "firewalla" => EarnedNow("firewalla-pairing")
      BY <3>1, <3>3 DEF Earned, EarnedNow, PairingGates
    <3>5. kind = "ha" => EarnedNow("ha-green")
      BY <3>1, <3>3 DEF Earned, EarnedNow, PairingGates
    <3> QED BY <3>1, <3>2, <3>4, <3>5
  <2>6. CASE _run_ha_green_known
    <3>1. Gate = "ha-green" /\ Did /\ tok'["ha"] = "right" /\ "ha" \in written'
      BY <2>6, RewriteKeeps DEF _run_ha_green_known
    <3>2. EarnedNow("ha-green") BY <3>1 DEF Earned, EarnedNow, PairingGates
    <3> QED BY <3>1, <3>2
  <2>7. CASE \E klass \in {"server", "roamer"}, named \in BOOLEAN : _run_wifi_identity(klass, named)
    <3>1. Gate = "wifi-identity" BY <2>7 DEF _run_wifi_identity
    <3>2. DidNothing \/ Did BY <2>7 DEF _run_wifi_identity
    <3> QED BY <3>1, <3>2
  <2>8. CASE \E spine, takes, root \in BOOLEAN : _run_network_resilience(spine, takes, root)
    <3>1. Gate = "network-resilience" BY <2>8 DEF _run_network_resilience
    <3>2. DidNothing \/ (Did /\ "dhcp" \in host') BY <2>8 DEF _run_network_resilience
    <3>3. "dhcp" \in host' => EarnedNow("network-resilience") BY DEF Earned, EarnedNow, PairingGates
    <3> QED BY <3>1, <3>2, <3>3
  <2>9. CASE \E joined \in BOOLEAN : _run_mesh_join(joined)
    <3>1. Gate = "mesh-join" BY <2>9 DEF _run_mesh_join
    <3>2. DidNothing \/ (Did /\ "joined" \in host') BY <2>9 DEF _run_mesh_join
    <3>3. "joined" \in host' => EarnedNow("mesh-join") BY DEF Earned, EarnedNow, PairingGates
    <3> QED BY <3>1, <3>2, <3>3
  <2>10. CASE _run_service_user_install
    <3>1. Gate = "service-user-install" /\ Did /\ "service" \in host'
      BY <2>10 DEF _run_service_user_install, mac
    <3>2. EarnedNow("service-user-install") BY <3>1 DEF Earned, EarnedNow, PairingGates
    <3> QED BY <3>1, <3>2
  <2> QED
    BY <2>1, <2>2, <2>3, <2>4, <2>5, <2>6, <2>7, <2>8, <2>9, <2>10 DEF GateStep
<1> QED BY <1>1, <1>3, <1>7, <1>9, <1>10, NextGateKeeps DEF Kept

\* Steps between two screens of the gate the wizard is at.
ScreenStep ==
    \/ _run_claude_subscription \/ NoClaude \/ NoGemini
    \/ \E s \in {"right", "wrong"} : _run_claude_api_key(s) \/ _run_gemini(s)
    \/ \E up \in BOOLEAN : _provider_health(up) \/ _probe_device(up)
    \/ set_provider_config /\ won # {}
    \/ \E S \in SUBSET GearKinds : Found(S)
    \/ \E k \in GearKinds, s \in {"right", "wrong"} : _run_network_gear(k, s)
    \/ set_device_reference /\ kind # "none"
    \/ \E b \in Bearers : _run_firewalla_pairing(b)

LEMMA ScreenKeeps ==
  ASSUME OnboardAssumption, OnboardInv, ScreenStep
  PROVE  Kept
<1> USE DEF OnboardInv
<1>1. UNCHANGED <<phase, recipe, place, did, tok, mac>> /\ phase = "gates"
  BY DEF ScreenStep, _run_claude_subscription, NoClaude, NoGemini, _run_claude_api_key, _run_gemini,
         _provider_health, _probe_device, set_provider_config, Found, _run_network_gear,
         set_device_reference, _run_firewalla_pairing, AskClaude, AskGemini, AtGate, BearerGate,
         StartsOn, Continue
<1>2. HeldWasWritten' /\ written \subseteq written'
  BY TruncateKeeps, FillKeeps, YamlStands
  DEF ScreenStep, _run_claude_subscription, NoClaude, NoGemini, _run_claude_api_key, _run_gemini,
      _provider_health, _probe_device, set_provider_config, Found, _run_network_gear,
      set_device_reference, _run_firewalla_pairing
<1>3. proven \subseteq proven'
  BY DEF ScreenStep, _run_claude_subscription, NoClaude, NoGemini, _run_claude_api_key, _run_gemini,
         _provider_health, _probe_device, set_provider_config, Found, _run_network_gear,
         set_device_reference, _run_firewalla_pairing, store_device_secret, vault
<1>4. Gains BY <1>1, <1>2, <1>3 DEF Gains, mac
<1>5. Settled BY <1>1 DEF Settled
<1>7. MacTypes' BY <1>1 DEF MacTypes, mac
<1>8. Gate' = Gate BY <1>1, SameGate
<1>9. ScreensOfTheirGate'
  <2> USE DEF AtAi, AtPairing
  <2>1. CASE _run_claude_subscription
    <3>1. Gate = "ai-providers" BY <2>1 DEF _run_claude_subscription, AskClaude, AtGate
    <3>2. screen' = "gemini" /\ kind' = "none" /\ won' = {"claude"} /\ "claude" \in proven'
      BY <2>1 DEF _run_claude_subscription, Continue
    <3> QED BY <1>8, <3>1, <3>2 DEF ScreensOfTheirGate, AiKinds
  <2>2. CASE NoClaude
    <3>1. Gate = "ai-providers" BY <2>2 DEF NoClaude, AskClaude, AtGate
    <3>2. screen' = "gemini" /\ kind' = "none" /\ won' = {} BY <2>2 DEF NoClaude, Continue
    <3> QED BY <1>8, <3>1, <3>2 DEF ScreensOfTheirGate
  <2>3. CASE NoGemini
    <3>1. AtAi BY <2>3 DEF NoGemini, AskGemini, ScreensOfTheirGate
    <3>2. screen' = "settle" /\ kind' = "none" /\ won' = won BY <2>3 DEF NoGemini, Continue
    <3> QED BY <1>3, <1>8, <3>1, <3>2 DEF ScreensOfTheirGate
  <2>4. CASE \E s \in {"right", "wrong"} : _run_claude_api_key(s) \/ _run_gemini(s)
    <3>1. AtAi
      BY <2>4 DEF _run_claude_api_key, _run_gemini, AskClaude, AskGemini, AtGate, ScreensOfTheirGate
    <3>2. screen' = "probe" /\ kind' \in AiKinds /\ won' = won
      BY <2>4 DEF _run_claude_api_key, _run_gemini, StartsOn, AiKinds
    <3>3. AtAi' BY <1>3, <1>8, <3>1, <3>2
    <3> QED BY <3>2, <3>3 DEF ScreensOfTheirGate
  <2>5. CASE \E up \in BOOLEAN : _provider_health(up)
    <3>1. kind \in AiKinds /\ AtAi
      BY <2>5, OnboardAssumption DEF _provider_health, ScreensOfTheirGate, OnboardAssumption, AiKinds
    <3>2. screen' \in {"gemini", "settle"} /\ kind' = "none"
      BY <2>5 DEF _provider_health, Continue
    <3>3. won' = won \/ (won' = won \cup {kind} /\ kind \in proven')
      BY <2>5 DEF _provider_health, Continue
    <3> QED BY <1>3, <1>8, <3>1, <3>2, <3>3 DEF ScreensOfTheirGate
  <2>6. CASE \E up \in BOOLEAN : _probe_device(up)
    <3>1. kind \in GearKinds /\ AtPairing
      BY <2>6, OnboardAssumption DEF _probe_device, ScreensOfTheirGate, OnboardAssumption, AiKinds
    <3>2. won' = won BY <2>6 DEF _probe_device, Continue
    <3>3. \/ screen' = "fill" /\ kind' = kind /\ kind \in proven'
          \/ screen' = "next" /\ kind' = "none"
      BY <2>6 DEF _probe_device, Continue, Accepts
    <3> QED BY <1>2, <1>3, <1>8, <3>1, <3>2, <3>3 DEF ScreensOfTheirGate
  <2>7. CASE set_provider_config /\ won # {}
    <3>1. AtAi /\ kind = "none" BY <2>7 DEF set_provider_config, ScreensOfTheirGate
    <3>2. screen' = "fill" /\ kind' = kind /\ won' = won BY <2>7 DEF set_provider_config
    <3> QED BY <1>3, <1>8, <2>7, <3>1, <3>2 DEF ScreensOfTheirGate
  <2>8. CASE \E S \in SUBSET GearKinds : Found(S)
    <3>1. Gate \in PairingGates /\ won = {} /\ kind = "none" BY <2>8 DEF Found, ScreensOfTheirGate
    <3>2. screen' = "next" /\ kind' = kind /\ won' = won BY <2>8 DEF Found
    <3> QED BY <1>8, <3>1, <3>2 DEF ScreensOfTheirGate
  <2>9. CASE \E k \in GearKinds, s \in {"right", "wrong"} : _run_network_gear(k, s)
    <3>1. AtPairing BY <2>9 DEF _run_network_gear, ScreensOfTheirGate
    <3>2. screen' = "probe" /\ kind' \in GearKinds /\ won' = won
      BY <2>9 DEF _run_network_gear, StartsOn
    <3> QED BY <1>2, <1>3, <1>8, <3>1, <3>2 DEF ScreensOfTheirGate
  <2>10. CASE set_device_reference /\ kind # "none"
    <3>1. kind \in GearKinds \cap proven /\ AtPairing
      BY <2>10 DEF set_device_reference, ScreensOfTheirGate
    <3>2. screen' = "next" /\ kind' = "none" /\ won' = won \cup {kind}
      BY <2>10 DEF set_device_reference, Continue
    <3>3. kind \in written' BY <2>10, FillKeeps DEF set_device_reference
    <3> QED BY <1>2, <1>3, <1>8, <3>1, <3>2, <3>3 DEF ScreensOfTheirGate
  <2>11. CASE \E b \in Bearers : _run_firewalla_pairing(b)
    <3>1. \/ kind' = "firewalla" /\ Gate = "firewalla-pairing"
          \/ kind' = "ha" /\ Gate = "ha-green"
      BY <2>11 DEF _run_firewalla_pairing, BearerGate, AtGate, Bearers
    <3>2. screen' = "token" BY <2>11 DEF _run_firewalla_pairing
    <3> QED BY <1>8, <3>1, <3>2 DEF ScreensOfTheirGate
  <2> QED
    BY <2>1, <2>2, <2>3, <2>4, <2>5, <2>6, <2>7, <2>8, <2>9, <2>10, <2>11 DEF ScreenStep
<1> QED BY <1>2, <1>4, <1>5, <1>7, <1>9 DEF Kept

\* The AI providers' gate ends: nothing won, or its one write done.
SettleStep ==
    \/ set_provider_config /\ won = {}
    \/ set_device_reference /\ kind = "none"

LEMMA SettleKeeps ==
  ASSUME OnboardAssumption, OnboardInv, SettleStep
  PROVE  Kept
<1> USE DEF OnboardInv
<1>1. NextGate BY DEF SettleStep, set_provider_config, set_device_reference, Did, DidNothing
<1>2. UNCHANGED <<proven, tok, mac>>
  BY DEF SettleStep, set_provider_config, set_device_reference, vault
<1>3. HeldWasWritten' /\ written \subseteq written'
  BY FillKeeps, YamlStands DEF SettleStep, set_provider_config, set_device_reference
<1>4. Gains BY <1>2, <1>3 DEF Gains, mac
<1>5. Settled
  <2>1. CASE set_provider_config /\ won = {} BY <2>1 DEF set_provider_config, Settled
  <2>2. CASE set_device_reference /\ kind = "none"
    <3>1. Did /\ won \subseteq written' BY <2>2, FillKeeps DEF set_device_reference
    <3>2. AtAi /\ won # {}
      BY <2>2, OnboardAssumption
      DEF set_device_reference, ScreensOfTheirGate, OnboardAssumption
    <3>3. EarnedNow("ai-providers")
      BY <1>2, <3>1, <3>2 DEF AtAi, Earned, EarnedNow, PairingGates
    <3> QED BY <3>1, <3>2, <3>3 DEF Settled, AtAi
  <2> QED BY <2>1, <2>2 DEF SettleStep
<1>7. MacTypes' BY <1>2 DEF MacTypes, mac
<1> QED BY <1>1, <1>3, <1>4, <1>5, <1>7, NextGateKeeps DEF Kept

LEMMA StepsOfAKind ==
  ASSUME [OnboardNext]_onboardVars
  PROVE  PageStep \/ DataStep \/ GateStep \/ ScreenStep \/ SettleStep
<1>1. CASE set_provider_config BY <1>1 DEF ScreenStep, SettleStep
<1>2. CASE set_device_reference BY <1>2 DEF ScreenStep, SettleStep
<1>3. CASE UNCHANGED onboardVars BY <1>3 DEF PageStep
<1>4. CASE OnboardNext /\ ~set_provider_config /\ ~set_device_reference
  BY <1>4, Zenon DEF OnboardNext, PageStep, DataStep, GateStep, ScreenStep
<1> QED BY <1>1, <1>2, <1>3, <1>4

LEMMA OnboardStep ==
  ASSUME OnboardAssumption, OnboardInv, [OnboardNext]_onboardVars
  PROVE  OnboardInv'
  BY StepsOfAKind, PageKeeps, DataKeeps, GateKeeps, ScreenKeeps, SettleKeeps, KeptIsEnough

\* The wizard stands at the gate its screen belongs to, has won there only what is
\* proven and written, and says nothing of a gate it has not earned.
\* (commands/onboard.py)
THEOREM OnboardInvariant == OnboardSpec => []OnboardInv
<1>1. OnboardInit => OnboardInv BY OnboardInitial
<1>2. OnboardInv /\ [OnboardNext]_onboardVars => OnboardInv' BY OnboardStep, OnboardAssumption
<1> QED BY <1>1, <1>2, PTL DEF OnboardSpec

\* The recap names no chapter in which nothing was persisted, for any recipe, any
\* kinds of gear, and whatever was killed, run again or changed from the Setup
\* Assistant's page meanwhile. (the gate handlers, the recap)
THEOREM RecapsAreHonest == OnboardSpec => []RecapIsHonest
<1>1. OnboardInv => RecapIsHonest BY DEF OnboardInv, AllEarned, RecapIsHonest, Recapped
<1> QED BY <1>1, OnboardInvariant, PTL

\* What a step writes of a provider or a device, its probe has accepted by then.
OnlyProven == (written' \ written) \cap Kinds \subseteq proven'

LEMMA PageWritesProven ==
  ASSUME OnboardAssumption, OnboardInv, PageStep
  PROVE  OnlyProven
<1> USE DEF OnlyProven, Rewrite
<1>1. CASE \E b \in {"instance", "policy"} : PageSaves(b)
  BY <1>1 DEF PageSaves, OnboardAssumption, Kinds, AiKinds
<1>2. CASE \E k \in AiKinds, s \in {"right", "wrong"}, up \in BOOLEAN : _act_provider(k, s, up)
  BY <1>2 DEF _act_provider, yaml
<1>3. CASE \E b \in Bearers : _act_bearer(b)
  BY <1>3 DEF _act_bearer, OnboardAssumption, Kinds, AiKinds, Bearers
<1>4. CASE _act_family \/ EditZshrc \/ UNCHANGED onboardVars
  BY <1>4 DEF _act_family, EditZshrc, onboardVars, yaml
<1> QED BY <1>1, <1>2, <1>3, <1>4 DEF PageStep

LEMMA WizardWritesProven ==
  ASSUME OnboardAssumption, OnboardInv, DataStep \/ GateStep \/ ScreenStep \/ SettleStep
  PROVE  OnlyProven
<1> USE DEF OnlyProven, OnboardAssumption, Kinds, AiKinds
<1>1. CASE DataStep
  <2>1. written' = written \/ written' = written \cup {"cloud"}
    BY <1>1 DEF DataStep, Begin, Killed, _dispatch_cloud_setup, _run_data_chapter_no_restic,
                backup_run, _run_canary, restore_canary, yaml, Rewrite
  <2> QED BY <2>1
<1>2. CASE GateStep
  <2>1. \/ written' = written
        \/ \E b \in {"notify", "ha"} : written' = written \cup {b}
        \/ set_firewalla_bridge
    BY <1>2 DEF GateStep, Skip, _run_identity_setup, _run_family_setup, PairingOver,
                _run_ha_green_known, _run_wifi_identity, _run_network_resilience, _run_mesh_join,
                _run_service_user_install, yaml, Rewrite
  <2>2. CASE set_firewalla_bridge
    <3>1. written' = written \cup {kind} BY <2>2 DEF set_firewalla_bridge, Fill
    <3>2. kind \in {"firewalla", "ha"}
      BY <2>2 DEF set_firewalla_bridge, OnboardInv, ScreensOfTheirGate
    <3> QED BY <3>1, <3>2
  <2> QED BY <2>1, <2>2
<1>3. CASE ScreenStep \/ SettleStep
  <2>1. written' = written \/ set_device_reference
    BY <1>3 DEF ScreenStep, SettleStep, _run_claude_subscription, NoClaude, NoGemini,
                _run_claude_api_key, _run_gemini, _provider_health, _probe_device,
                set_provider_config, Found, _run_network_gear, _run_firewalla_pairing, yaml, Truncate
  <2>2. CASE set_device_reference
    <3>1. proven' = proven BY <2>2 DEF set_device_reference, vault
    <3>2. \/ kind = "none" /\ written' = written \cup won
          \/ kind # "none" /\ written' = written \cup {kind}
      BY <2>2 DEF set_device_reference, Fill
    <3>3. \/ kind = "none" /\ won \subseteq proven
          \/ kind \in proven
      BY <2>2 DEF set_device_reference, OnboardInv, ScreensOfTheirGate, AtAi
    <3>4. CASE kind = "none"
      <4>1. won \subseteq proven
        BY <2>2, <3>4 DEF set_device_reference, OnboardInv, ScreensOfTheirGate, AtAi
      <4> QED BY <3>1, <3>2, <3>4, <4>1
    <3> QED BY <3>1, <3>2, <3>3, <3>4
  <2> QED BY <2>1, <2>2
<1> QED BY <1>1, <1>2, <1>3

\* A provider's or a device's block is in instance.yaml, now or ever, only if its
\* probe accepted a secret, whatever the page and the wizard wrote of each other's
\* reading and wherever the wizard was killed. (set_provider_config,
\* set_device_reference, _act_provider)
THEOREM ReferencesAreProven == OnboardSpec => []NoUnprovenReference
<1>1. OnboardInit => NoUnprovenReference
  BY OnboardAssumption DEF OnboardInit, NoUnprovenReference, OnboardAssumption, Kinds, AiKinds
<1>2. OnboardInv /\ NoUnprovenReference /\ [OnboardNext]_onboardVars => NoUnprovenReference'
  <2> SUFFICES ASSUME OnboardInv, NoUnprovenReference, [OnboardNext]_onboardVars
               PROVE  NoUnprovenReference'
    OBVIOUS
  <2>1. PageStep \/ DataStep \/ GateStep \/ ScreenStep \/ SettleStep BY StepsOfAKind
  <2>2. OnlyProven BY <2>1, OnboardAssumption, PageWritesProven, WizardWritesProven
  <2>3. proven \subseteq proven'
    BY <2>1, OnboardAssumption, PageKeeps, DataKeeps, GateKeeps, ScreenKeeps, SettleKeeps
    DEF Kept, Gains
  <2> QED BY <2>2, <2>3 DEF OnlyProven, NoUnprovenReference
<1> QED BY <1>1, <1>2, OnboardInvariant, PTL DEF OnboardSpec

---------------------------------------------------------------------------
\* ServiceHost: installs, uninstalls, modules.

HostSpec == HostInit /\ [][HostNext]_hostVars

Typed ==
    /\ HostTypeOK /\ cur \in Wave1 /\ calls \in 0..MaxCalls
    /\ user \in BOOLEAN /\ sudo \in BOOLEAN /\ settled \in BOOLEAN /\ overlaid \in BOOLEAN

\* What is copied of an operator's plist is that plist: where there is no copy
\* yet it is still in place, and an install gets to overwriting it only past the copy.
OwnIsFirst ==
    /\ \A l \in Wave1 : first[l] = "own" =>
         pre[l] \in {"none", "partial", "own"} /\ (pre[l] = "none" => daemons[l] = "own")
    /\ first[cur] = "own" => /\ stage = "copy" => daemons[cur] = "own"
                             /\ stage \in {"over", "replace"} => pre[cur] # "none"

\* An agent has a shelved copy beside it only where it was put back over it.
ApartUnlessPutBack == ~overlaid => agents \cap shelved = {}

\* Under sudo a service that was installed runs as an agent only if its file is
\* still there (a login or the operator brought it back, the shelving takes it),
\* or where its bootout did nothing.
BootedOut ==
    stage \notin {"idle", "user"} /\ sudo => gui \cap TwoSided \subseteq agents \cup left \cup clung
NothingLeft == stage = "shelve" => left = {}

\* Once settled, no agent of them runs that could be booted out, and none has a
\* file a login would load.
SettledIsDry ==
    settled => /\ stage = "idle"
               /\ ~overlaid => agents \cap TwoSided = {} /\ gui \cap TwoSided \subseteq clung

HostInv == Typed /\ OwnPlistKept /\ OwnIsFirst /\ ApartUnlessPutBack /\ BootedOut /\ NothingLeft /\ SettledIsDry

---------------------------------------------------------------------------
LEMMA HostInitial == HostInit => HostInv
<1> SUFFICES ASSUME HostInit PROVE HostInv
  OBVIOUS
<1> USE HostAssumption DEF HostInit, Labels
<1>1. agents \subseteq Labels /\ gui = agents /\ shelved = {} /\ 0 \in 0..MaxCalls
  OBVIOUS
<1>2. HostTypeOK
  BY <1>1 DEF HostTypeOK
<1>3. Typed
  BY <1>1, <1>2 DEF Typed
<1>4. OwnPlistKept /\ OwnIsFirst
  BY DEF OwnPlistKept, OwnIsFirst
<1>5. ApartUnlessPutBack /\ BootedOut /\ NothingLeft /\ SettledIsDry
  BY DEF ApartUnlessPutBack, BootedOut, NothingLeft, SettledIsDry
<1> QED BY <1>2, <1>3, <1>4, <1>5 DEF HostInv

\* The count of what happened stays within its bound.
LEMMA CallCounts ==
  ASSUME calls \in 0..MaxCalls, Call PROVE calls' \in 0..MaxCalls /\ calls + 1 \in 0..MaxCalls
  BY HostAssumption DEF Call

\* The install, step by step.
LEMMA InstallKeeps ==
  ASSUME HostInv,
         \/ \E b \in BOOLEAN : install_wave1_as_root(b) \/ _ensure_group_and_user(b) \/ _bootstrap(b)
         \/ \E l \in Wave1 : _backup_once(l)
         \/ Copied \/ Truncated \/ _install_plists \/ _shelve_agents \/ Die
  PROVE  HostInv'
<1> USE HostAssumption DEF HostInv, Typed, HostTypeOK, Labels
<1> USE DEF OwnPlistKept, OwnIsFirst, ApartUnlessPutBack, BootedOut, NothingLeft, SettledIsDry
<1>1. ASSUME NEW b \in BOOLEAN, install_wave1_as_root(b) PROVE HostInv'
  <2>1. /\ stage = "idle" /\ stage' = "user" /\ sudo' = b /\ settled' = FALSE
        /\ UNCHANGED <<agents, shelved, daemons, pre, first, gui, system, user, left, cur, overlaid, clung, entries>>
    BY <1>1 DEF install_wave1_as_root, files, mod
  <2>2. calls' \in 0..MaxCalls
    BY <1>1, CallCounts DEF install_wave1_as_root
  <2>3. Typed'
    BY <2>1, <2>2
  <2>4. OwnPlistKept' /\ OwnIsFirst' /\ ApartUnlessPutBack'
    BY <2>1
  <2>5. BootedOut' /\ NothingLeft' /\ SettledIsDry'
    BY <2>1
  <2> QED BY <2>3, <2>4, <2>5
<1>2. ASSUME NEW b \in BOOLEAN, _ensure_group_and_user(b) PROVE HostInv'
  BY <1>2 DEF _ensure_group_and_user, files, mod
<1>3. ASSUME NEW b \in BOOLEAN, _bootstrap(b) PROVE HostInv'
  BY <1>3 DEF _bootstrap, files, mod
<1>4. ASSUME NEW l \in Wave1, _backup_once(l) PROVE HostInv'
  <2>1. Typed'
    BY <1>4 DEF _backup_once, mod
  <2>2. OwnPlistKept' /\ OwnIsFirst'
    BY <1>4 DEF _backup_once
  <2>3. ApartUnlessPutBack' /\ BootedOut' /\ NothingLeft' /\ SettledIsDry'
    BY <1>4 DEF _backup_once
  <2> QED BY <2>1, <2>2, <2>3
<1>7. CASE Copied
  <2>1. Typed'
    BY <1>7 DEF Copied, mod
  <2>2. OwnPlistKept' /\ OwnIsFirst'
    BY <1>7 DEF Copied
  <2>3. ApartUnlessPutBack' /\ BootedOut' /\ NothingLeft' /\ SettledIsDry'
    BY <1>7 DEF Copied
  <2> QED BY <2>1, <2>2, <2>3
<1>8. CASE Truncated
  <2>1. Typed'
    BY <1>8 DEF Truncated, mod
  <2>2. OwnPlistKept' /\ OwnIsFirst'
    BY <1>8 DEF Truncated
  <2>3. ApartUnlessPutBack' /\ BootedOut' /\ NothingLeft' /\ SettledIsDry'
    BY <1>8 DEF Truncated
  <2> QED BY <2>1, <2>2, <2>3
<1>9. CASE _install_plists
  <2>1. /\ stage = "replace" /\ stage' = "load" /\ left' = left \ {cur}
        /\ daemons' = [daemons EXCEPT ![cur] = "wave1"]
        /\ gui' \subseteq gui /\ system' \subseteq system
        /\ clung' = IF sudo THEN (clung \cup {cur}) \cap gui' ELSE clung
        /\ gui \ {cur} \subseteq gui'
        /\ UNCHANGED <<agents, shelved, pre, first, user, cur, sudo, settled, overlaid, entries, calls>>
    BY <1>9 DEF _install_plists, BootoutFrom, mod
  <2>2. Typed'
    BY <2>1
  <2>3. OwnPlistKept' /\ OwnIsFirst'
    BY <2>1
  <2>4. ApartUnlessPutBack' /\ BootedOut' /\ NothingLeft' /\ SettledIsDry'
    BY <2>1
  <2> QED BY <2>2, <2>3, <2>4
<1>5. CASE _shelve_agents
  <2>1. PICK due : /\ due = IF sudo THEN {l \in TwoSided : l \in agents /\ l \notin shelved} ELSE {}
                   /\ agents' = agents \ due /\ shelved' = shelved \cup due
                   /\ gui' \in BootoutFrom(gui, due) /\ clung' = (clung \cup due) \cap gui'
    BY <1>5 DEF _shelve_agents
  <2>2. /\ stage = "shelve" /\ stage' = "idle" /\ settled' = sudo
        /\ UNCHANGED <<daemons, pre, first, system, user, left, cur, sudo, overlaid, entries, calls>>
    BY <1>5 DEF _shelve_agents, mod
  <2>7. gui' \subseteq gui
    BY <2>1 DEF BootoutFrom
  <2>3. Typed'
    BY <2>1, <2>2, <2>7
  <2>4. OwnPlistKept' /\ OwnIsFirst' /\ BootedOut' /\ NothingLeft'
    BY <2>2
  <2>5. ApartUnlessPutBack'
    BY <2>1, <2>2
  <2>6. SettledIsDry'
    <3> SUFFICES ASSUME sudo, ~overlaid PROVE agents' \cap TwoSided = {} /\ gui' \cap TwoSided \subseteq clung'
      BY <2>2
    <3>1. gui \cap TwoSided \subseteq agents \cup clung
      BY <2>2
    <3>2. agents \cap TwoSided \subseteq due
      BY <2>1
    <3> QED BY <2>1, <2>7, <3>1, <3>2
  <2> QED BY <2>3, <2>4, <2>5, <2>6
<1>6. CASE Die
  BY <1>6 DEF Die, files, mod
<1> QED BY <1>1, <1>2, <1>3, <1>4, <1>5, <1>6, <1>7, <1>8, <1>9

\* What other terminals, modules, logins and hands do.
LEMMA OthersKeep ==
  ASSUME HostInv,
         \/ \E b \in BOOLEAN : uninstall_command(b)
         \/ uninstall_module \/ Login \/ Reboot
         \/ \E l \in TwoSided \cup AgentOnly :
              agent_start(l) \/ agent_stop(l) \/ PutBack(l) \/ (\E b \in BOOLEAN : agent_restart(l, b))
         \/ \E silent \in SUBSET Secrets : install_module(silent)
         \/ \E agentFirst \in SUBSET TwoSided : check_cmd(agentFirst)
  PROVE  HostInv'
<1> USE HostAssumption DEF HostInv, Typed, HostTypeOK, Labels
<1> USE DEF OwnPlistKept, OwnIsFirst, ApartUnlessPutBack, BootedOut, NothingLeft, SettledIsDry
<1>1. ASSUME NEW b \in BOOLEAN, uninstall_command(b) PROVE HostInv'
  <2>1. /\ agents' = {} /\ gui' \subseteq gui /\ clung' = clung \cap gui' /\ stage = "idle"
        /\ entries' = [s \in Secrets |-> 0] /\ calls' \in 0..MaxCalls /\ 0 \in 0..MaxCalls
        /\ UNCHANGED <<shelved, daemons, pre, first, system, user, left, cur, stage, sudo, settled, overlaid>>
    BY <1>1, CallCounts
    DEF uninstall_command, _bootout_and_delete_launchagents, _revoke_keychain_entries, BootoutFrom, StopsClinging
  <2>2. Typed'
    BY <2>1
  <2> QED BY <2>1, <2>2
<1>2. CASE uninstall_module
  <2>1. /\ gui' \subseteq gui /\ entries' = [s \in Secrets |-> 0]
        /\ UNCHANGED <<agents, shelved, daemons, pre, first, system, user, left, cur, stage, sudo, settled,
                       overlaid, clung>>
    BY <1>2 DEF uninstall_module, BootoutFrom, files, install
  <2>2. calls' \in 0..MaxCalls /\ entries' \in [Secrets -> 0..MaxCalls]
    <3>1. calls' \in 0..MaxCalls
      BY <1>2, CallCounts DEF uninstall_module
    <3>2. 0 \in 0..MaxCalls
      OBVIOUS
    <3> QED BY <2>1, <3>1, <3>2
  <2>3. Typed'
    BY <2>1, <2>2
  <2>4. OwnPlistKept' /\ OwnIsFirst' /\ ApartUnlessPutBack' /\ BootedOut' /\ NothingLeft' /\ SettledIsDry'
    BY <2>1
  <2> QED BY <2>3, <2>4
<1>3. CASE Login
  BY <1>3 DEF Login, Call, files, install, mod
<1>4. CASE Reboot
  BY <1>4 DEF Reboot, Call, files, mod
<1>5. ASSUME NEW l \in TwoSided \cup AgentOnly, agent_start(l) PROVE HostInv'
  BY <1>5 DEF agent_start, Call, files, install, mod
<1>6. ASSUME NEW l \in TwoSided \cup AgentOnly, agent_stop(l) PROVE HostInv'
  <2>1. /\ gui' \subseteq gui /\ clung' = clung \cap gui' /\ calls' \in 0..MaxCalls
        /\ UNCHANGED <<agents, shelved, daemons, pre, first, system, user, left, cur, stage, sudo, settled,
                       overlaid, entries>>
    BY <1>6, CallCounts DEF agent_stop, BootoutFrom, StopsClinging, files, mod
  <2>2. Typed'
    BY <2>1
  <2> QED BY <2>1, <2>2
<1>7. ASSUME NEW l \in TwoSided \cup AgentOnly, PutBack(l) PROVE HostInv'
  <2>1. /\ stage = "idle" /\ l \notin agents /\ agents' = agents \cup {l} /\ settled' = FALSE
        /\ overlaid' = (overlaid \/ l \in shelved)
        /\ UNCHANGED <<shelved, daemons, pre, first, gui, system, user, left, cur, stage, sudo, clung, entries>>
    BY <1>7 DEF PutBack, mod
  <2>2. calls' \in 0..MaxCalls /\ overlaid' \in BOOLEAN /\ settled' \in BOOLEAN
    BY <1>7, <2>1, CallCounts DEF PutBack
  <2>3. Typed'
    BY <2>1, <2>2
  <2>4. ApartUnlessPutBack'
    BY <2>1
  <2>5. OwnPlistKept' /\ OwnIsFirst' /\ BootedOut' /\ NothingLeft' /\ SettledIsDry'
    BY <2>1
  <2> QED BY <2>3, <2>4, <2>5
<1>8. ASSUME NEW l \in TwoSided \cup AgentOnly, NEW b \in BOOLEAN, agent_restart(l, b) PROVE HostInv'
  <2>1. /\ gui' \subseteq gui \cup {l} /\ (l \notin agents => gui' \subseteq gui)
        /\ clung' = clung \cap gui' /\ calls' \in 0..MaxCalls
        /\ UNCHANGED <<agents, shelved, daemons, pre, first, system, user, left, cur, stage, sudo, settled,
                       overlaid, entries>>
    BY <1>8, CallCounts DEF agent_restart, BootoutFrom, StopsClinging, files, mod
  <2>2. Typed'
    BY <2>1
  <2>3. OwnPlistKept' /\ OwnIsFirst' /\ ApartUnlessPutBack' /\ NothingLeft'
    BY <2>1
  <2>4. BootedOut' /\ SettledIsDry'
    BY <2>1
  <2> QED BY <2>2, <2>3, <2>4
<1>9. ASSUME NEW silent \in SUBSET Secrets, install_module(silent) PROVE HostInv'
  <2>1. entries' \in [Secrets -> 0..MaxCalls] /\ calls' \in 0..MaxCalls
    BY <1>9, CallCounts DEF install_module
  <2>2. UNCHANGED <<agents, shelved, daemons, pre, first, gui, system, user, left, cur, stage, sudo, settled, overlaid, clung>>
    BY <1>9 DEF install_module, files, install
  <2>3. Typed'
    BY <2>1, <2>2
  <2>4. OwnPlistKept' /\ OwnIsFirst' /\ ApartUnlessPutBack' /\ BootedOut' /\ NothingLeft' /\ SettledIsDry'
    BY <2>2
  <2> QED BY <2>3, <2>4
<1>10. ASSUME NEW agentFirst \in SUBSET TwoSided, check_cmd(agentFirst) PROVE HostInv'
  BY <1>10 DEF check_cmd, Call, files, install, mod
<1> QED BY <1>1, <1>2, <1>3, <1>4, <1>5, <1>6, <1>7, <1>8, <1>9, <1>10

LEMMA HostStep == HostInv /\ [HostNext]_hostVars => HostInv'
<1>1. HostInv /\ UNCHANGED hostVars => HostInv'
  BY DEF hostVars, files, install, mod, HostInv, Typed, HostTypeOK, OwnPlistKept, OwnIsFirst,
         ApartUnlessPutBack, BootedOut, NothingLeft, SettledIsDry
<1> QED BY <1>1, InstallKeeps, OthersKeep DEF HostNext

---------------------------------------------------------------------------
\* Types: files, loaded jobs, the install under way and the module's secrets.
\* (service_user.py, commands/{agent,module,uninstall}.py)
THEOREM HostTypes == HostSpec => []HostTypeOK
<1>1. HostInv => HostTypeOK
  BY DEF HostInv, Typed
<1> QED BY HostInitial, HostStep, <1>1, PTL DEF HostSpec

\* The plist the operator had is in place or in its copy, however many installs
\* follow and wherever one died, unless one died in the copy. (_install_plists)
THEOREM OwnPlistSurvives == HostSpec => []OwnPlistKept
<1>1. HostInv => OwnPlistKept
  BY DEF HostInv
<1> QED BY HostInitial, HostStep, <1>1, PTL DEF HostSpec

\* After an install that ended under sudo no service runs both ways but one whose
\* bootout did nothing, and that one no longer than to the next boot, whatever
\* logins, reboots and commands come before, between and after its steps.
\* (install_wave1_as_root, _shelve_agents)
THEOREM NothingRunsTwice == HostSpec => []NoDoubleRun
<1>1. HostInv => NoDoubleRun
  BY DEF HostInv, NoDoubleRun, SettledIsDry
<1> QED BY HostInitial, HostStep, <1>1, PTL DEF HostSpec

---------------------------------------------------------------------------
\* Toolchain: upgrade and update.

ToolSpec == ToolInit /\ [][ToolNext]_toolVars

\* A row to apply was behind what the plan saw.
RowsAreBehind == \A r \in todo : r.installed # r.latest

ToolInv == ToolTypeOK /\ RowsAreBehind

LEMMA BehindWhenPlanned ==
  ASSUME NEW only \in SUBSET Tools, NEW mute,
         NEW r \in build_plan(only, mute), r.state = "upgrade"
  PROVE  r.tool \in Tools /\ r.installed # r.latest
<1>1. CASE \E t \in only \cap BrewTools : r = brew_state(t, mute)
  <2>1. PICK t \in only \cap BrewTools : r = brew_state(t, mute)
    BY <1>1
  <2>2. r = Row(t, "upgrade", have[t], newest[t]) /\ have[t] # newest[t]
    BY <2>1 DEF brew_state, Row
  <2> QED BY <2>2 DEF Row
<1>2. CASE \E t \in only \cap NpmTools : r = npm_state(t, mute)
  <2>1. PICK t \in only \cap NpmTools : r = npm_state(t, mute)
    BY <1>2
  <2>2. r = Row(t, "upgrade", have[t], newest[t]) /\ have[t] # newest[t]
    BY <2>1 DEF npm_state, Row
  <2> QED BY <2>2 DEF Row
<1>3. CASE \E t \in only \cap PipTools : r = pip_venv_state(t, mute)
  <2>1. PICK t \in only \cap PipTools : r = pip_venv_state(t, mute)
    BY <1>3
  <2>2. r = Row(t, "upgrade", have[t], newest[t]) /\ have[t] # newest[t]
    BY <2>1 DEF pip_venv_state, Row
  <2> QED BY <2>2 DEF Row
<1> QED BY <1>1, <1>2, <1>3 DEF build_plan

LEMMA ToolInitial == ToolInit => ToolInv
  BY ToolAssumption DEF ToolInit, ToolInv, ToolTypeOK, RowsAreBehind

LEMMA PlanKeeps ==
  ASSUME ToolInv, NEW apply \in BOOLEAN, NEW only \in {Tools, BrewTools}, NEW mute,
         upgrade_command(apply, only, mute)
  PROVE  ToolInv'
<1>1. PICK rows : /\ rows = {r \in build_plan(only, mute) : r.state = "upgrade"}
                  /\ todo' \subseteq rows
                  /\ verdict' \in {"current", "applying", "available"}
  BY DEF upgrade_command
<1>2. \A r \in todo' : r.tool \in Tools /\ r.state = "upgrade" /\ r.installed # r.latest
  BY <1>1, BehindWhenPlanned DEF Tools
<1>3. UNCHANGED <<have, newest, pinned>>
  BY DEF upgrade_command
<1> QED BY <1>1, <1>2, <1>3 DEF ToolInv, ToolTypeOK, RowsAreBehind

LEMMA ApplyKeeps ==
  ASSUME ToolInv, NEW row \in todo, NEW w \in BOOLEAN, NEW r \in BOOLEAN, NEW p \in BOOLEAN,
         NEW v \in have[row.tool]..newest[row.tool], apply_row(row, w, v, r, p)
  PROVE  ToolInv'
<1>1. row.tool \in Tools
  BY DEF ToolInv, ToolTypeOK
<1>2. have[row.tool] \in 0..MaxVersion /\ v \in 0..MaxVersion
  BY <1>1, ToolAssumption DEF ToolInv, ToolTypeOK
<1>3. have' \in [Tools -> 0..MaxVersion]
  BY <1>2 DEF apply_row, Installs, ToolInv, ToolTypeOK
<1> QED BY <1>3 DEF apply_row, ToolInv, ToolTypeOK, RowsAreBehind

LEMMA ToolOthersKeep ==
  ASSUME ToolInv,
         \/ \E ok, skip \in BOOLEAN : _gate(ok, skip)
         \/ \E t \in BrewTools, u, g, s, k \in BOOLEAN : update_command(t, u, g, s, k)
         \/ \E t \in Tools : Release(t)
         \/ \E t \in BrewTools : Pin(t)
  PROVE  ToolInv'
<1> USE DEF ToolInv, ToolTypeOK, RowsAreBehind
<1>1. CASE \E ok, skip \in BOOLEAN : _gate(ok, skip)
  BY <1>1 DEF _gate
<1>2. CASE \E t \in BrewTools, u, g, s, k \in BOOLEAN : update_command(t, u, g, s, k)
  <2>1. PICK t \in BrewTools, u, g, s, k \in BOOLEAN : update_command(t, u, g, s, k)
    BY <1>2
  <2>2. newest[t] \in 0..MaxVersion
    BY ToolAssumption DEF Tools
  <2>3. have' \in [Tools -> 0..MaxVersion]
    BY <2>1, <2>2 DEF update_command
  <2> QED BY <2>1, <2>3 DEF update_command
<1>3. CASE \E t \in Tools : Release(t)
  <2>1. PICK t \in Tools : Release(t)
    BY <1>3
  <2>2. newest' \in [Tools -> 1..MaxVersion]
    BY <2>1, ToolAssumption DEF Release
  <2> QED BY <2>1, <2>2 DEF Release
<1>4. CASE \E t \in BrewTools : Pin(t)
  BY <1>4 DEF Pin
<1> QED BY <1>1, <1>2, <1>3, <1>4

LEMMA ToolStep == ToolInv /\ [ToolNext]_toolVars => ToolInv'
<1> SUFFICES ASSUME ToolInv, [ToolNext]_toolVars PROVE ToolInv'
  OBVIOUS
<1>1. CASE UNCHANGED toolVars
  BY <1>1 DEF toolVars, ToolInv, ToolTypeOK, RowsAreBehind
<1>2. CASE \E a \in BOOLEAN, only \in {Tools, BrewTools}, m \in {{}, Calls} \cup {{c} : c \in Calls} :
             upgrade_command(a, only, m)
  BY <1>2, PlanKeeps
<1>3. CASE \E row \in todo, w, r, p \in BOOLEAN :
             \E v \in have[row.tool]..newest[row.tool] : apply_row(row, w, v, r, p)
  BY <1>3, ApplyKeeps
<1> QED BY <1>1, <1>2, <1>3, ToolOthersKeep DEF ToolNext

\* What the apply of one row reports as taken is what is there, or blank, and is
\* not what the plan had found there.
LEMMA AppliedIsReRead ==
  ASSUME ToolInv, NEW row \in todo, NEW w \in BOOLEAN, NEW seen \in BOOLEAN, NEW p \in BOOLEAN,
         NEW v, apply_row(row, w, v, seen, p),
         NEW r \in results' \ results
  PROVE  /\ r.now \in {0, have'[r.tool]} \cup (IF r.ok THEN {} ELSE {row.installed})
         /\ r.ok => r.now # row.installed
<1>1. row.tool \in Tools /\ row.installed # row.latest
  BY DEF ToolInv, ToolTypeOK, RowsAreBehind
<1>2. have \in [Tools -> 0..MaxVersion]
  BY DEF ToolInv, ToolTypeOK
<1> DEFINE ran == upgrade_command_for(row, w)
           there == Installs(row, v)
           now == IF ~ran THEN row.installed ELSE IF seen THEN there ELSE 0
           stuck == now = row.installed /\ now # row.latest
<1>3. r = [tool |-> row.tool, ok |-> ran /\ ~stuck /\ p, now |-> now]
  BY DEF apply_row
<1>4. have' = [have EXCEPT ![row.tool] = there]
  BY DEF apply_row
<1>5. have'[row.tool] = there
  BY <1>1, <1>2, <1>4
<1>6. CASE ran
  <2>1. now \in {0, there}
    BY <1>6
  <2>2. r.ok => now # row.installed
    <3> SUFFICES ASSUME r.ok PROVE now # row.installed
      OBVIOUS
    <3>1. ~stuck
      BY <1>3
    <3> HIDE DEF now
    <3> QED BY <1>1, <3>1
  <2> QED BY <1>3, <1>5, <2>1, <2>2
<1>7. CASE ~ran
  <2>1. ~r.ok /\ r.now = row.installed
    BY <1>3, <1>7
  <2> QED BY <2>1
<1> QED BY <1>6, <1>7

\* Types: what is installed, pinned and released, the plan and its results.
\* (commands/upgrade.py, commands/update.py)
THEOREM ToolTypes == ToolSpec => []ToolTypeOK
<1>1. ToolInv => ToolTypeOK
  BY DEF ToolInv
<1> QED BY <1>1, ToolInitial, ToolStep, PTL DEF ToolSpec

LEMMA ReReadStep ==
  ASSUME ToolInv, [ToolNext]_toolVars
  PROVE  [\A r \in results' \ results, row \in todo \ todo' : row.tool = r.tool =>
          /\ r.now \in {0, have'[r.tool]} \cup (IF r.ok THEN {} ELSE {row.installed})
          /\ r.ok => r.now # row.installed]_toolVars
<1>1. CASE results' \subseteq results
  BY <1>1
<1>2. CASE \E row \in todo, w, r, p \in BOOLEAN :
             \E v \in have[row.tool]..newest[row.tool] : apply_row(row, w, v, r, p)
  <2>1. PICK row \in todo, w \in BOOLEAN, seen \in BOOLEAN, p \in BOOLEAN :
               \E v \in have[row.tool]..newest[row.tool] : apply_row(row, w, v, seen, p)
    BY <1>2
  <2>2. PICK v : apply_row(row, w, v, seen, p)
    BY <2>1
  <2>3. todo \ todo' \subseteq {row}
    BY <2>2 DEF apply_row
  <2> QED BY <2>2, <2>3, AppliedIsReRead
<1> QED BY <1>1, <1>2 DEF ToolNext, toolVars, upgrade_command, _gate, update_command, Release, Pin

\* A row reported as taken shows the version that is there, or none, and has
\* moved; a failed one may show what the plan had seen. (apply_row, reprobe_version)
THEOREM ReReads == ToolSpec => OkIsReRead
<1> QED BY ToolInitial, ToolStep, ReReadStep, PTL DEF ToolSpec, OkIsReRead

---------------------------------------------------------------------------
\* Soak: the bar a module must clear.

SoakSpec == SoakInit /\ [][SoakNext]_soakVars

\* One loop, or one cron job's recorder, per module at a time.
OneRecorder == \A r, s \in Recorders : r = s

Result == [started : Nat, samples : Seq(Sample), there : BOOLEAN]

SoakTypeOK ==
    /\ result \in Result /\ kept \in Seq(Sample) /\ today \in 0..MaxDays
    /\ recAt \in [Recorders -> {"idle", "first", "write", "reload", "sleep", "again"}]
    /\ held \in [Recorders -> Result] /\ sample \in [Recorders -> Sample]
    /\ gateAt \in {"idle", "clean", "docs"} /\ days \in Int /\ counted \in Nat
    /\ earlier \in {"red", "amber", "green"} /\ soaked \in {"red", "amber", "green"}
    /\ exit \in {"none", "green", "amber", "not ready"}

\* The file holds every sample ever written; so does what a recorder is about to
\* write over it, save the sample it adds.
NothingDropped ==
    /\ result.samples = kept /\ (result.there \/ kept = <<>>)
    /\ \A r \in Recorders : recAt[r] \in {"first", "write"} =>
                            held[r].samples = kept /\ held[r].there

\* What the bar counted is in the file.
CountedIsKept == gateAt # "idle" => counted <= Len(kept)

Soaked ==
    /\ days >= min_days
    /\ \A i \in 1..counted :
         /\ ~kept[i].dirty
         /\ kept[i].pressure = "critical" => \E j \in i + 1..Len(kept) : kept[j].pressure = "normal"
\* A green soak was read whole.
GreenIsSoaked == gateAt = "docs" /\ soaked = "green" => Soaked

SoakInv == SoakTypeOK /\ NothingDropped /\ CountedIsKept /\ GreenIsSoaked

LEMMA SoakInitial == SoakInit => SoakInv
  BY SoakAssumption DEF SoakInit, SoakInv, SoakTypeOK, NothingDropped, CountedIsKept,
     GreenIsSoaked, NoResult, Untaken, Result, Sample

LEMMA LoadedIsKept ==
  ASSUME SoakInv
  PROVE  /\ _load_or_init \in Result /\ _load_or_init.samples = kept
         /\ _load_or_init.there
<1>1. CASE result.there
  BY <1>1 DEF _load_or_init, SoakInv, SoakTypeOK, NothingDropped
<1>2. CASE ~result.there
  <2>1. kept = <<>> /\ _load_or_init = [started |-> today, samples |-> <<>>, there |-> TRUE]
    BY <1>2 DEF _load_or_init, SoakInv, NothingDropped
  <2>2. today \in 0..MaxDays
    BY DEF SoakInv, SoakTypeOK
  <2> QED BY <2>1, <2>2, SoakAssumption DEF Result
<1> QED BY <1>1, <1>2

LEMMA KeptGrows ==
  ASSUME kept \in Seq(Sample), NEW s \in Sample, kept' = Append(kept, s)
  PROVE  /\ kept' \in Seq(Sample) /\ Len(kept) \in Nat /\ Len(kept') = Len(kept) + 1
         /\ \A i \in 1..Len(kept) : kept'[i] = kept[i]
  OBVIOUS

\* The steps of a recorder and of the day leave what the bar found.
LEMMA BarStays ==
  ASSUME SoakInv, UNCHANGED shipVars,
         kept' = kept \/ \E s \in Sample : kept' = Append(kept, s)
  PROVE  CountedIsKept' /\ GreenIsSoaked'
<1>0. kept \in Seq(Sample) /\ counted \in Nat /\ CountedIsKept /\ GreenIsSoaked
  BY DEF SoakInv, SoakTypeOK
<1>1. CASE kept' = kept
  BY <1>0, <1>1 DEF CountedIsKept, GreenIsSoaked, Soaked, shipVars
<1>2. CASE \E s \in Sample : kept' = Append(kept, s)
  <2>2. /\ Len(kept) \in Nat /\ Len(kept') = Len(kept) + 1
        /\ \A i \in 1..Len(kept) : kept'[i] = kept[i]
    BY <1>0, <1>2, KeptGrows
  <2>3. CountedIsKept'
    BY <1>0, <2>2 DEF CountedIsKept, shipVars
  <2>4. ASSUME gateAt = "docs", soaked = "green"
        PROVE  \A i \in 1..counted :
                 /\ ~kept'[i].dirty
                 /\ kept'[i].pressure = "critical" =>
                      \E j \in i + 1..Len(kept') : kept'[j].pressure = "normal"
    <3> TAKE i \in 1..counted
    <3>1. i \in 1..Len(kept) /\ kept'[i] = kept[i]
      BY <1>0, <2>2, <2>4 DEF CountedIsKept
    <3>2. ~kept[i].dirty /\ (kept[i].pressure = "critical" =>
              \E j \in i + 1..Len(kept) : kept[j].pressure = "normal")
      BY <1>0, <2>4 DEF GreenIsSoaked, Soaked
    <3>3. ASSUME NEW j \in i + 1..Len(kept), kept[j].pressure = "normal"
          PROVE  j \in i + 1..Len(kept') /\ kept'[j].pressure = "normal"
      BY <2>2, <3>1, <3>3
    <3> QED BY <3>1, <3>2, <3>3
  <2> QED BY <1>0, <2>3, <2>4 DEF GreenIsSoaked, Soaked, shipVars
<1> QED BY <1>1, <1>2

LEMMA RecorderKeeps ==
  ASSUME OneRecorder, SoakInv, NEW r \in Recorders,
         \/ run_soak(r) \/ _reload(r) \/ _sleep(r) \/ Interrupt(r)
         \/ \E dirty \in BOOLEAN, pressure \in {"critical", "normal"} : _collect_sample(r, dirty, pressure)
  PROVE  SoakInv'
<1>1. SoakTypeOK' /\ NothingDropped'
  <2> USE LoadedIsKept DEF SoakInv, SoakTypeOK, NothingDropped, OneRecorder, recorderVars, shipVars
  <2>1. CASE run_soak(r)
    BY <2>1 DEF run_soak
  <2>2. CASE _reload(r)
    BY <2>2 DEF _reload
  <2>3. CASE _sleep(r)
    BY <2>3 DEF _sleep
  <2>4. CASE Interrupt(r)
    BY <2>4 DEF Interrupt
  <2>5. CASE \E dirty \in BOOLEAN, pressure \in {"critical", "normal"} : _collect_sample(r, dirty, pressure)
    <3>1. PICK dirty \in BOOLEAN, pressure \in {"critical", "normal"} : _collect_sample(r, dirty, pressure)
      BY <2>5
    <3>2. [ts |-> today, dirty |-> dirty, pressure |-> pressure] \in Sample
      BY DEF Sample
    <3> QED BY <3>1, <3>2 DEF _collect_sample
  <2> QED BY <2>1, <2>2, <2>3, <2>4, <2>5
<1>2. UNCHANGED <<kept, shipVars>>
  BY DEF run_soak, _reload, _sleep, Interrupt, _collect_sample
<1> QED BY <1>1, <1>2, BarStays DEF SoakInv

LEMMA WriteKeeps ==
  ASSUME OneRecorder, SoakInv, NEW r \in Recorders, NEW once \in BOOLEAN, _atomic_write(r, once)
  PROVE  SoakInv'
<1> USE DEF SoakInv, SoakTypeOK, NothingDropped
<1>1. sample[r] \in Sample /\ held[r] \in Result /\ held[r].samples = kept
  BY DEF _atomic_write
<1>2. kept' = Append(kept, sample[r]) /\ kept' \in Seq(Sample)
  BY <1>1, KeptGrows DEF _atomic_write
<1>3. result' \in Result /\ result'.samples = kept'
  BY <1>1, <1>2 DEF _atomic_write, Result
<1>4. result'.there
  BY <1>1 DEF _atomic_write, Result
<1>5. recAt' \in [Recorders -> {"idle", "first", "write", "reload", "sleep", "again"}] /\ recAt'[r] \in {"idle", "sleep"}
  BY DEF _atomic_write
<1>6. SoakTypeOK'
  BY <1>2, <1>3, <1>5 DEF _atomic_write, shipVars
<1>7. NothingDropped'
  BY <1>3, <1>4, <1>5 DEF OneRecorder
<1>8. CountedIsKept' /\ GreenIsSoaked'
  BY <1>1, <1>2, BarStays DEF _atomic_write
<1> QED BY <1>6, <1>7, <1>8
LEMMA DaysTyped ==
  ASSUME kept \in Seq(Sample), result \in Result, result.samples = kept
  PROVE  DaysOf(result) \in Int
<1>1. CASE kept = <<>>
  BY <1>1 DEF DaysOf
<1>2. CASE kept # <<>>
  <2>1. Len(kept) \in 1..Len(kept)
    BY <1>2
  <2>2. kept[Len(kept)] \in Sample
    BY <2>1
  <2>3. result.started \in Nat
    BY DEF Result
  <2>4. kept[Len(kept)].ts \in 0..MaxDays
    BY <2>2 DEF Sample
  <2>5. DaysOf(result) = kept[Len(kept)].ts - result.started
    BY <1>2 DEF DaysOf, Last
  <2> QED BY <2>3, <2>4, <2>5, SoakAssumption
<1> QED BY <1>1, <1>2

LEMMA BarKeeps ==
  ASSUME SoakInv,
         \/ gate_soak
         \/ \E m \in Manifests : evaluate(m)
         \/ \E docs, demo, allow_amber \in BOOLEAN : render(docs, demo, allow_amber)
  PROVE  SoakInv'
<1>a. /\ kept \in Seq(Sample) /\ result.samples = kept
      /\ result \in Result /\ days \in Int /\ counted \in Nat
  BY DEF SoakInv, SoakTypeOK, NothingDropped
<1>b. Len(kept) \in Nat
  BY <1>a
<1>0. /\ kept \in Seq(Sample) /\ Len(kept) \in Nat /\ result.samples = kept
      /\ result \in Result /\ days \in Int /\ counted \in Nat
  BY <1>a, <1>b
<1>1. SoakTypeOK'
  <2> USE DEF SoakInv, SoakTypeOK, recorderVars
  <2>1. CASE gate_soak
    BY <2>1 DEF gate_soak
  <2>2. ASSUME NEW m \in Manifests, evaluate(m)
        PROVE  SoakTypeOK'
    <3>1. DaysOf(result) \in Int
      BY <1>0, DaysTyped
    <3>2. earlier' \in {"red", "amber", "green"}
      BY <2>2 DEF evaluate, overall
    <3> QED BY <1>0, <2>2, <3>1, <3>2 DEF evaluate
  <2>3. CASE \E docs, demo, allow_amber \in BOOLEAN : render(docs, demo, allow_amber)
    BY <2>3 DEF render, Verdict, overall
  <2> QED BY <2>1, <2>2, <2>3
<1>2. NothingDropped'
  BY DEF SoakInv, NothingDropped, recorderVars, gate_soak, evaluate, render
<1>3. CountedIsKept'
  <2>1. CASE \E m \in Manifests : evaluate(m)
    <3>1. counted' = Len(kept) /\ kept' = kept
      BY <2>1 DEF evaluate
    <3> QED BY <1>b, <3>1 DEF CountedIsKept
  <2>2. CASE gate_soak
    BY <2>2 DEF SoakInv, CountedIsKept, gate_soak
  <2>3. CASE \E docs, demo, allow_amber \in BOOLEAN : render(docs, demo, allow_amber)
    BY <2>3 DEF CountedIsKept, render
  <2> QED BY <2>1, <2>2, <2>3
<1>4. GreenIsSoaked'
  <2>1. CASE gate_soak
    <3>1. ASSUME soaked' = "green"
          PROVE  Soaked
      <4>1. Clean(result) /\ ~(days < min_days)
        BY <2>1, <3>1 DEF gate_soak
      <4>2. counted <= Len(kept)
        BY <2>1 DEF SoakInv, CountedIsKept, gate_soak
      <4>3. \A i \in 1..counted : i \in 1..Len(kept)
        BY <1>0, <4>2
      <4> QED BY <1>0, <4>1, <4>3, SoakAssumption DEF Clean, Soaked
    <3> QED BY <2>1, <3>1 DEF GreenIsSoaked, Soaked, gate_soak
  <2>2. CASE \E m \in Manifests : evaluate(m)
    BY <2>2 DEF evaluate, GreenIsSoaked
  <2>3. CASE \E docs, demo, allow_amber \in BOOLEAN : render(docs, demo, allow_amber)
    BY <2>3 DEF render, GreenIsSoaked
  <2> QED BY <2>1, <2>2, <2>3
<1> QED BY <1>1, <1>2, <1>3, <1>4 DEF SoakInv

LEMMA SoakStep == OneRecorder /\ SoakInv /\ [SoakNext]_soakVars => SoakInv'
<1> SUFFICES ASSUME OneRecorder, SoakInv, [SoakNext]_soakVars PROVE SoakInv'
  OBVIOUS
<1>1. CASE UNCHANGED soakVars
  BY <1>1, BarStays DEF soakVars, shipVars, recorderVars, SoakInv, SoakTypeOK, NothingDropped
<1>2. CASE Day
  <2>0. today \in 0..MaxDays
    BY DEF SoakInv, SoakTypeOK
  <2>1. today' \in 0..MaxDays
    BY <1>2, <2>0, SoakAssumption DEF Day
  <2>2. SoakTypeOK' /\ NothingDropped'
    BY <1>2, <2>1 DEF Day, shipVars, recorderVars, SoakInv, SoakTypeOK, NothingDropped
  <2> QED BY <1>2, <2>2, BarStays DEF Day, SoakInv
<1>3. ASSUME NEW r \in Recorders, NEW once \in BOOLEAN, _atomic_write(r, once)
      PROVE  SoakInv'
  BY <1>3, WriteKeeps
<1> QED BY <1>1, <1>2, <1>3, RecorderKeeps, BarKeeps DEF SoakNext

LEMMA ShipStep ==
  ASSUME SoakInv, [SoakNext]_soakVars
  PROVE  [exit' = "green" /\ exit # "green" =>
         /\ days' >= min_days
         /\ \A i \in 1..counted' :
              /\ ~kept[i].dirty
              /\ kept[i].pressure = "critical" => \E j \in i + 1..Len(kept) : kept[j].pressure = "normal"
       ]_soakVars
<1> SUFFICES ASSUME exit' = "green", exit # "green", SoakNext
             PROVE  /\ days' >= min_days
                    /\ \A i \in 1..counted' :
                         /\ ~kept[i].dirty
                         /\ kept[i].pressure = "critical" => \E j \in i + 1..Len(kept) : kept[j].pressure = "normal"
  BY DEF soakVars, shipVars
<1>1. PICK docs, demo, allow_amber \in BOOLEAN : render(docs, demo, allow_amber)
  BY DEF SoakNext, Day, gate_soak, evaluate, run_soak, _reload, _sleep, Interrupt, _collect_sample,
         _atomic_write, shipVars
<1>2. soaked = "green" /\ gateAt = "docs"
  <2>1. soaked' = "green"
    BY <1>1 DEF render, Verdict, overall, SoakInv, SoakTypeOK
  <2> QED BY <1>1, <2>1 DEF render
<1>3. Soaked
  BY <1>2 DEF SoakInv, GreenIsSoaked
<1> QED BY <1>1, <1>3 DEF render, Soaked

\* With one recorder at a time a module ships green only after its days, of which
\* every sample ever written was clean or recovered from, wherever recorders were
\* stopped and started again. (run_soak, evaluate)
THEOREM ShipsSoaked == OneRecorder /\ SoakSpec => ShipsWhatSoaked
<1> SUFFICES ASSUME OneRecorder PROVE SoakSpec => ShipsWhatSoaked
  OBVIOUS
<1>1. SoakInv /\ [SoakNext]_soakVars => SoakInv'
  BY SoakStep
<1> QED BY <1>1, SoakInitial, ShipStep, PTL DEF SoakSpec, ShipsWhatSoaked
==============================================================================
