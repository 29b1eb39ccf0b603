------------------------------ MODULE Onboard ------------------------------
(* sanctum onboard: the backup chapter, then the recipe's gates in order,     *)
(* chapter by chapter, then the recap; and the Setup Assistant's page, which  *)
(* writes the same files through the same helpers while the wizard waits for  *)
(* an answer.  (commands/onboard.py, commands/setup.py, config.py)            *)
(*                                                                            *)
(* A run may be killed between any two of its steps and started again.        *)
(* instance.yaml is rewritten in place, truncated first: a run killed between *)
(* the two leaves it torn.  Values are a few: a secret is the one the other   *)
(* side accepts ("right") or it is not.                                       *)
EXTENDS Naturals, Sequences, FiniteSets

CONSTANTS Recipes,      \* the recipes onboarded
          GearKinds,    \* kinds of network gear paired by an admin password
          BestEffort,   \* those whose connect() swallows a refused login
          MaxRuns,      \* runs of the wizard (bound)
          MaxYes        \* prompts answered with something to do, page actions,
                        \* edits of ~/.zshrc: what changes anything (bound)

ASSUME OnboardAssumption ==
    /\ Recipes \subseteq {"family", "operator", "code"}
    /\ BestEffort \subseteq GearKinds /\ MaxRuns \in Nat /\ MaxYes \in Nat
    /\ GearKinds \cap {"none", "claude", "gemini", "firewalla", "ha"} = {}
    /\ GearKinds \cap {"instance", "notify", "cloud", "policy"} = {}

AiKinds == {"claude", "gemini"}
Kinds == AiKinds \cup GearKinds
Bearers == {"firewalla", "ha"}        \* paired by a bearer token, checked before it is kept
Blocks == {"instance", "notify", "cloud", "policy"} \cup Kinds \cup Bearers
Pasted == {"none", "right", "wrong"}
Repos == {"s3", "rclone"}             \* how restic reaches the bucket (b2 needs keys as s3 does)
Outcomes == {"none", "verified", "skipped", "failed"}
Torn == {"torn"}                      \* a file cut short: what it holds does not parse

VARIABLES phase, recipe, yes, place, screen, kind, queue,  \* the run: where it is
          won, did, canary,        \* what it has earned and what it will say
          file, bak, written,      \* instance.yaml's blocks, or Torn, its .bak, every block it ever held
          blocks,                    \* the blocks a rewrite in progress has read
          keychain, mirror, proven, \* Keychain, 1Password item, kinds whose probe accepted a secret
          before,                  \* what the two held before the secret last stored
          tok,                     \* the bearer tokens in ~/.sanctum/secrets
          family, host,            \* devices.yaml; what is true of this Mac
          repo, latest, live,      \* the bucket, what its latest snapshot holds of ~/.zshrc, ~/.zshrc
          read,                    \* ~/.zshrc as the canary has read it
          runs, answers            \* counters under the bounds

run == <<phase, recipe, yes, place, screen, kind, queue, won, did, canary>>
NothingHeld == [keychain |-> "none", mirror |-> "none"]
yaml == <<file, bak, written, blocks>>
vault == <<keychain, mirror, proven, before>>
mac == <<family, host>>
cloud == <<repo, latest, live, read>>
onboardVars == <<run, yaml, vault, tok, mac, cloud, runs, answers>>

---------------------------------------------------------------------------
\* The gates of a recipe, in the order they run, and their chapters.

RECIPE_GATES ==
    [family   |-> <<"identity-setup", "family-setup", "ai-providers", "firewalla-pairing",
                    "firewalla-compat", "haus-scan", "network-gear", "wifi-identity",
                    "ha-green", "network-resilience", "mesh-join">>,
     operator |-> <<"identity-setup", "ai-providers", "wifi-identity", "network-resilience",
                    "mesh-join", "service-user-install">>,
     code     |-> <<"identity-setup", "ai-providers", "wifi-identity", "network-resilience",
                    "mesh-join">>]

_CHAPTER_GATES(c) ==
    CASE c = "You" -> {"identity-setup", "family-setup"}
      [] c = "Your AI" -> {"ai-providers"}
      [] c = "Your Network" -> {"firewalla-pairing", "firewalla-compat", "haus-scan",
           "network-gear", "wifi-identity", "ha-green", "network-resilience", "mesh-join",
           "service-user-install"}

_chapter_active_gates(c, r) ==
    LET member(g) == g \in _CHAPTER_GATES(c) IN SelectSeq(RECIPE_GATES[r], member)

Arc(r) == _chapter_active_gates("You", r) \o _chapter_active_gates("Your AI", r)
             \o _chapter_active_gates("Your Network", r)

Gate == Arc(recipe)[place]
AtGate(g) == phase = "gates" /\ screen = "ask" /\ Gate = g

\* (mutant) the recap comes one gate late
NextGateLate ==
    /\ place' = place + 1
    /\ phase' = IF place > Len(Arc(recipe)) THEN "done" ELSE "gates"
    /\ screen' = "ask" /\ kind' = "none" /\ queue' = {} /\ won' = {}
    /\ UNCHANGED <<recipe, yes, canary>>

\* The wizard's next gate, or the recap after the last.
NextGate ==
    /\ place' = place + 1
    /\ phase' = IF place = Len(Arc(recipe)) THEN "done" ELSE "gates"
    /\ screen' = "ask" /\ kind' = "none" /\ queue' = {} /\ won' = {}
    /\ UNCHANGED <<recipe, yes, canary>>

\* (mutant) a gate that ran interactively counts as one that did something
DidNothingAsked == NextGate /\ did' = IF yes THEN did ELSE did \cup {Gate}

\* A handler's answer: only what it persisted or verified is reported.
Did == NextGate /\ did' = did \cup {Gate}
DidNothing == NextGate /\ UNCHANGED did

\* The chapters the recap card calls "set up", "connected", "paired".
Recapped == {c \in {"You", "Your AI", "Your Network"} : did \cap _CHAPTER_GATES(c) # {}}

Answered == answers < MaxYes /\ answers' = answers + 1

---------------------------------------------------------------------------
\* instance.yaml: read, keep every block, .bak, rewrite in place.

Read == IF file = Torn THEN {} ELSE file
Rewrite(b) ==
    /\ bak' = file
    /\ file' = Read \cup b
    /\ written' = written \cup b /\ UNCHANGED blocks

\* The wizard's own rewrite, begun: a kill here leaves the file torn.
Truncate == blocks' = Read /\ bak' = file /\ file' = Torn /\ UNCHANGED written
\* ... and done, from what it had read.
Fill(b) == file' = blocks \cup b /\ blocks' = {} /\ written' = written \cup b /\ UNCHANGED bak

---------------------------------------------------------------------------
OnboardInit ==
    /\ phase = "idle" /\ recipe = "family" /\ yes = FALSE /\ place = 1 /\ screen = "ask"
    /\ kind = "none" /\ queue = {} /\ won = {} /\ did = {} /\ canary = "none"
    /\ file = {"instance"} /\ bak = {} /\ blocks = {} /\ written = {"instance"}
    /\ keychain = [k \in Kinds |-> "none"] /\ mirror = keychain /\ proven = {}
    /\ before = NothingHeld
    /\ tok = [b \in Bearers |-> "none"]
    /\ \/ family = "absent" /\ host = {}                            \* a new Mac
       \/ family = "broken" /\ host = {"stable", "dhcp", "service"}  \* one long in service
    /\ repo = "none" /\ latest = "none" /\ live = "first" /\ read = "none"
    /\ runs = 0 /\ answers = 0

\* config.ensure: a torn file does not load and the command ends there.
Begin(r, y) ==
    /\ phase \in {"idle", "done"} /\ runs < MaxRuns /\ file # Torn
    /\ phase' = "data" /\ screen' = "estimate" /\ recipe' = r /\ yes' = y /\ place' = 1
    /\ kind' = "none" /\ queue' = {} /\ won' = {} /\ did' = {} /\ canary' = "none"
    /\ runs' = runs + 1
    /\ UNCHANGED <<yaml, vault, tok, mac, cloud, answers>>

\* The run ends here: declined, failed, killed.  What it did stays.
Killed ==
    /\ phase \in {"data", "gates"} /\ phase' = "idle"
    /\ recipe' = "family" /\ yes' = FALSE /\ place' = 1 /\ screen' = "ask" /\ kind' = "none"
    /\ queue' = {} /\ won' = {} /\ did' = {} /\ canary' = "none"
    /\ blocks' = {} /\ before' = NothingHeld /\ read' = "none"
    /\ UNCHANGED <<file, bak, written, keychain, mirror, proven, tok, mac, repo, latest, live, runs, answers>>

---------------------------------------------------------------------------
\* "Your Data": estimate, cloud setup, dry run, backup, restore canary.

InData(s) == phase = "data" /\ screen = s
Goes(s) == screen' = s /\ UNCHANGED <<phase, recipe, yes, place, kind, queue, won, did>>

\* proceed?  (a no, and a setup error other than a missing restic, is Killed)
_dispatch_cloud_setup ==
    /\ InData("estimate")
    /\ \/ repo # "none" /\ "cloud" \in file /\ UNCHANGED <<yaml, repo, latest>>
       \/ /\ "cloud" \notin file
          /\ \E r \in Repos : repo' = r
          /\ latest' = "none" /\ Rewrite({"cloud"})
    /\ Goes("backup") /\ UNCHANGED <<canary, vault, tok, mac, live, read, runs, answers>>

_run_data_chapter_no_restic ==
    /\ InData("estimate") /\ "cloud" \notin file
    /\ phase' = "gates" /\ screen' = "ask" /\ canary' = "skipped"
    /\ UNCHANGED <<recipe, yes, place, kind, queue, won, did, yaml, vault, tok, mac, cloud, runs, answers>>

\* Of the built-in recipes only code leaves ~/.zshrc out.
backup_run ==
    /\ InData("backup")
    /\ latest' = IF recipe = "code" THEN "without" ELSE live
    /\ Goes("canary") /\ UNCHANGED <<canary, yaml, vault, tok, mac, repo, live, read, runs, answers>>

\* The environment restic needs: the passphrase, and for a bucket its keys.
\* The canary gives it the passphrase only; exported: the operator's shell has the keys.
Reaches(exported) == repo = "rclone" \/ exported

CanaryOutcome(exported) ==
    IF ~Reaches(exported) THEN "failed"
    ELSE IF latest = "without" THEN "skipped"
    ELSE IF latest = read THEN "verified" ELSE "failed"

\* ~/.zshrc is read, and then what restic restores of the latest snapshot is
\* compared with it: two minutes at most, in which the file may change.  A
\* locked Keychain or a restore past its time raises: the run ends (Killed).
_run_canary ==
    /\ InData("canary") /\ read' = live /\ Goes("restore")
    /\ UNCHANGED <<canary, yaml, vault, tok, mac, repo, latest, live, runs, answers>>

restore_canary ==
    /\ InData("restore") /\ read' = "none"
    /\ \E exported \in BOOLEAN : canary' = CanaryOutcome(exported)
    /\ phase' = "gates" /\ screen' = "ask"
    /\ UNCHANGED <<recipe, yes, place, kind, queue, won, did, yaml, vault, tok, mac, repo, latest, live,
                   runs, answers>>

\* Only an edit during this chapter is ever compared.
EditZshrc ==
    /\ phase = "data" /\ Answered /\ live' = (IF live = "first" THEN "second" ELSE "first")
    /\ UNCHANGED <<run, yaml, vault, tok, mac, repo, latest, read, runs>>

---------------------------------------------------------------------------
\* Gates.  --yes, a refusal, nothing entered, nothing found, a probe that
\* could not be read: the gate skips.  firewalla-compat only ever looks.
Skip ==
    /\ phase = "gates" /\ screen = "ask"
    /\ DidNothing /\ UNCHANGED <<yaml, vault, tok, mac, cloud, runs, answers>>

_run_identity_setup ==
    /\ AtGate("identity-setup") /\ ~yes /\ Answered
    /\ IF "notify" \in Read THEN UNCHANGED yaml ELSE Rewrite({"notify"})
    /\ Did /\ UNCHANGED <<vault, tok, mac, cloud, runs>>

\* A registry that does not load is left for the operator to fix.
_run_family_setup ==
    /\ AtGate("family-setup") /\ ~yes /\ Answered
    /\ IF family = "absent" THEN family' = "some" /\ Did
       ELSE (IF family = "broken" THEN DidNothing ELSE (Did \/ DidNothing)) /\ UNCHANGED family
    /\ UNCHANGED <<yaml, vault, tok, host, cloud, runs>>

\* --- secrets: stored first, because the probe reads them from the Keychain ---

\* A later item write may fail; the mapping the daily drift-sync follows still
\* lands, and mirrors what 1Password holds.
_mirror_to_trifecta(k, s) == \E m \in {mirror[k], s} : mirror' = [mirror EXCEPT ![k] = m]

store_device_secret(k, s) ==
    /\ before' = [keychain |-> keychain[k], mirror |-> mirror[k]]
    /\ keychain' = [keychain EXCEPT ![k] = s]
    /\ _mirror_to_trifecta(k, s) /\ UNCHANGED proven

\* (mutant) connect() that did not raise is proof enough
AcceptsByConnect(k, up) == k \in BestEffort \/ (up /\ keychain[k] = "right")

\* The other side answers and takes what the Keychain holds; a kind whose
\* connect() swallows a refusal is asked for auth_ok as well.
Accepts(k, up) == up /\ keychain[k] = "right"

_revoke_device_secret(k) == keychain' = [keychain EXCEPT ![k] = "none"] /\ UNCHANGED mirror

StartsOn(k) ==
    /\ screen' = "probe" /\ kind' = k
    /\ UNCHANGED <<phase, recipe, yes, place, won, did, canary>>

\* The gate's next item: the next provider asked for, the next device in the loop.
Continue(s, w) ==
    /\ screen' = s /\ kind' = "none" /\ won' = w
    /\ UNCHANGED <<phase, recipe, yes, place, queue, did, canary>>

\* --- ai-providers: Claude, then Gemini, then one write of what was verified ---

AskClaude == AtGate("ai-providers") /\ ~yes
AskGemini == phase = "gates" /\ screen = "gemini"

\* The subscription: no secret; the proxy answers or nothing is kept.
_run_claude_subscription ==
    /\ AskClaude /\ Answered
    /\ proven' = proven \cup {"claude"} /\ Continue("gemini", {"claude"})
    /\ UNCHANGED <<yaml, keychain, mirror, before, tok, mac, cloud, runs>>

_run_claude_api_key(s) ==
    /\ AskClaude /\ Answered /\ store_device_secret("claude", s) /\ StartsOn("claude")
    /\ UNCHANGED <<queue, yaml, tok, mac, cloud, runs>>

NoClaude ==
    /\ AskClaude /\ Continue("gemini", {})
    /\ UNCHANGED <<yaml, vault, tok, mac, cloud, runs, answers>>

_run_gemini(s) ==
    /\ AskGemini /\ Answered /\ store_device_secret("gemini", s) /\ StartsOn("gemini")
    /\ UNCHANGED <<queue, yaml, tok, mac, cloud, runs>>

NoGemini ==
    /\ AskGemini /\ Continue("settle", won)
    /\ UNCHANGED <<yaml, vault, tok, mac, cloud, runs, answers>>

_provider_health(up) ==
    /\ phase = "gates" /\ screen = "probe" /\ kind \in AiKinds
    /\ LET next == IF kind = "claude" THEN "gemini" ELSE "settle" IN
       IF Accepts(kind, up)
       THEN /\ proven' = proven \cup {kind} /\ Continue(next, won \cup {kind})
            /\ UNCHANGED <<keychain, mirror>>
       ELSE /\ _revoke_device_secret(kind) /\ Continue(next, won) /\ UNCHANGED proven
    /\ before' = NothingHeld
    /\ UNCHANGED <<yaml, tok, mac, cloud, runs, answers>>

set_provider_config ==
    /\ phase = "gates" /\ screen = "settle"
    /\ IF won = {} THEN DidNothing /\ UNCHANGED yaml
       ELSE Truncate /\ screen' = "fill"
            /\ UNCHANGED <<phase, recipe, yes, place, kind, queue, won, did, canary>>
    /\ UNCHANGED <<vault, tok, mac, cloud, runs, answers>>

\* --- haus-scan and network-gear: each found kind in turn ---

PairingGates == {"haus-scan", "network-gear"}

Found(S) ==
    /\ phase = "gates" /\ screen = "ask" /\ Gate \in PairingGates /\ ~yes /\ S # {}
    /\ screen' = "next" /\ queue' = S
    /\ UNCHANGED <<phase, recipe, yes, place, kind, won, did, canary>>
    /\ UNCHANGED <<yaml, vault, tok, mac, cloud, runs, answers>>

_run_network_gear(k, s) ==
    /\ phase = "gates" /\ screen = "next" /\ k \in queue /\ Answered
    /\ store_device_secret(k, s) /\ StartsOn(k) /\ queue' = queue \ {k}
    /\ UNCHANGED <<yaml, tok, mac, cloud, runs>>

PairingOver ==
    /\ phase = "gates" /\ screen = "next"
    /\ (IF won = {} THEN DidNothing ELSE Did)
    /\ UNCHANGED <<yaml, vault, tok, mac, cloud, runs, answers>>

_probe_device(up) ==
    /\ phase = "gates" /\ screen = "probe" /\ kind \in GearKinds
    /\ IF Accepts(kind, up)
       THEN /\ proven' = (IF up /\ keychain[kind] = "right" THEN proven \cup {kind} ELSE proven)
            /\ Truncate /\ screen' = "fill"
            /\ UNCHANGED <<phase, recipe, yes, place, kind, queue, won, did, canary, keychain, mirror>>
       ELSE /\ _revoke_device_secret(kind) /\ Continue("next", won) /\ UNCHANGED <<proven, yaml>>
    /\ before' = NothingHeld /\ UNCHANGED <<tok, mac, cloud, runs, answers>>

\* The second half of the in-place rewrite: of the provider blocks, or of devices.<kind>.
set_device_reference ==
    /\ phase = "gates" /\ screen = "fill"
    /\ IF kind = "none" THEN Fill(won) /\ Did
       ELSE Fill({kind}) /\ Continue("next", won \cup {kind})
    /\ UNCHANGED <<vault, tok, mac, cloud, runs, answers>>

\* --- firewalla-pairing and ha-green: checked first, block, then token ---

BearerGate(b) == IF b = "firewalla" THEN AtGate("firewalla-pairing") ELSE AtGate("ha-green")

_run_firewalla_pairing(b) ==
    /\ BearerGate(b) /\ ~yes /\ Answered /\ Truncate
    /\ screen' = "token" /\ kind' = b
    /\ UNCHANGED <<phase, recipe, yes, place, queue, won, did, canary, vault, tok, mac, cloud, runs>>

set_firewalla_bridge ==
    /\ phase = "gates" /\ screen = "token"
    /\ Fill({kind}) /\ tok' = [tok EXCEPT ![kind] = "right"] /\ Did
    /\ UNCHANGED <<vault, mac, cloud, runs, answers>>

\* A token already on disk that Home Assistant takes: only the block is written.
_run_ha_green_known ==
    /\ AtGate("ha-green") /\ ~yes /\ tok["ha"] = "right" /\ Answered
    /\ Rewrite({"ha"}) /\ Did
    /\ UNCHANGED <<vault, tok, mac, cloud, runs>>

\* --- the gates that ask this Mac and change it ---

\* Only a node classed a server is enrolled, or reported stable.  No profile is
\* written for a network whose name was not read (_write_identity_profile), and
\* the gate reports all the same; that write failing skips it.
_run_wifi_identity(klass, named) ==
    /\ AtGate("wifi-identity") /\ ~yes /\ Answered
    /\ IF klass # "server" THEN DidNothing /\ UNCHANGED host
       ELSE Did /\ host' = IF "stable" \in host \/ ~named THEN host ELSE host \cup {"profile"}
    /\ UNCHANGED <<yaml, vault, tok, family, cloud, runs>>

\* A static address is changed only with a spine, and believed changed only
\* when read again; the daemon is installed after (as root, else a hint).
_run_network_resilience(spine, takes, root) ==
    /\ AtGate("network-resilience") /\ ~yes /\ Answered
    /\ LET daemon == IF root THEN {"daemon"} ELSE {} IN
       IF "dhcp" \in host THEN Did /\ host' = host \cup daemon
       ELSE IF spine /\ takes THEN Did /\ host' = host \cup {"dhcp"} \cup daemon
       ELSE DidNothing /\ UNCHANGED host
    /\ UNCHANGED <<yaml, vault, tok, family, cloud, runs>>

\* Joined only when the tailnet is up and the tracker acknowledged.
_run_mesh_join(joined) ==
    /\ AtGate("mesh-join") /\ ~yes /\ Answered
    /\ IF joined THEN Did /\ host' = host \cup {"joined"} ELSE DidNothing /\ UNCHANGED host
    /\ UNCHANGED <<yaml, vault, tok, family, cloud, runs>>

\* Already running as sanctum is reported even under --yes; an install that
\* exits 0 is reported whatever the check after it finds.
_run_service_user_install ==
    /\ AtGate("service-user-install")
    /\ \/ "service" \in host /\ Did /\ UNCHANGED <<host, answers>>
       \/ "service" \notin host /\ ~yes /\ Answered /\ Did /\ host' = host \cup {"service"}
    /\ UNCHANGED <<yaml, vault, tok, family, cloud, runs>>

---------------------------------------------------------------------------
\* The Setup Assistant (sanctum setup): each answer is an action of its own,
\* served by its own thread whatever the wizard is doing.

\* identity.save, backup.save: a file that does not parse reads as no blocks.
PageSaves(b) ==
    /\ Answered /\ Rewrite({b})
    /\ UNCHANGED <<run, vault, tok, mac, cloud, runs>>

\* provider.save: store, probe, persist or revoke, in one request.  The
\* probe loads the configuration, so a torn file ends the request.
_act_provider(k, s, up) ==
    /\ Answered /\ file # Torn
    /\ IF up /\ s = "right"
       THEN /\ keychain' = [keychain EXCEPT ![k] = s] /\ proven' = proven \cup {k}
            /\ _mirror_to_trifecta(k, s) /\ Rewrite({k})
       ELSE /\ keychain' = [keychain EXCEPT ![k] = "none"] /\ _mirror_to_trifecta(k, s)
            /\ UNCHANGED <<proven, yaml>>
    /\ UNCHANGED <<run, before, tok, mac, cloud, runs>>

\* firewalla.save, ha.save: an empty token means the one on disk.
_act_bearer(b) ==
    /\ Answered /\ tok' = [tok EXCEPT ![b] = "right"] /\ Rewrite({b})
    /\ UNCHANGED <<run, vault, mac, cloud, runs>>

_act_family ==
    /\ Answered /\ family # "broken" /\ family' = "some"
    /\ UNCHANGED <<run, yaml, vault, tok, host, cloud, runs>>

---------------------------------------------------------------------------
OnboardNext ==
    \/ \E r \in Recipes, y \in BOOLEAN : Begin(r, y)
    \/ Killed
    \/ _dispatch_cloud_setup \/ _run_data_chapter_no_restic \/ backup_run \/ EditZshrc
    \/ _run_canary \/ restore_canary
    \/ Skip \/ _run_identity_setup \/ _run_family_setup
    \/ _run_claude_subscription \/ NoClaude \/ NoGemini
    \/ \E s \in {"right", "wrong"} : _run_claude_api_key(s) \/ _run_gemini(s)
    \/ \E up \in BOOLEAN : _provider_health(up) \/ _probe_device(up)
    \/ set_provider_config \/ set_device_reference
    \/ \E S \in SUBSET GearKinds : Found(S)
    \/ \E k \in GearKinds, s \in {"right", "wrong"} : _run_network_gear(k, s)
    \/ PairingOver
    \/ \E b \in Bearers : _run_firewalla_pairing(b)
    \/ set_firewalla_bridge \/ _run_ha_green_known
    \/ \E klass \in {"server", "roamer"}, named \in BOOLEAN : _run_wifi_identity(klass, named)
    \/ \E spine, takes, root \in BOOLEAN : _run_network_resilience(spine, takes, root)
    \/ \E joined \in BOOLEAN : _run_mesh_join(joined)
    \/ _run_service_user_install
    \/ \E b \in {"instance", "policy"} : PageSaves(b)
    \/ \E k \in AiKinds, s \in {"right", "wrong"}, up \in BOOLEAN : _act_provider(k, s, up)
    \/ \E b \in Bearers : _act_bearer(b)
    \/ _act_family

OnboardSpec == OnboardInit /\ [][OnboardNext]_onboardVars

---------------------------------------------------------------------------
OnboardTypeOK ==
    /\ phase \in {"idle", "data", "gates", "done"} /\ recipe \in DOMAIN RECIPE_GATES
    /\ place \in 1..(Len(Arc(recipe)) + 1) /\ (phase = "gates" => place <= Len(Arc(recipe)))
    /\ kind \in {"none"} \cup Kinds \cup Bearers /\ queue \subseteq GearKinds /\ won \subseteq Kinds
    /\ canary \in Outcomes /\ (phase \in {"gates", "done"} => canary # "none")
    /\ file \in (SUBSET Blocks) \cup {Torn} /\ bak \in (SUBSET Blocks) \cup {Torn}
    /\ \A k \in Kinds : keychain[k] \in Pasted /\ mirror[k] \in Pasted
    /\ runs \in 0..MaxRuns /\ answers \in 0..MaxYes

\* What stands behind a gate that says it did something.
Earned(g) ==
    CASE g = "identity-setup" -> "notify" \in written
      [] g = "family-setup" -> family = "some"
      [] g = "ai-providers" -> \E k \in AiKinds : k \in written \cap proven
      [] g = "firewalla-pairing" -> "firewalla" \in written /\ tok["firewalla"] = "right"
      [] g \in PairingGates -> \E k \in GearKinds : k \in written \cap proven
      [] g = "ha-green" -> "ha" \in written /\ tok["ha"] = "right"
      [] g = "wifi-identity" -> host \cap {"stable", "profile"} # {}
      [] g = "network-resilience" -> "dhcp" \in host
      [] g = "mesh-join" -> "joined" \in host
      [] g = "service-user-install" -> "service" \in host
      [] OTHER -> FALSE

\* The recap card says "set up", "connected" or "paired" of a chapter only for
\* gates that persisted what they say, or for the Wi-Fi identity's (see
\* IdentityIsKept), whatever was declined, refused, killed and run again, and
\* whatever the Setup Assistant did meanwhile.
RecapIsHonest ==
    phase = "done" => \A c \in Recapped : \A g \in did \cap _CHAPTER_GATES(c) :
                          g = "wifi-identity" \/ Earned(g)

\* "Returns True ONLY when the node's identity is a genuinely verified good/
\* handled state" (_run_wifi_identity): a server the gate reports is stable, or
\* has a profile waiting for it.
IdentityIsKept == "wifi-identity" \in did => Earned("wifi-identity")

\* A devices.<kind> or provider block is written only for a kind whose probe
\* has accepted a secret: a block is never a pairing nobody proved.
NoUnprovenReference == written \cap Kinds \subseteq proven

\* "FAILED: the canary RAN and the restore did NOT round-trip ... a real
\* backup-integrity problem" (CanaryOutcome): the latest snapshot does not hold
\* what ~/.zshrc held when the canary read it.
FailureIsIntegrity ==
    [][canary' = "failed" /\ canary # "failed" => latest # read]_onboardVars

\* "A rejected probe persists nothing": after a refusal the Keychain and
\* 1Password hold what they held before the secret was stored.
RejectedPersistsNothing ==
    [][screen = "probe" /\ screen' \notin {"probe", "fill", "ask"} /\ won' = won =>
          keychain'[kind] = before.keychain /\ mirror'[kind] = before.mirror]_onboardVars

\* "Every other block is preserved": what instance.yaml ever held is still
\* in it, or at least in its .bak.
SiblingsSurvive == file # Torn => written \subseteq file \cup (IF bak = Torn THEN {} ELSE bak)
=============================================================================
