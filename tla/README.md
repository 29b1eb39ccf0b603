# Verification of sanctum-cli

`sanctum` is a household's command line: it takes the household's network apart and puts it
back together (single-NAT cutover, net heal, link guard), ships files through a small mesh,
signals load between services (the endocrine system), backs up keys, onboards new machines, keeps
their services and tools, and seats a council of models. This directory holds TLA+ modules of its
control logic, TLC runs over small instances, and machine-checked proofs.

## Inventory

For each part: the state it keeps, its operations, how it meets the others, what is hard about
it, and what makes it correct. Paths are under `src/sanctum_cli/`.

| Part | State | Operations | Hard | Correct when |
|---|---|---|---|---|
| single-NAT cutover (`devices/flip.py`, `devices/intents.py`, `commands/net.py`) | the stages done, the captured leaves, the process's cached WAN address; nothing is persisted | `net single-nat --apply`, `--rollback`, `--check` | nine stages over three devices (hub, Firewalla, mini), a hub that reboots in the middle, leases that come late, a process that may die at any step | DMZ is engaged only with the armor in place and a way back in; "rolled back" and "recovered" are only said when true; the command comes back |
| device rails (`devices/rails.py`) | one snapshot, the audit log | `guarded_apply`: snapshot, confirm, change, verify, roll back | a change that raises half-way, a rollback that fails | restored means restored; a declined change moves nothing |
| hub provider (`devices/sagemcom.py`) | a session, the hub's leaves | `get`, `set`, `reboot`, `snapshot`, `rollback` | an answer lost after the write was applied; a dropped connection that means success | a refused write is never reported as done |
| armor and interlock (`devices/armor.py`, `devices/interlock.py`) | the hook on the Firewalla, the daemons on the mini | `stage`, `install`, `tailscale_oob_live` | a deploy that stops half-way; a probe that is stale when it is used | no DMZ without the hook |
| WAN probes (`net/detect.py`, `net/verify.py`, `net/system.py`) | the WAN cache of one process | `verify`, `classify_nat`, the caching runner | a cache that outlives what it caches | a verdict is about the WAN of that moment |
| other providers (`devices/orbi.py`, `firewalla.py`, `ha_green.py`, `registry.py`) | vendor sessions | reads; `orbi guest-wifi` writes through the rails | two leaves written in one change | as the rails |
| mesh (`mesh/*`, `commands/mesh.py`) | the tracker's registry: peers, catalog, seeders, credits; each node's identity file, champion pointer and artifact store; the inbox | `register`, `announce`, `find`, `pulse`, `community`; `join`, `status`, `seed`, `pull`, `send`, `receive` | announcements of the same content from several peers, peers that leave, a tracker that restarts empty, a replayed query, a fetch over several addresses that is interrupted | the champion a node adopts passed every gate; credit only for what was signed; only contributors get the invite; a saved parcel is the signed one |
| net heal (`net/heal.py`, `net/status.py`, `net heal`) | the attempts file, the kill-switch, the heartbeat line | probe, diagnose, plan, snapshot, act, re-probe, revert; the daemon's wrapper; its status row | an operator's heal beside the daemon's, a network that moves between two steps, a restart in the middle | a heal takes no router from a node that reached it; flapping is capped; a pause shows; what a lease cures is cured |
| link guard and home network (`net/link.py`, `net/home.py`, `link`, `home-net`) | the sampler's log, the profile file | install, sample, status, optimize | windows in which nothing came back, a node that roams between two reads | a dead link is never healthy; a portable node is not pinned unasked |
| tailnet (`net/tailnet.py`) | the policy on the server, the OAuth client in the Keychain | apply, creds, doctor, ssh | a console editing the same policy, a reply that is lost | what apply says of the policy is so; only a client that was proved is stored |
| endocrine (`endocrine/*`, `deploy/endocrine/*`) | the panel of hormone levels, the beat-seen stamp, the reaper's note, the timers' done flags, the levers | tick (a beat of a launchd job), outer timer, reaper, sentinel; `creative`, `calm`, `on`, `off` | a beat that hangs anywhere holds launchd's slot; four actors in real time over three files; pids that come back; two writers of one file | no beat costs more than itself; no beat is killed early; a stopped loop is noticed |
| backup and key custody (`backup`, `keys`, `keychain`, `backends/*`) | two slots of `instance.yaml`, the Keychain's entries, the repositories, the exported bundle; the GitHub clone | four wizards, backup, verify, restore, rotate, export, import | a wizard that stops half-way, a repository a former Mac left, a clone that outlives its run | what a slot names opens; the passphrase outlives every wizard; no credential is pushed |
| onboarding, setup (`onboard`, `setup`) | `instance.yaml` and its `.bak`, Keychain and 1Password items, token files | the backup chapter, twelve gates, the recap; the Setup Assistant's page beside it | killed between any two steps and run again, a file cut short, a secret that is wrong | the recap says only what was proved; "verified" means restored |
| upgrade, uninstall, modules (`upgrade`, `update`, `uninstall`, `module`) | the installed versions; the module's manifest and secrets | plan, apply, read back; install, uninstall | a manager that exits 0 having done nothing, or says nothing; pins and releases between plan and apply | a version reported was read back |
| nodes (`node`, `hive/*`) | the automation key pair, the roster of `instance.yaml` and its `.bak` | bootstrap, adopt, declare, ensure, resolve, route | two consoles rewriting one file, a pair minted again in the middle of an adoption | an adopted Mac held the key; a peer shown offline is not routed to; a row lost to another console is in the backup |
| service users, agents (`service_user.py`, `agent`) | plists in three directories, what launchd has loaded | install, check, start, stop, restart | logins and reboots between two steps, an install that died and is run again, a bootout nobody reads | no service runs twice; the operator's own plist is kept |
| dead man's switch, screen time (`deadman`, `screentime`) | one file in a repository, a key per host and check | beat | racing writers, a lost answer | no write of one key loses another's |
| council, brainstorm, bridge (`brainstorm`, `council`, `bridge`) | the seats' results; the transcript, the audit ledger | poll, re-poll, verdict; turns with tool calls | seats in parallel over one lock, fallbacks, a proxy that answers for another model; malformed calls | no other model is counted for a seat; one request at a time is on the box; no unaudited tool result is used |
| proxy, providers, routing (`proxyd.py`, `router.py`) | none to speak of | choose a provider | a provider that fails | falls back in order |
| soak, ship gates (`soak/harness.py`, `ship_gates.py`, `commands/ship.py`) | one result file per module | record (loop or cron), six gates, the verdict | a bar that reads the result twice while it is written | ships only what soaked clean for its days |
| shell and diagnostics (`cli.py`, `doctor`, `self-test`, `status`) | none | parse, probe, render | - | - |

How they meet: every command is one process that builds its providers and runners, calls the
devices or services, and ends; devices and files are what persists. The daemons (heal, gland,
sentinel, tracker) are the exception. Commands meet in files: `instance.yaml` (mesh, hive,
onboarding, backup wizards), the Keychain, launchd's directories. The cutover is the part where a
wrong order of steps costs most: it can leave a household without internet and its operator without
a way back in.

## The plan and where it stands

| | Item | State |
|---|---|---|
| 1 | single-NAT cutover and the rails it goes through | modelled, checked, proved |
| 2 | mesh: registry, node commands, adopt pipeline; parcels | modelled, checked, proved (parcels: one receive at a time) |
| 3 | net heal, link guard, tailnet | modelled, checked, proved |
| 4 | endocrine gland: beats, timers, reaper, sentinel | modelled, checked, proved |
| 5 | backup slots and key custody, the GitHub tier | modelled, checked, proved |
| 6 | upgrade, modules, uninstall | modelled, checked, proved |
| 7 | nodes, service users, onboarding, dead man's switch | modelled, checked, proved |
| 8 | council and brainstorm | modelled, checked, proved |
| 9 | soak and ship gates | modelled, checked, proved (one recorder at a time) |
| | left: `orbi guest-wifi` as a second user of the rails, the gland's levers, the remote installers, `commands/net.py`'s forwarding and DNS | |

"Proved" is of the safety properties; liveness is checked by TLC only.

## The modules

| Module | What it is |
|---|---|
| `FlipBrain` | the pure decision functions of the cutover: stage order, settle poll, retry bound, poison gate, interlock, NAT classification and verdict |
| `GuardedChange` | the contract of `rails.guarded_apply`, with everything about how a change runs left out |
| `HubCutover` | `net single-nat --apply`, `--rollback` and `hub set` step by step, with the house they run in |
| `TrackerRegistry` | the tracker's registry as a record and its operations as operators |
| `Mesh` | one machine's mesh commands from any number of terminals, its files and its sandbox VM, and the tracker other nodes use as well |
| `Parcel` | `mesh receive`: chunks over several addresses into one partial file |
| `GlandBeat` | the endocrine gland's launchd job, its beats with their deadlines, the reaper and the sentinel, in discrete time |
| `NetHeal` | the heal daemon, an operator's heal beside it, the network they run in, the status row |
| `LinkGuard` | the link sentinel and its verdict, the node's class, the enrolment in a profile |
| `TailnetAcl` | the tailnet policy's push and verification, the OAuth client's custody, doctor and ssh |
| `Hive` | the automation key pair, adoption, the roster under concurrent rewrites, resolve and route |
| `Onboard` | the onboarding wizard's arc and the Setup Assistant's page over the same files |
| `ServiceHost` | service-user install, agent commands, module install, uninstall over launchd |
| `Toolchain` | upgrade's plan, apply and read-back; update behind its gate |
| `CloudSlots` | the wizards of the backup slots, backup and restore, rotate, export and import of the Keychain |
| `TierZero` | the GitHub wizard's clone, its two scans, commit and push |
| `Deadman` | heartbeats of several hosts into one file under the hash they read |
| `Soak` | the soak recorder and the ship bar |
| `Council` | brainstorm's poll: lanes, retries, fallback, provenance, re-polls |
| `Chamber` | a council turn: the tool loop, its audit, cap and breaker; the transcript |
| `MCHubCutover`, `MCMesh`, `MCGlandBeat`, `MCHive` | one component's instance for TLC |
| `MCNet`, `MCHost`, `MCCouncil` | several components' instance: one *scene* at a time, see below |
| `HubCutoverProofs`, `MeshProofs`, `GlandBeatProofs`, `HiveProofs` | one component's theorems |
| `NetProofs` | the theorems of `NetHeal`, `LinkGuard`, `TailnetAcl`, `Parcel` |
| `HostProofs` | those of `Onboard`, `ServiceHost`, `Toolchain`, `Soak` |
| `CustodyProofs` | those of `CloudSlots`, `TierZero`, `Deadman` |
| `CouncilProofs` | those of `Council`, `Chamber` |

`HubCutover` uses `FlipBrain` and refines `GuardedChange`; `Mesh` is built over `TrackerRegistry`.
The components of `MCNet` share no state in the code, nor do those of `MCHost` and `MCCouncil`:
the scene is picked in the initial state and only its component moves, so the states add up rather
than multiply, and nothing is lost, since no action of one reads a variable of another.

### HubCutover and the code

The **house** is what the process cannot control: the hub's configured leaves (`leaf`), whether
passthrough is in force (`latched`: a leaf counts only from the next boot on), whether the hub is
up, about to restart or down (`hub`), the Firewalla's lease (`wan`), the recovery channel (`oob`)
and whether the /32 hook is on the box (`armor`). `House` moves it at any time: leases change, the
hub goes down and boots, the channel comes and goes.

The **process** is one command at a time; `pc` is the step it is at. Its locals (`done`, `snap`,
`todo`, `failed`, `elapsed`, `cache`) vanish when it returns or is killed, as they do in the
code, where nothing is persisted; what it did to the house stays. `outcome` is what the operator
was last told (the audit line and the exit).

| Step | Code |
|---|---|
| `StartApply`, `Gate` | `net_single_nat`: live gate, preflight and `requires_slash32_armor`, then `_out_of_band_reachable`, `flip.gate_ok` and the hub session |
| `StartRollback` | `_net_single_nat_rollback` with `disengaged_baseline_snapshot` |
| `StartSet`, `SetLeaf` | `hub_set`; `--no-rollback` is the outcome `left_in_place` |
| `Snapshot`, `Confirm` | the first two gates of `guarded_apply` |
| `Walk` | the loop of `single_nat_dmz` over `flip.next_stage`: skipped stages, the interlock before `enable_dmz`, the commit |
| `WanDhcp`, `RbRelease` (`Ride`) | `_ride_dark_window` around a box operation |
| `StageArmor`, `ApplyArmor` | `SinglenatArmorInstaller.stage`, `.install` |
| `Interlock` | `_assert_interlock` with the live probe |
| `EnableDmz`, `RbLeaf` (`HubSet`) | `SagemcomHubProvider.set`, also from its `rollback` |
| `HubReboot`, `RbReboot` (`HubRebootRequest`) | `SagemcomHubProvider.reboot` |
| `ObserveLease`, `PoisonGate`, `LeaseVerifier` | `_observe_lease`, `_assert_wan_not_poisoned`, the stage's own probe: three reads of the WAN at three moments |
| `Verify`, `RbCheck` (`VerifyWan`, `RunnerReads`) | `net.verify.verify` over the caching runner, for the verify stage and `_verify_recovered_double_nat` |
| `Arm` | the `armor_arm` box operation |
| `Unwind`, `RbLeavesDone` | `_handle_failure` and `_DmzRollbackProvider.rollback` |
| `Return` | the end of the command, its result and its audit line |
| `Crash` | the process is killed; no handler runs |

Abstractions: addresses are the seven classes the code tells apart (`FlipBrain`); a leaf is
engaged or not; a box deploy is one action that may fail before or after the hook is wired; the
time a stage takes is counted only where the code has a deadline. External to the source, and
modelled from how it is used: the hub's boot, the DHCP client and the ISP (`LeaseOffers`), the
second hop a traceroute shows (`Hop2`, read by `parse_hop2`).

### Mesh and the code

The **tracker** is `registry` (the six fields of `TrackerRegistry` that the commands depend on)
and its `clock`. Its handlers run to completion on one event loop and never wait between reading
and writing the registry, so each is atomic (`Carry` for register and announce, `Answer` for
community). `Restart` empties it: nothing is persisted. A request (`Send`) is answered, or fails
with its sender none the wiser: not carried out, carried out, or still on its way (`late`,
`LateArrives`); that is what `_send` makes of a timeout. `OtherNode` is another node's register,
announce (a champion it signed, or a manifest that does not verify and names anyone), or signed
challenge. `Replay` delivers a challenge late or again.

The **machine** is `identity` (the key file: absent, truncated or a key), `conf` (of
`instance.yaml`: whether the settings outside the mesh block are still there, the champion, the
label) and `vm` (which champion is in the sandbox's directory). A **command** runs at a terminal;
`pc`, `cmd` and `loc` are its step, its name and its locals, and a crash loses them.

| Step | Code |
|---|---|
| `Begin`, `TribeRefused` | the command's entry in `commands/mesh.py`; `guard_tribe_join`, `_run_tribe_up` |
| `Ensure`, `Mint`, `MintWrite`, `AfterEnsure` | `MeshIdentityStore.ensure`, `_mint`, `_write_0600`: the check, the truncating open and the write are three moments |
| `JoinRegister`, `JoinPeers`, `JoinCatalog`, `JoinFails` | `join_mesh`; a tribe join goes on without its tracker |
| `StatusCatalog` (`Hint`), `StatusPeers` | `mesh_status` |
| `SeedGate`, `SeedAnnounce` (`OwnManifest`) | `seed_command`, `seed`, `build_manifest` |
| `CommunitySign`, `CommunityAsk` | `community_command` and the tracker's `community` |
| `Find`, `HashGate`, `SignatureGate`, `EvalGate`, `Ship`, `SandboxGate`, `Promote` | `pull_champion` and `adopt` over the adapters; every look at the artifact store sees whatever is there at that moment; the copy to the VM and the probe are two moments |
| `ReadConf`, `TruncateConf`, `WriteConf` (`Updated`) | `_record_champion`, `_persist_mesh_config` |

Abstractions: a signature is one bit (does it verify under the key it names), an eval score is
whether it beats the baseline, lists of peers and seeders are sets. `heard`, `acked`, `vended`,
`cleared` and a pull's `passed` only observe: no guard reads them.

### GlandBeat and the code

`beat` is the process launchd tracks: its step, pid, age, inner alarm and exit code. `timers` are
the outer timers asleep, processes of their own; `flags` the done files in `$TMPDIR`; `seen` the
file `reaper-seen`; `stamp` the age of `beat-seen`; `panel` what a reader makes of `panel.json`
and its age; `sent` the run of the sentinel. `next` is the time since launchd's interval fired.
`Tick` lets one unit pass for all of them. A timer that is due, a look of the reaper that is due
and launchd's interval come before the next `Tick`; a beat never has to take a step.

| Step | Code |
|---|---|
| `Load`, `Unload`, `Interval` | launchd over `haus.sanctum.endocrine-gland.plist`: `RunAtLoad`, the `TERM` of a bootout, `StartInterval` without overlap |
| `Arm`, `NoteBeat`, `Start` | `endocrine-tick.sh` up to `sanctum endocrine tick`; before `Arm` the beat may still be `xpcproxy` |
| `EnterTick`, `Republish`, `Publish`, `Broadcast`, `Alarm`, `Raises` | `tick_cmd` under `bounded_tick`, over `gland_daemon` and `bloodstream` |
| `TouchFlag`, `StopTimer`, `Finish` | `finish` |
| `TimerWakes` | the forked timer after its sleep |
| `ReaperIdle`, `ReaperUnloaded`, `ReaperSees` | one run of `endocrine-tick-reaper.sh` |
| `SentinelReads`, `SentinelJudges` (`Diagnose`), `ConfirmByLib`, `ConfirmInProcess`, `SentinelPages` | `main` of the sentinel, with `read_panel` and `gland_status` at different moments against one `NOW` |

`LabelsAgree` says whether the reaper and the sentinel ask launchctl for the label the gland's job
has; each takes it from the environment or a default.

Abstractions: the levels are fine, readable but pathological, unparseable, or no file. A run of the
reaper is one action; a look that fails (launchctl does not answer) is no look, and `Sight` is the
longest time without one. A bootout removes the beat at once (launchd waits for it, and kills it
if it does not go). The kernel gives pids out in turn, so the beat that `Load` starts has none that
a timer or the reaper still holds; the interval is under no such restriction, the proof shows it
needs none. A pid given to a process that is no beat is outside the model. So is a clock that jumps.

### NetHeal and the code

The network is `here`, `gwUp`, `dhcpUp`, `route`, `spine` and the Wi-Fi service's `cfg`; `Nature`
moves it at any time. `attempts`, `disabled` and `beat` are the wrapper's files. `run` holds, for the
daemon and for an operator, the step, the snapshot and the token; a restart or `--install` ends them.

| Step | Code |
|---|---|
| `Probe` (`diagnose_posture`, `plan_heal`) | `probe_posture`, diagnosis and plan of `net_heal`; a reading may be empty |
| `Snapshot`, `Act`, `Verify`, `Revert` | the rest of `net_heal`, with `_heal_reprobe_healthy`'s tries |
| `WrapperStops`, `WrapperRuns`, `Record` | `HEAL_WRAPPER`: kill-switch, cap, the token it greps, the heartbeat |
| `InstallDaemon`, `Restart` | `_install_heal_daemon`; launchd |
| `DaemonRow` | `net.status._daemon_row` |

An address is the network it belongs to. Every command may fail: one that reads prints nothing, and
one that changes the interface (`Act`, `Revert`) has done nothing, which `link._real_run` does not
report (8 seconds, errors swallowed, the exit code unread). Each failure spends a move of the bound.
`flaps`, `offActs` and a run's `had` and `stuck` only observe.

### LinkGuard, TailnetAcl, Parcel and the code

`LinkGuard`: `Sample` is one window of `SENTINEL_SCRIPT`, its line one of the kinds `parse_log`
tells apart; `link_status` reads the log back through `parse_log` and `classify`; `link_optimize`
(`_signals`, `Enrolls`, `_write_profile`) reads the node, its class and the network one after the
other, and the node may `Join` another in between. `TailnetAcl`: `tailnet_apply`, `_validate`,
`_back_up`, `_push`, `_verify` are the moments of `tailnet apply`, `tailnet_creds` with `_scopes`
and `_store_creds` those of `creds`; `EditLive` is the server's console. Every call may lose its
reply (`Codes`). What `diff_acl` makes of two policies is left open: it strips comments, blanks and
trailing commas with expressions that do not know strings, so a policy may be found in sync with
another one, and not with itself as the server renders it. `Alike` is that relation, any relation.
`Parcel`: `receive_parcel`, `_open`, `_chunk`, `_fetch_ends`, `_replace` over files
with an identity of their own, so a handle goes on writing into a file whose name was taken.

### Hive and the code

A pair of keys is a number; `_generate_automation_key` mints, `LoseKey` drops a half, and
`node_bootstrap_script` puts the public half into an artifact that `RunBootstrap` installs on a Mac
later. An adoption is `AdoptBegins`, `AdoptReach`, `_probe_auth`, `_probe_identity`,
`_probe_key_hygiene`, `AdoptLoads`, `BacksUp`, `Opens`, `WriteRoster`, `ReadBack`; `declare-peer`
and `ensure-hub` share the writing. No lock is held from load to write, in the code or here, and the
text there goes to `.bak`, the file is emptied, and the copy is written at three moments; a command
that stops between the last two (`WriteFails`) leaves no row. The readers `resolve_node_address` and
`pick_node` are operators that return the set of answers a console may get, over every roster
reached. A row's host is a bare stem, or one of `Literals`: a dotted name, whose first label
(`StemOf`) the status may know, or an address, of which it knows nothing.

### Onboard and the code

`_run_data_chapter`'s branches come first (`_dispatch_cloud_setup`, `backup_run`, `_run_canary`),
then the gates of the recipe in the order of `Arc`, each with the steps that ask, store, probe, keep
or revoke. A secret is "right" if the other side accepts it. `Truncate` and `Fill` are the two
moments of a rewrite of `instance.yaml`, `Killed` may come between any two steps, and the page
(`PageSaves`, `_act_provider`, `_act_bearer`, `_act_family`) acts while the wizard waits for an
answer. The canary reads `~/.zshrc`, restores, and compares with what it had read (`_run_canary`,
`restore_canary`); the file may be edited in between. A server's Wi-Fi identity gate reports a
profile whether or not there was a network's name to write it for (`_run_wifi_identity`).

### ServiceHost, Toolchain and the code

`ServiceHost`: where a plist is (agents, shelved, daemons, the copy taken before) and what launchd
has loaded (`gui`, `system`). The install is `_ensure_group_and_user`, for each service `_backup_once`
(the copy's file is opened), `Copied`, `Truncated` (the plist is), `_install_plists` and `_bootstrap`,
then `_shelve_agents`, with `Die`, `Login` and `Reboot` between any two of them. A plist cut short is
`"partial"`. A bootout nobody reads may do nothing (`BootoutFrom`); `clung` observes which agents an
install left running so.
`agent_*`, `install_module`, `uninstall_module` and `uninstall_command` are one action each.
`Toolchain`: `upgrade_command` plans from what each manager says (a manager may be mute),
`apply_row` takes one row, with what the manager claims, what moved, and what the read-back sees
apart (a command that failed, or ran out of time, may have moved the tool all the same: `Installs`);
`update_command` is the CLI's own path behind `_gate`.

### CloudSlots, TierZero, Deadman, Soak and the code

`CloudSlots`: a wizard is `_preflight`, its account and bucket, `_store_id`, `_store_secret`,
`_passphrase`, `_restic_init`, `_round_trip`, `_persist`, and may stop at any of them. A Drive
wizard writes the primary slot twice, first with a B2 repository that is nobody's (`Placeholder`),
then over it (`_override_repo`). `keychain_rotate`, `keys_backup_command`, `keys_restore_command`
and the backup commands run between wizards. `TierZero`: the clone's tree, index and commits;
`_copy_dotfiles`, `_prescan`, `_add`, the staged scan with `_commit`, `_push`, with other hands in
the clone at any time (`DropFile`). The scan reads the clone's files and not what was staged;
`slipped` observes which ones changed between the two. `Deadman`: `beat`, `_read_remote`, `_put`,
where the answer to a write that was taken may be lost. `Soak`: a recorder's load, sample, reload
and atomic write, stopped anywhere; `evaluate` with its two reads of the result, one in `gate_soak`
and one in `render`.

### Council, Chamber and the code

`Council`: a seat is queued, waiting for its lane, asking, awaiting health, or done; its budget is
ample, scant or gone (scant: no retry is started any more). `_one` and `_lane` are the scheduler,
`Ask` and the outcomes `_timeout`, `_answered`, `_again`, `_failed`, `_dropped` the attempts,
`_fallback` the flagged second model, `_repoll` the serial re-poll, `brainstorm_command` the verdict.
A seat whose fallback failed, or never had its turn, reports what its own model did (`Fallbacks`: one
that had timed out is `"late"`). `points` says which weights are really behind a proxy entry: those
of a family, hosted ones, or ones of no family the table knows (`"unlisted"`), which `Real` passes.
`Chamber`: one turn's reply is a
sequence of blocks (a call, a malformed call, one without a name); `run_tool` runs and audits,
`_budget_hit`, `Broken` and `MAX_TOOL_LOOP_ITERATIONS` end the loop.

## What is checked

Run `cutover` (`MCHubCutover.cfg`): three commands in any order and mix, a settle window and a
ride of two ticks. Three commands are what it takes to start a cutover over what a crashed one
left behind and to undo the result; two ticks are one retry, one more, and the end of the window.
Every lease class, both playbooks (armored or not) and both channel states occur. 391,082 states.

| Property | What it says |
|---|---|
| `ArmoredBeforeEngaged` | the moment DMZ is written the hook is on the box, if the playbook needs it |
| `UnwindsOverRestoredLeaves` | no reboot or re-lease of the unwinding over a leaf that is not what was captured |
| `CommittedStands` | a committed cutover has DMZ engaged and its armor in place |
| `RecoveryIsReal` | a stand-alone rollback that reports a recovery has found a double-NAT WAN over disengaged leaves |
| `ImplementsGuardedChange` | the commands implement `GuardedChange`: captured before changed, untouched when declined, reported restored only when restored |
| `CommandEnds` | a running command ends, or waits at the prompt |

Deadlock is not checked: with the command budget used up and no command running only the house
moves, and the process really may stop.

**Fairness.** `WF_vars(Process)`: every call the process makes carries a timeout (the SSH and
subprocess timeouts of `net/system.py` and `devices/armor.py`, the HTTP session of the hub), so
the process always takes its next step. Nothing else is fair: the operator need not answer, the
house need not recover, nobody has to start a command. `CommandEnds` therefore holds of a hub
that never comes back. `RecoveryIsReal` is stated of the stand-alone rollback, whose process has
read nothing before; for the rollback inside a failed cutover it does not hold, and `recheck` shows
why.

Run `mesh` (`MCMesh.cfg`): two commands of any kinds over two terminals, two requests of another
node, one champion, a clock of one tick with a window of one, and a node whose clock is right or
two ticks ahead. Two commands are what any race here takes (two mints, two rewrites of
`instance.yaml`, a pull over a seed); two requests are a replacement of a manifest this machine
announced and one more; the two clocks make a challenge fresh or too early. 1,511,268
states, modulo the symmetry of terminals and own keys.

| Property | What it says |
|---|---|
| `CreditIsEarned` | contributors are exactly the keys that signed a manifest stored since the tracker started |
| `AcknowledgedStands` | what the tracker acknowledged to this machine stands until it restarts, whatever is announced or arrives afterwards |
| `RefusalRevealsNothing` | the answer to a caller does not depend on what it has not proved a right to know |
| `InviteIsEarned` | an invite is for a signed challenge within the window, replayed or not, and a contributing key |
| `ChampionWasGated` | the local champion passed every gate of one pull, whatever the mix of pulls, joins and stale rewrites |

`ChampionWasGated` counts the sandbox gate as passed when a probe completed without egress;
whose champion that probe ran is another question (below). Liveness is not stated: rsync, ssh and
the eval runner carry no timeout, so no fairness of a pull is justified. Deadlock is not checked,
the command and request budgets run out.

Run `gland` (`MCGlandBeat.cfg`): two pids, a wall of two units, a look every unit, an interval of
six (the least the assumption allows), a panel stale after seven and a sentinel whose run lasts up
to one; the panel found at the start is absent, unparseable or pathological. Load and unload are
unlimited, and so is time: ages stop one past the last bound anything compares them with. Two pids
give both the pid that comes back and the one that does not. 2,383,031 states, modulo the symmetry
of pids.

| Property | What it says |
|---|---|
| `NoBeatIsSkipped` | whenever the interval fires the slot is free, wherever the last beat hung |
| `KillsAreDue` | no beat is killed before the wall, by a timer or note of an earlier one with its pid |
| `StoppedLoopIsNoticed` | a job booted out for `STALE_SEC` is not passed over by a run of the sentinel, whatever was republished before |

Run `gland_live` (`MCGlandLive.cfg`, no panel at the start, stale after six) checks `BeatsGoOn`:
while the job is loaded, new beats keep starting (1,156,789 states). **Fairness**: `WF` of `Tick`,
`Interval`, `TimerWakes` and the reaper (time passes, launchd keeps its schedules, kernel timers
fire) and of a sentinel that is running (all it calls has a timeout). Beats have none: the point of
the two deadlines is that a beat may hang at any step.

Run `net` (`MCNet.cfg`), four scenes, 883,138 states. *heal*: two networks and none, one of them
numbered inside the Advanced-DMZ range, a cap of two attempts, one re-try of the re-probe, and two
moves (of the network, of a command that fails, of the kill-switch, of a restart): enough for a move
between any two steps and one that undoes it. *link*: two networks, one WPA3, a log of three
windows, five joins, rotations, samples and commands. *tailnet*: an invalid policy and three valid
ones, two clients, four events (one relation `Alike`, on which no property of the scene depends).
*parcel*: one receiver, two tickets with two addresses each.

| Property | What it says |
|---|---|
| `NeverStranded` | when a heal has ended and nothing else touched the network, a node that reached its router still does, unless the command that puts the snapshot back failed (`RevertedIsBack`) |
| `FlapsBounded` | at most `MAX_HEAL_ATTEMPTS` commands to change the interface without a verified heal |
| `PauseIsShown` | an auto-heal that has paused itself does not stay behind an OK row |
| `CuresWhatItCan` | once the world holds still, what a lease cures is cured |
| `DeadLinkIsNeverHealthy` | a log with a window in which nothing came back is judged RADIO |
| `PushIsValidated` | the server never holds a policy its validation refuses, whatever is edited between validation and push |
| `SavedIsSigned` | a receive that says saved has put the signed bytes into the inbox |

**Fairness** of the heal scene: `WF` of the daemon's next step (launchd starts the wrapper every two
minutes, each of its commands ends) and of the end of a heal an operator started. Starting one is not
fair, nor is any move of the network.

Run `hive` (`MCHive.cfg`): one name, one legacy stem, one dotted host, one Mac, an adopter and an
agent that rewrites the roster beside it, four mints and writes together: a pair, its replacement in
the middle of the adoption, and a write of each console. 4,060,704 states.

| Property | What it says |
|---|---|
| `AdoptionIsEarned` | a Mac announced as adopted had the public key this adoption started from |
| `StemsFailClosed` | a node with a bare stem for its host, or none, that is shown offline gets no tailnet address, whatever a later lookup finds |

Run `host` (`MCHost.cfg`), seven scenes, 5,359,974 states. *onboard*: the three recipes, one kind of
gear whose login is best-effort, two runs and two answers that change anything (a wrong secret and a
right one, or an answer and an act of the page). *services*: two wave-1 services, one of them with an
agent to shelve, one agent-only, one secret, four calls (an install that dies, one that is run again,
a login or an edit, and one more). *tools*: one tool per manager, two versions, two commands.
*slots*: two accounts, four commands: two wizards and two commands around them. *github*: two
dotfiles and one stray, six turns. *beats*: two jobs of one host and one of another, four beats:
one more than writers. *soak*: one recorder, a target of one day, two samples, two days: a sample
between the bar's two reads, and a day too few or enough.

| Property | What it says |
|---|---|
| `RecapIsHonest` | the recap claims nothing of a chapter in which nothing was kept and proved, the Wi-Fi identity's aside (`IdentityIsKept`) |
| `NoDoubleRun` | after an install that ended, no service runs as agent and as daemon, at the next login either, but for an agent whose bootout did nothing, until the next boot (`NoneIsDouble`) |
| `OwnPlistKept` | the plist the operator had before the first install is kept, unless the copy of it was cut short (`BackupIsWhole`) |
| `OkIsReRead` | a row reported as taken shows the version that is there, or none where it could not be read, and has moved; one that failed shows that, the plan's, or nothing (`NowIsReRead`) |
| `PersistedOpens` | what a wizard leaves in a slot when it is done opens with what the Keychain holds (before: `MergedAtOnce`) |
| `WizardsKeepThePassphrase` | no wizard replaces a passphrase, however the Keychain read |
| `NoSecretPushed` | no credential the scanner knows is committed or pushed, whichever way it got into the clone, unless its file changed between the staging and the scan (`StagedIsScanned`) |
| `NoLostBeat` | every key holds what its last write carried; a beat told recorded has its key there (an older beat of the same key may put its time back) |
| `ShipsWhatSoaked` | green means the target of days, and no dirty or unrecovered sample among those the gate counted |

Run `council` (`MCCouncil.cfg`), two scenes, 718,748 states. *poll*: a seat on the box and a remote
one, the fallback on the box, one re-poll, an entry that points at another family's weights, at a
hosted model or at one of no known family, a proxy that attests or not. Two seats are what a race
for the lock takes, the remote one's fallback included. *chamber*: a cap of three calls, so the
breaker's two errors and the cap can each come first; three turns typed, two kept.

| Property | What it says |
|---|---|
| `NoOtherFamilysVoice` | where who answered can be told, a seat counts as answered only with its own entry's text, never with another known family's weights, nor on the box with hosted ones (no known family: `OwnVoiceIsOwn`) |
| `OneOnBox` | at most one request of the poll is on the box |
| `EverySeatReports` | every poll ends in a verdict |
| `CallsAudited` | what a turn's request carries of tools has all been audited |
| `BreakerTrips` | no third attempt in a row after two that failed, malformed ones included |

**Fairness** of the poll: `WF` of each seat's request and of the chair. Every wait of a seat has a
time limit (`_http_timeout`, the seat's budget, `_await_health`'s deadline) and the threads of the
pool are scheduled. `OneOnBox` makes the lock a bottleneck; `EverySeatReports` shows nobody is left
at it.

Deadlock is not checked in `net`, `hive`, `host` and `council`: their budgets run out.

Four runs show the code doing what a comment of it denies; TLC finds each violated.

| Run | Claim | What happens |
|---|---|---|
| `recheck` (`MCHubRecheck.cfg`) | "re-read + classify the downstream WAN" (`devices/intents.py:609`) | the runner serves the address the verify stage cached |
| `gland_label` (`MCGlandLabel.cfg`) | the reaper "SIGKILLs that job's pid ... including a stall in xpcproxy" (`haus.sanctum.endocrine-gland-reaper.plist:4-6`) | the gland's plist is labelled `com.sanctum...`, the reaper asks for `haus.sanctum...` (`LabelsAgree = FALSE`): it never finds the job, and such a stall skips every later beat |
| `heal_pause` (`MCNetHealPause.cfg`) | the cap is on "heal attempts" (`net/heal.py:54`) | on a healthy node the plan's empty command raises, the wrapper counts an attempt, and the daemon pauses with nothing healed |
| `parcel_race` (`MCParcelRace.cfg`) | the receiver "checks the signature and the sha256, then writes the file" (`mesh/files.py:4`) | two receives of one name share the partial file, each sums its own stream: what is saved was checked by nobody |

### Further disagreements

Definitions kept in the modules that TLC violates at the same bounds, listed by no configuration. To
see one, name it in the `.cfg` of the module's run (`LostRowIsInBackup` takes a second name). Where a
property of a passing run leaves a case out, the case is one of the first twelve.

| Definition | Claim | What happens |
|---|---|---|
| `NetHeal!RevertedIsBack` | "on failure reverts to the snapshot" (`commands/net.py:632`) | the revert's command fails unread (`net/link.py:622`); the run says reverted and the node has no router |
| `TailnetAcl!UnchangedIsUnchanged` | "apply FAILED (HTTP ...) - policy unchanged" (`commands/tailnet.py:501`) | the push was taken and its reply lost |
| `Onboard!IdentityIsKept` | "Returns True ONLY when ... a SERVER we just generated a stability profile for" (`commands/onboard.py:2093`) | without an SSID nothing is written (`:2079`) and the gate returns True |
| `Onboard!FailureIsIntegrity` | `CanaryOutcome`'s "FAILED: ... a real backup-integrity problem" (`commands/onboard.py:75`) | the canary's environment has the passphrase and no cloud keys (`:2941`): it fails over an intact snapshot |
| `ServiceHost!NoneIsDouble` | "disable bert-side agents that would double-run" (`service_user.py:522`) | a bootout that did nothing is not noticed (`:517`, `:530`): agent and daemon run until the next boot |
| `ServiceHost!BackupIsWhole` | "backup once" (`service_user.py:506`) | an install that dies in the copy leaves a torn one, which the next takes for the copy |
| `TierZero!StagedIsScanned` | "Scan the actual staged set here and refuse before committing" (`backends/github.py:317`) | the scan reads the clone's files (`:320`), the commit takes the index |
| `Toolchain!NowIsReRead` | "re-read from the machine, never assumed" (`commands/upgrade.py:15-17`) | a command that failed is reported with the plan's version (`:422`), whatever it had moved |
| `CloudSlots!MergedAtOnce` | "atomically merge into `instance.yaml`" (`backends/gdrive.py:13`) | two writes (`:389-399`); the first names a repository that nothing opens, and an interrupt leaves it |
| `Hive!ResolveFailsClosed` | "Fail-closed when the only known address is an offline tailnet peer" (`commands/node.py:1099`) | a dotted host is handed out (`:1162`) before its first label's offline verdict is looked at; a 100.x host likewise |
| `Hive!LostRowIsInBackup` | "every other block is preserved, a `<file>.bak` is written first" (`commands/node.py:1225`) | another console writes between the backup and the write: its row is in neither file |
| `Council!OwnVoiceIsOwn` | ANSWERED is "the seat's own family, complete - the only real answer" (`commands/brainstorm.py:464`) | weights of no known family pass as the entry's own (`:201-204`, `:847`) |
| `HubCutover!UntouchedHubNotRebooted` | "A failed stage unwinds the flip before the hub is ever touched" (`devices/intents.py:834-835`) | a failed armor deploy is unwound like any failure: leaves rewritten, hub rebooted (`:577`) |
| `HubCutover!DoubleNatIsDefinite` | "`double_nat` means Advanced DMZ never took" (`devices/flip.py:157-159`) | the poll can read the old lease before the hub has gone down (`intents.py:770`) |
| `Mesh!HintMirrorsGate` | the hint "mirrors the tracker's has_seeded gate" (`commands/mesh.py:384-386`) | it reads the catalog (`:387`), the gate the credited keys |
| `Mesh!OnlyMeshBlockTouched` | "Only the `mesh` block is touched" (`commands/mesh.py:549-550`) | a file that cannot be read counts as empty and is written back with the mesh block alone (`:555`) |
| `Mesh!ProbedWhatItPulls` | "probing the adapter ... shows it is well-behaved" (`mesh/verify.py:15-16`) | two pulls share the VM's directory (`mesh/adapters.py:375`; two hashes) |
| `GlandBeat!FreshBeatIsNotDown` | "A fresh beat-seen means launchd is still spawning beats" (`endocrine-gland-sentinel.py:178-180`) | a stamp written after the sentinel's start has a negative age and counts as none |
| `NetHeal!FlappingEnds` | "rather than re-flapping the interface forever" (`net/heal.py:54-55`) | where the default route is wired and the Wi-Fi is another subnet, the heal counts as healed, clears the attempts and is made again every cycle (`commands/net.py:714`) |
| `Onboard!RejectedPersistsNothing` | "a rejected key REVOKES the entry and persists nothing" (`commands/onboard.py:1005`) | the key that was there before is gone from the Keychain, and 1Password keeps the rejected one |
| `Onboard!SiblingsSurvive` | "every other block is preserved" (`commands/onboard.py:771`) | a torn `instance.yaml` is read as empty and written back (`commands/setup.py:497`) |
| `CloudSlots!OtherSlotStays` | none: one would expect a wizard for one slot to leave the other alone | both slots share one rclone remote; the second Google Drive wizard may drop or replace its account |
| `LinkGuard!ProfileFitsItsNetwork` | none: one would expect the encryption written to be the named network's | the security is read with the signals, the network's name after them; the node roams in between |
| `TierZero!UpToDateIsPushed` | "repo already up to date" (`backends/github.py:415`) | an earlier push failed; the commit is there and there is nothing left to commit (`:310`) |
| `ServiceHost!UninstalledIsStopped` | "Sanctum services are stopped" (`commands/uninstall.py:270`) | only agents are booted out, the daemons stay (`:128`) |
| `ServiceHost!ReinstallMintsNothing` | "a second run re-mints nothing" (`commands/module.py:13`) | a Keychain that times out reads as absent (`:270`) |
| `Toolchain!CurrentIsCurrent` | "0 when the toolchain is current" (`commands/upgrade.py:13`) | a manager that fails reads as nothing to do (`:248`) |
| `Chamber!WholeTurns` | the transcript is capped to its last turns (`commands/council.py:410`) | the cap keeps an answer whose question it dropped (`:416`) |
| `Soak!ShipsWhatSoaked` with two recorders | "re-read in case of external write" (`soak/harness.py:322`) | the one that writes last drops what the other wrote between its load and its write |

## What is proved

Every theorem holds for all values of the constants that satisfy the assumptions of its module, the
bounds on budgets included. A theorem about a component that shares a run with others is about the
component's own specification, whose steps are those of its scene. Only `SavedAsSigned` and
`ShipsSoaked` rest on more than the assumptions: that no two receives, or recorders, are at work at
once, without which each is false (see there).

`HubCutoverProofs` proves, for every `SettleTicks` and `BoxOpTicks` in `Nat` and any number of
commands (the module's two assumptions), that `Spec` keeps `TypeOK`, `ArmoredBeforeEngaged`,
`UnwindsOverRestoredLeaves`, `CommittedStands`, `RecoveryIsReal`, `SettlesBeforeFailing` and
`VerifiedMeansPublic`, and that it implements `GuardedChange` (`Contract`).

None of these is inductive by itself. The invariant `Inv` says what the process knows of the house
at each step:

- `CommandAtPc`: which command can be at which step, and that a running one has told nothing yet;
- `NothingLeftOver`: outside the walk no stage is done and nothing is cached;
- `StagesHold`: a completed `stage_armor` means the hook is on the box, a completed `enable_dmz`
  that DMZ is engaged, and the steps behind a stage are reached only with that stage done. It is
  what `ArmoredBeforeEngaged` needs: the interlock looks at the list of stages, not at the box;
- `CacheUnread`: nothing fills the WAN cache before the verify stage, and nothing at all before the
  check of a stand-alone rollback. `RecoveryIsReal` and `VerifiedMeansPublic` rest on it;
- `RestoredSoFar`: leaf by leaf, what the rollback is through with is what was captured, unless a
  write was refused; that is what makes "rolled back" true when it is said;
- `TypeOK` and `CommittedStands`.

`Inv` is proved conjunct by conjunct, one step per action. The action properties follow from it
and one lemma each about the only action that can take the step in question. For the refinement,
`Phase` maps a step of the process to a phase of the guarded change, and every action is matched
with one of the contract's: stages with `Mutate` or a stutter, a failure with `Fail`, the last
step of the rollback with `Restored`, `HalfApplied` or `ManualDone`.

`CommandEnds` is only model-checked (liveness under fairness is out of the prover's reach).
`TypeOK`, `SettlesBeforeFailing` (the poll gives up only past its window or on a lease of the hub's
LAN) and `VerifiedMeansPublic` (the terminal check judges the WAN of that moment) are proved, and no
run lists them.

`MeshProofs` proves the five properties of the run `mesh`, and `TypeOK`, for any sets of terminals,
keys, addresses and hashes and any window, clock error and budgets, from the four assumptions of
`Mesh` (own and other nodes' keys are disjoint keys; the machine's address is an address; numbers
are numbers). Its invariant `Inv` has four parts:

- `RemoteInv`: the registry's shape, `CreditIsEarned`, and `AckedHold`, which adds to
  `AcknowledgedStands` that what was acknowledged was signed: the credit follows from that;
- `AroundType`: the clock, the challenges and the invites;
- `MachineInv`: the files, and `ChampionWasGated`;
- `TerminalsInv`: `LocalOK` of every terminal: which command is at which step, that a challenge it
  asks with has been signed, which gates a pull has behind it, and that the settings a rewrite
  holds, stale as they may be, name a cleared champion. `ChampionWasGated` is not inductive
  without it: a rewrite may put back what it read long ago.

The registry's operations have a lemma each (`RegisterFacts`, `AnnounceFacts`), a request that is
carried out one for all its senders (`CarryKeeps`), and every action one of its own. `Invites` is
read off `Inv` and the only two actions that answer a challenge (`VendedByAnswer`).

`GlandBeatProofs` proves the three properties of the run `gland`, `TypeOK` and `StampKeepsUp`
(one look into a beat, `beat-seen` is not older than that beat), for any set of pids and any
intervals that satisfy the assumptions of `GlandBeat`, given `LabelsAgree`. What is assumed of the
intervals (`IntervalAssumption`) is that two looks and two walls, or three looks and a wall, fit
into the interval, and that a panel is not stale before the next beat: 10 s, 25 s, 120 s and 600 s
in the plists. The invariant `Inv` relates ages to one another:

- `Tracked`: a beat is as old as the time since the interval fired;
- `Watched`: a beat the reaper has not noted is younger than its last look, and the note of one it
  has noted lags by at most one look; so no beat outlives `SlotBound`, two looks and the wall;
- `NoteFades`, `TimersFade`: a note or a timer without its beat is gone before the interval fires
  (`FreshStart`), which is why a pid may come back; without them `KillsAreDue` is not inductive;
- `Stamped`: the stamp is this beat's unless neither the beat nor a look got there yet;
- `Abandoned`: after a bootout nothing is written, and a sentinel that saw a panel in time saw it
  early enough.

`BeatsGoOn` is only model-checked.

`NetProofs`, on its four components:

- `NetHeal`: `HealTypeOK`, `NeverStranded`, `FlapsBounded` and `OffActsBounded` (no run lists the
  first and the last) for any networks, any cap and any number of re-probes. `WaysBack` follows a
  run that met an answering router: at its act the snapshot is the address that router answered at,
  and until it has ended the way back to it stays open, so `Revert` finds it if its command works
  (`stuck` if not); `Counted` is what the
  cap needs, that a change not yet counted belongs to a cycle that started under it; `Switched` says
  a cycle past the kill-switch has its one change still before it.
- `LinkGuard`: `LinkTypeOK`, `DeadLinkIsNeverHealthy` and `PortableIsAsked`, for any networks and
  any log. The verdict of a log with a dead window is computed for every log of under 100 windows at
  once (`DeadIsRadio`): the parser keeps such a window, its loss alone lifts the mean over the
  threshold, and the branches behind it are never reached. `PortableIsAsked` needs `ServerIsFixed`:
  whoever is taken for a server when the signals were read cannot be carried away.
- `TailnetAcl`: `TailnetTypeOK` and `PushIsValidated`; a command under way holds the client it was proved with and a body
  the server took (`HeldIsProved`).
- `Parcel`: `SavedIsSigned` under `OneAtATime`, that no two receives are at work; without it
  `parcel_race` is the counterexample. The invariant ties the stream to the file: `SummedIsWritten`
  (the open file holds what was summed), `OpenIsPartial` (it is the one at the partial name),
  `RenamedIsSigned`, and `RoomOnDisk`, that there is a file for every address left.

`HostProofs`, on its four components:

- `Onboard`: `RecapIsHonest` and `NoUnprovenReference` (no run lists the last), for any recipes and
  kinds of gear. The recap is honest only because every gate it names was earned when it was passed
  and nothing that earns it is ever taken back (`Gains`, of every action: `EarnedStands`).
  `OnboardInv` says why it was earned: `ScreensOfTheirGate` (which gate a screen belongs to, and
  that what was won there was accepted by its probe and, for gear, written), `HeldWasWritten` (what
  a rewrite has read, or the file holds, was written once), and `AllEarned` (of every gate but the
  Wi-Fi identity's). The steps of the wizard and of the page fall into five groups with a lemma
  each, so the page's steps are matched against any screen at once. The order of the gates is not
  used: the theorem holds for every order.
- `ServiceHost`: `HostTypeOK`, `OwnPlistKept` and `NoDoubleRun`. `NoDoubleRun` speaks of ended
  installs; its invariant follows one that is under way: `ApartUnlessPutBack` (an agent has a
  shelved copy beside it only where it was put back over it), `BootedOut` (an installed service
  still runs as an agent only if its file is there or its bootout did nothing), `NothingLeft` (the
  shelving starts with no service left to load), and `SettledIsDry` (after it no agent of these
  runs, but for those that clung, or has a file a login would load). `OwnIsFirst` is what
  `OwnPlistKept` needs: where there is no copy the operator's plist is in place, and it is
  overwritten only past the copy.
- `Toolchain`: `ToolTypeOK` and `OkIsReRead`; a row still to be taken is behind what the plan saw
  (`RowsAreBehind`), so one that has not moved is found out.
- `Soak`: `ShipsWhatSoaked` under `OneRecorder`; with two recorders TLC finds it violated (above).
  `NothingDropped` says the file, and what a recorder is about to write over it, hold every sample
  ever taken; `CountedIsKept` and `GreenIsSoaked` carry what the first of the two reads saw to the
  moment the verdict is given, while samples go on being written.

`CustodyProofs`, on its three components:

- `CloudSlots`: `CloudTypeOK`, `PersistedOpens` and `WizardsKeepThePassphrase`, for any accounts and
  both slots. `CloudInv` follows a wizard: `StepsOfItsKind`, `KeysAreStored` (whose account's keys
  the Keychain holds by which step), `PassphraseHolds` (the passphrase it goes on with is the
  Keychain's and, once the round trip has passed, the repository's), and `OnePassphraseEach`, without
  which a repository's passphrase would not be a value at all.
- `TierZero`: `TierTypeOK` and `NoSecretPushed` for any dotfiles and strays, from `StagedIsTree`:
  but for what slipped, what is staged is the clone as the scan reads it, until the scan has decided.
- `Deadman`: `NoLostBeat` for any hosts: `MergedIsOwn` (what a beat is about to put is what it read
  with its own key changed), `Accounted` and `Dated` (a time in the file is one a beat of its key
  began with, and none is ahead of the clock), `Heard` (who was told has its key in the file).

`HiveProofs` proves `HiveTypeOK`, `AdoptionIsEarned`, `StemsFailClosed` and `RouteIsLive` (no run
lists the first and the last) for any names, Macs and consoles. `Sound` says of
every command what it holds at its step: an adoption past its probes holds that the key it began
with was found on the Mac, whatever is minted meanwhile; `Numbered` numbers the pairs; the two
readers' properties hold of every roster, so of those the commands write.

`CouncilProofs`, on its two components:

- `Council`: `CouncilTypeOK`, `OneOnBox` and `NoOtherFamilysVoice` for any seats, any lanes and any
  families that satisfy `CouncilAssumption`. `OneOnBox` needs `LockHeld` (who asks on the box holds
  the lock) and `FallbackWaitsOffBox` (a seat at home on the box never waits for the lock it has);
  `NoOtherFamilysVoice` needs `VoicesKept`, that there is a result for every seat as well, and is
  kept by `_prefer` when a re-poll brings another.
- `Chamber`: `CallsAudited` and `BreakerTrips` for any number of replies and blocks. `ErrorsCounted`
  ties the counter to the tail of the ledger, which is what lets a counter of two stand for three
  rows; `EchoedIsFed` holds in the middle of a reply as well.

Only model-checked: the liveness properties (`CommandEnds`, `BeatsGoOn`, `PauseIsShown`,
`CuresWhatItCan`, `EverySeatReports`: liveness under fairness is out of the prover's reach), and
`OnboardTypeOK`, which no run lists: it bounds the place in the wizard's arc by the arc's length, and
the arc is filtered by `SelectSeq`, which is recursive. Every safety property of a passing
run is proved, and so is the type invariant of every other module that has one, but for the abstract
`GuardedChange`, whose specification is proved as what `HubCutover` implements.

## What is not modelled

Of the cutover: the dry-run and `--check` (no state), the bridge-mode intent (`single_nat`, called
by no command), the audit file's contents, the hub's login; `orbi guest-wifi`. Two cutovers at once
from two terminals are not modelled: nothing in the code excludes them, and nothing in it claims to
handle them.

Of the mesh: the metrics pulse and analytics, and `discovery.py`'s fallback directory, which no
command uses. The order of peers and seeders is not kept. A machine has one address and never changes
it.

Of the endocrine system: the arithmetic of the levels and the receptors (data the schedule does not
depend on), the creative and opt-out levers, an operator's own tick beside the job (both write one
`panel.json.tmp`), the long-running loop of `gland_daemon` (no job starts it), a `beat-seen` that
cannot be written, and the page's cooldown.

Of the network commands: the port-forwarding, DNS and guarded-write commands of `commands/net.py`,
the other rows of `net status`, `home_net`'s one-shot probes and MSS repair.

Of nodes and onboarding: an `instance.yaml` whose roster was written in part (it is seen whole or
empty), the canary's own time-out and Keychain errors, which end the run like any death of it
(`Killed`) though its docstring says it never raises; the remote installers (scripts over ssh whose
steps the console does not see), the interviews' parsing, the page's read-only state, probes and
HTML, its two tailnet actions.

Of backup: the size estimate, the bundle's encryption, restic's own errors. Of upgrade and
uninstall: the tap, app bundles, data directories, module demos.

Of the council: the `--wait-load` gate and its error exit, `council_ask`'s fan-out, the REPL's
commands, the bridge, the parser of the stream.

Not modelled at all: the read-mostly device providers (adapters to vendor APIs), the proxy, providers
and routing (small stateless choices over remote services), the command shell and the diagnostics
(parsing, rendering, read-only probes). The schedule that reads the dead man's file runs in another
repository.
