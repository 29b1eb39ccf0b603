---------------------------- MODULE ServiceHost ----------------------------
(* The services of one Mac and the commands that move them: service-user      *)
(* install (the control plane as daemons of user sanctum), module install and *)
(* uninstall, agent start/stop/restart, and sanctum uninstall.                *)
(* (service_user.py, commands/{agent,module,uninstall}.py)                    *)
(*                                                                            *)
(* A login session loads every agent file; a boot loads every daemon file.    *)
(* Both may happen between any two steps of an install, which may also die.   *)
(* No command reads whether a bootout worked, so any bootout may do nothing.  *)
EXTENDS Naturals, FiniteSets

CONSTANTS Wave1,        \* services installed as daemons
          TwoSided,     \* those whose agents an install shelves
          AgentOnly,    \* services that are agents only
          Secrets,      \* the module's hex64 secrets
          MaxCalls      \* commands, logins and edits (bound)

ASSUME HostAssumption == TwoSided \subseteq Wave1 /\ Wave1 \cap AgentOnly = {} /\ MaxCalls \in Nat

Labels == Wave1 \cup AgentOnly

VARIABLES agents, shelved,      \* plists of LaunchAgents, and the .disabled-wave1 ones
          daemons, pre, first,  \* LaunchDaemons' plists, their .pre-wave1 copies, the first of them
          gui, system,          \* labels loaded in the two launchd domains
          user,                 \* the account sanctum exists
          left, cur, stage, sudo,  \* the install under way: labels to do, the one at hand
          settled, overlaid,    \* an install ended well; an agent came back over its shelved copy
          clung,                \* agents an install could not boot out, and that run since
          manifest, entries,         \* the module's manifest is installed; its secrets' versions, 0 none
          said, calls
files == <<agents, shelved, daemons, pre, first>>
install == <<left, cur, stage, sudo, settled, overlaid, clung>>
mod == <<manifest, entries>>
hostVars == <<files, gui, system, user, install, mod, said, calls>>

Call == calls < MaxCalls /\ calls' = calls + 1

\* launchctl bootout of S in the login session, each of which may do nothing.
BootoutFrom(g, S) == {g \ gone : gone \in SUBSET (S \cap g)}

HostInit ==
    /\ agents \in {AgentOnly, AgentOnly \cup TwoSided} /\ shelved = {}
    /\ daemons \in [Wave1 -> {"none", "own"}] /\ first = daemons /\ pre = [l \in Wave1 |-> "none"]
    /\ gui = agents /\ system = {l \in Wave1 : daemons[l] = "own"} /\ user = FALSE
    /\ left = {} /\ cur \in Wave1 /\ stage = "idle" /\ sudo = TRUE /\ settled = FALSE /\ overlaid = FALSE
    /\ clung = {}
    /\ manifest = FALSE /\ entries = [s \in Secrets |-> 0] /\ said = "nothing" /\ calls = 0

---------------------------------------------------------------------------
\* service-user install.  Under sudo the operator's session and home are known.

install_wave1_as_root(viaSudo) ==
    /\ Call /\ stage = "idle" /\ stage' = "user" /\ sudo' = viaSudo /\ settled' = FALSE
    /\ UNCHANGED <<files, gui, system, user, left, cur, overlaid, clung, mod, said>>

\* Created by one tool or the other, or the install stops here.
_ensure_group_and_user(ok) ==
    /\ stage = "user" /\ user' = (user \/ ok)
    /\ IF user \/ ok THEN stage' = "write" /\ left' = Wave1 ELSE stage' = "idle" /\ UNCHANGED left
    /\ UNCHANGED <<files, gui, system, cur, sudo, settled, overlaid, clung, mod, said, calls>>

\* (mutant) the copy is made at every install
CopiedEveryTime(l) ==
    /\ stage = "write" /\ l \in left /\ cur' = l
    /\ IF daemons[l] # "none" THEN pre' = [pre EXCEPT ![l] = "partial"] /\ stage' = "copy"
                              ELSE stage' = "over" /\ UNCHANGED pre
    /\ UNCHANGED <<agents, shelved, daemons, first, gui, system, user, left, sudo, settled, overlaid, clung,
                   mod, said, calls>>

\* One service, in any order: the plist there is copied once, into a file that is
\* opened, and truncated, first.
_backup_once(l) ==
    /\ stage = "write" /\ l \in left /\ cur' = l
    /\ IF daemons[l] # "none" /\ pre[l] = "none"
         THEN pre' = [pre EXCEPT ![l] = "partial"] /\ stage' = "copy"
         ELSE stage' = "over" /\ UNCHANGED pre
    /\ UNCHANGED <<agents, shelved, daemons, first, gui, system, user, left, sudo, settled, overlaid, clung,
                   mod, said, calls>>

Copied ==
    /\ stage = "copy" /\ pre' = [pre EXCEPT ![cur] = daemons[cur]] /\ stage' = "over"
    /\ UNCHANGED <<agents, shelved, daemons, first, gui, system, user, left, cur, sudo, settled, overlaid,
                   clung, mod, said, calls>>

\* The plist is rewritten in place, truncated first as well.
Truncated ==
    /\ stage = "over" /\ daemons' = [daemons EXCEPT ![cur] = "partial"] /\ stage' = "replace"
    /\ UNCHANGED <<agents, shelved, pre, first, gui, system, user, left, cur, sudo, settled, overlaid, clung,
                   mod, said, calls>>

\* Written; then both of the service's loaded copies are booted out.
_install_plists ==
    /\ stage = "replace" /\ stage' = "load" /\ left' = left \ {cur}
    /\ daemons' = [daemons EXCEPT ![cur] = "wave1"]
    /\ gui' \in BootoutFrom(gui, IF sudo THEN {cur} ELSE {})
    /\ system' \in BootoutFrom(system, {cur})
    /\ clung' = IF sudo THEN (clung \cup {cur}) \cap gui' ELSE clung
    /\ UNCHANGED <<agents, shelved, pre, first, user, cur, sudo, settled, overlaid, mod, said, calls>>

\* Its bootstrap, whose failure nobody reads; then the next one.
_bootstrap(ok) ==
    /\ stage = "load" /\ system' = IF ok THEN system \cup {cur} ELSE system
    /\ stage' = IF left = {} THEN "shelve" ELSE "write"
    /\ UNCHANGED <<files, gui, user, left, cur, sudo, settled, overlaid, clung, mod, said, calls>>

\* (mutant) the agents are stopped and their files left where they are
StoppedOnly ==
    /\ stage = "shelve" /\ stage' = "idle" /\ settled' = sudo /\ said' = "installed"
    /\ LET due == IF sudo THEN {l \in TwoSided : l \in agents} ELSE {}
       IN gui' \in BootoutFrom(gui, due) /\ clung' = (clung \cup due) \cap gui'
    /\ UNCHANGED <<files, system, user, left, cur, sudo, overlaid, mod, calls>>

\* The agents that would run twice: shelved and booted out, but only where no
\* shelved copy is there already.
_shelve_agents ==
    /\ stage = "shelve" /\ stage' = "idle" /\ settled' = sudo /\ said' = "installed"
    /\ LET due == IF sudo THEN {l \in TwoSided : l \in agents /\ l \notin shelved} ELSE {}
       IN /\ agents' = agents \ due /\ shelved' = shelved \cup due
          /\ gui' \in BootoutFrom(gui, due) /\ clung' = (clung \cup due) \cap gui'
    /\ UNCHANGED <<daemons, pre, first, system, user, left, cur, sudo, overlaid, mod, calls>>

Die == /\ stage # "idle" /\ stage' = "idle" /\ left' = {}
       /\ UNCHANGED <<files, gui, system, user, cur, sudo, settled, overlaid, clung, mod, said, calls>>

---------------------------------------------------------------------------
\* sanctum agent, by another terminal.

agent_start(l) ==
    /\ Call /\ IF l \in agents /\ l \notin gui THEN gui' = gui \cup {l} /\ said' = "started"
                                               ELSE said' = "error" /\ UNCHANGED gui
    /\ UNCHANGED <<files, system, user, install, mod>>

\* An agent that an install could not stop may be stopped later.
StopsClinging == clung' = clung \cap gui' /\ UNCHANGED <<left, cur, stage, sudo, settled, overlaid>>

agent_stop(l) ==
    /\ Call /\ gui' \in BootoutFrom(gui, {l}) /\ said' = IF gui' # gui THEN "stopped" ELSE "error"
    /\ StopsClinging /\ UNCHANGED <<files, system, user, mod>>

\* A bootout that may fail, then a bootstrap, which fails over an agent still
\* loaded; any other failure leaves it stopped.
agent_restart(l, ok) ==
    /\ Call /\ IF l \in agents
                 THEN /\ gui' \in IF ok THEN {gui \cup {l}} ELSE BootoutFrom(gui, {l})
                      /\ said' = IF ok THEN "restarted" ELSE "error"
                 ELSE said' = "error" /\ UNCHANGED gui
    /\ StopsClinging /\ UNCHANGED <<files, system, user, mod>>

---------------------------------------------------------------------------
\* sanctum module.

\* The manifest, then each secret that does not read: a Keychain that did not
\* answer in time reads as one without it.
install_module(silent) ==
    /\ Call /\ manifest' = TRUE /\ said' = "module installed"
    /\ entries' = [s \in Secrets |-> IF entries[s] = 0 \/ s \in silent THEN calls + 1 ELSE entries[s]]
    /\ UNCHANGED <<files, gui, system, user, install>>

uninstall_module ==
    /\ Call /\ gui' \in BootoutFrom(gui, AgentOnly) /\ entries' = [s \in Secrets |-> 0] /\ manifest' = FALSE
    /\ said' = "module uninstalled"
    /\ UNCHANGED <<files, system, user, install>>

---------------------------------------------------------------------------
\* sanctum uninstall: every agent is booted out and its file renamed.

_bootout_and_delete_launchagents == agents' = {} /\ gui' \in BootoutFrom(gui, agents)
_revoke_keychain_entries == entries' = [s \in Secrets |-> 0]

uninstall_command(purge) ==
    /\ Call /\ stage = "idle"
    /\ _bootout_and_delete_launchagents /\ _revoke_keychain_entries
    /\ manifest' = (manifest /\ ~purge) /\ said' = "uninstalled" /\ StopsClinging
    /\ UNCHANGED <<shelved, daemons, pre, first, system, user>>

---------------------------------------------------------------------------
\* The Mac.

Login == /\ Call /\ gui' = gui \cup agents /\ UNCHANGED <<files, system, user, install, mod, said>>

\* A plist cut short loads nothing.
Reboot == /\ Call /\ gui' = agents /\ system' = {l \in Wave1 : daemons[l] \in {"own", "wave1"}}
          /\ stage' = "idle" /\ left' = {} /\ clung' = {} /\ said' = "nothing"
          /\ UNCHANGED <<files, user, cur, sudo, settled, overlaid, mod>>

\* An agent's file is put back by a sync, a restore or a hand.
PutBack(l) ==
    /\ Call /\ stage = "idle" /\ l \notin agents /\ agents' = agents \cup {l} /\ settled' = FALSE
    /\ overlaid' = (overlaid \/ l \in shelved)
    /\ UNCHANGED <<shelved, daemons, pre, first, gui, system, user, left, cur, stage, sudo, clung, mod, said>>

---------------------------------------------------------------------------
\* service-user check.  ps lists one owner per process, the agent's or the
\* daemon's where both run.

check_wave1(agentFirst) ==
    /\ user /\ \A l \in Wave1 : daemons[l] = "wave1"
    /\ \A l \in Wave1 : l \in system /\ (l \in gui => l \notin agentFirst)

check_cmd(agentFirst) ==
    /\ Call /\ said' = IF check_wave1(agentFirst) THEN "healthy" ELSE "incomplete"
    /\ UNCHANGED <<files, gui, system, user, install, mod>>

HostNext ==
    \/ \E b \in BOOLEAN : install_wave1_as_root(b) \/ _ensure_group_and_user(b) \/ _bootstrap(b) \/ uninstall_command(b)
    \/ \E l \in Wave1 : _backup_once(l)
    \/ Copied \/ Truncated \/ _install_plists \/ _shelve_agents \/ Die \/ uninstall_module \/ Login \/ Reboot
    \/ \E l \in TwoSided \cup AgentOnly :
         agent_start(l) \/ agent_stop(l) \/ PutBack(l) \/ (\E b \in BOOLEAN : agent_restart(l, b))
    \/ \E silent \in SUBSET Secrets : install_module(silent)
    \/ \E agentFirst \in SUBSET TwoSided : check_cmd(agentFirst)

---------------------------------------------------------------------------
HostTypeOK ==
    /\ agents \subseteq Labels /\ shelved \subseteq TwoSided /\ gui \subseteq Labels
    /\ system \subseteq Wave1 /\ left \subseteq Wave1 /\ clung \subseteq Wave1
    /\ \A g \in {daemons, pre, first} : g \in [Wave1 -> {"none", "own", "wave1", "partial"}]
    /\ stage \in {"idle", "user", "write", "copy", "over", "replace", "load", "shelve"} /\ entries \in [Secrets -> 0..MaxCalls]

\* After an install that ended under sudo, no service runs both as the
\* operator's agent and as the daemon: not at the next login, nor after an
\* install that died before and was run again, unless an agent was put back
\* since, or over its shelved copy. A bootout nobody reads may leave one running,
\* and no longer than to the next boot.
NoDoubleRun == (settled /\ stage = "idle" /\ ~overlaid) => gui \cap system \cap TwoSided \subseteq clung

\* "disable bert-side agents that would double-run" (_install_plists): the
\* install that ended well left none of them running, booted out or not.
NoneIsDouble == (settled /\ stage = "idle" /\ ~overlaid) => gui \cap system \cap TwoSided = {}

\* The plist an operator had before the first install is kept, however many
\* installs follow and wherever one died, but where the copy itself was cut short.
OwnPlistKept == \A l \in Wave1 : first[l] = "own" /\ pre[l] # "partial" => "own" \in {daemons[l], pre[l]}

\* "backup once" (_install_plists): it is kept, wherever an install died.
BackupIsWhole == \A l \in Wave1 : first[l] = "own" => "own" \in {daemons[l], pre[l]}

\* "Uninstall complete ... Sanctum services are stopped."
UninstalledIsStopped == said = "uninstalled" => gui \cup system = {}

\* "Idempotent: a second run re-mints nothing."
ReinstallMintsNothing ==
    [][said' = "module installed" /\ manifest => \A s \in Secrets : entries[s] # 0 => entries'[s] = entries[s]]_hostVars
=============================================================================
