------------------------------ MODULE NetHeal ------------------------------
(***************************************************************************)
(* The self-healing Wi-Fi daemon (net/heal.py, `sanctum net heal`).        *)
(* launchd starts a wrapper every two minutes; the wrapper honours a       *)
(* kill-switch and a cap on attempts kept in a file, and runs the same     *)
(* CLI an operator may run beside it: probe, diagnose, plan, snapshot,     *)
(* act, re-probe, and put the snapshot back when that failed.  The network *)
(* changes, commands return nothing and the machine restarts between any   *)
(* two of these steps; `moves` counts those and MaxMoves bounds them.      *)
(***************************************************************************)
EXTENDS Naturals

CONSTANTS
    Nets, NoNet, Wired,  \* Wi-Fi networks, none, and the network of another interface
    OverlapNets,    \* those numbered inside Bell's Advanced-DMZ range
    Daemon, Operator,
    MaxAttempts,    \* MAX_HEAL_ATTEMPTS
    VerifyTries,    \* _HEAL_VERIFY_TRIES
    MaxMoves

Procs == {Daemon, Operator}

ASSUME NetAssumption == NoNet \notin Nets /\ Wired \notin Nets /\ NoNet # Wired
ASSUME OverlapAssumption == OverlapNets \subseteq Nets
ASSUME ProcAssumption == Daemon # Operator
ASSUME HealNatAssumption ==
    MaxAttempts \in Nat \ {0} /\ VerifyTries \in Nat /\ MaxMoves \in Nat

VARIABLES
    here,       \* the network the radio is on
    gwUp, dhcpUp,   \* does its router answer; does it hand out leases
    route,      \* whose router holds the default route
    spine,      \* is there a tailnet or a bridge to reach the node by
    cfg,        \* the Wi-Fi service: ConfigMethod, and the network its address is of
    moves,
    loaded,     \* is the LaunchDaemon bootstrapped
    disabled,   \* the kill-switch file
    attempts,   \* net-heal.attempts
    beat,       \* the word of the last heartbeat line
    fresh,      \* is that line younger than _HEAL_HEARTBEAT_FRESH_S
    run,        \* what each process is doing
    flaps,      \* ghost: the daemon's changes since it last verified one
    offActs     \* ghost: its changes since the kill-switch was put

wifi == <<here, gwUp, dhcpUp, route, spine>>
job == <<loaded, disabled, attempts, beat, fresh>>
healVars == <<here, gwUp, dhcpUp, route, spine, cfg, moves, loaded, disabled,
              attempts, beat, fresh, run, flaps, offActs>>

Step == {"idle", "snapshot", "act", "verify", "revert", "record"}
Action == {"none", "flip_dhcp", "dhcp_renew", "alert_only"}
Beat == {"none", "healed", "no-heal", "STOP", "DISABLED", "ERROR"}
Token == {"none", "healed", "reverted", "noop"}

\* Two ghosts.  `had`: the node reached its router when the snapshot was taken,
\* and nothing but this run has touched it since.  `stuck`: the command that puts
\* the snapshot back did nothing.
Idle == [pc |-> "idle", action |-> "none", snap |-> NoNet, tries |-> 0,
         token |-> "none", had |-> FALSE, stuck |-> FALSE]

HealTypeOK ==
    /\ here \in Nets \cup {NoNet}
    /\ gwUp \in BOOLEAN /\ dhcpUp \in BOOLEAN /\ spine \in BOOLEAN
    /\ loaded \in BOOLEAN /\ disabled \in BOOLEAN /\ fresh \in BOOLEAN
    /\ route \in {"wifi", "wired"}
    /\ cfg \in [method : {"DHCP", "Manual"}, net : Nets \cup {NoNet}]
    /\ moves \in 0 .. MaxMoves
    /\ attempts \in 0 .. MaxAttempts
    /\ beat \in Beat
    /\ run \in [Procs -> [pc : Step, action : Action, snap : Nets \cup {NoNet},
                          tries : 0 .. VerifyTries, token : Token, had : BOOLEAN,
                          stuck : BOOLEAN]]
    /\ flaps \in Nat
    /\ offActs \in Nat

HealInit ==
    /\ here \in Nets
    /\ gwUp = TRUE /\ dhcpUp = TRUE /\ route = "wifi" /\ spine = TRUE
    /\ cfg \in [method : {"DHCP", "Manual"}, net : Nets]
    /\ moves = 0
    /\ loaded = TRUE /\ disabled = FALSE /\ attempts = 0
    /\ beat = "none" /\ fresh = FALSE
    /\ run = [p \in Procs |-> Idle]
    /\ flaps = 0 /\ offActs = 0

(***************************************************************************)
(* Posture: what probe_posture may return, and the verdict on it.          *)
(***************************************************************************)
GatewayNet == IF route = "wired" THEN Wired ELSE cfg.net
GatewayAnswers ==
    \/ route = "wired"
    \/ cfg.net = here /\ here # NoNet /\ gwUp

Truth == IF GatewayNet = NoNet THEN "unknown" ELSE IF GatewayAnswers THEN "yes" ELSE "no"

Posture(reach) ==
    [iface |-> TRUE, method |-> cfg.method, ip |-> cfg.net, gateway |-> GatewayNet,
     reach |-> reach, associated |-> here # NoNet, spine |-> spine]
\* A command that fails prints nothing: no interface, or a ping without a summary.
Unread == [Posture("unknown") EXCEPT !.iface = FALSE]
Misread == {Unread, Posture("unknown")} \ {Posture(Truth)}

Overlap(p) == p.ip \in OverlapNets
OffSubnet(p) == p.ip # NoNet /\ p.gateway # NoNet /\ p.gateway # p.ip

\* (mutant) an address that works is healthy, pinned or not
diagnose_reach_first(p) ==
    IF ~p.iface THEN "UNVERIFIED"
    ELSE IF p.reach = "yes" /\ ~OffSubnet(p) THEN "HEALTHY"
    ELSE IF Overlap(p) /\ p.reach = "no" THEN "DOUBLE_NAT_OVERLAP"
    ELSE IF p.method = "Manual" THEN "STATIC_DRIFT"
    ELSE IF p.associated /\ p.reach = "no" THEN "GATEWAY_DEAD"
    ELSE IF OffSubnet(p) THEN "WRONG_SUBNET"
    ELSE "HEALTHY"

\* In the order of the table: the first line that fits.
diagnose_posture(p) ==
    IF ~p.iface THEN "UNVERIFIED"
    ELSE IF Overlap(p) /\ p.reach = "no" THEN "DOUBLE_NAT_OVERLAP"
    ELSE IF p.method = "Manual" THEN "STATIC_DRIFT"
    ELSE IF p.associated /\ p.reach = "no" THEN "GATEWAY_DEAD"
    ELSE IF OffSubnet(p) THEN "WRONG_SUBNET"
    ELSE "HEALTHY"

\* HEALTHY's action is "none", and it counts as safe.
ActionOf ==
    [UNVERIFIED |-> "alert_only", DOUBLE_NAT_OVERLAP |-> "alert_only",
     STATIC_DRIFT |-> "flip_dhcp", GATEWAY_DEAD |-> "dhcp_renew",
     WRONG_SUBNET |-> "dhcp_renew", HEALTHY |-> "none"]

\* net_heal always passes attempts=0: only the wrapper counts.
plan_heal(p) == ActionOf[diagnose_posture(p)] # "alert_only" /\ p.spine

\* A probe reads the truth, or spends a move on a command that failed.
Readings == {Posture(Truth)} \cup (IF moves < MaxMoves THEN Misread ELSE {})
Spends(p) == moves' = IF p = Posture(Truth) THEN moves ELSE moves + 1

(***************************************************************************)
(* The world.                                                              *)
(***************************************************************************)
\* The ghost `had` ends for every run but that of `p`.
Disturbed(r, except) ==
    [p \in Procs |-> IF p \in except THEN r[p] ELSE [r[p] EXCEPT !.had = FALSE]]

Nature ==
    /\ moves < MaxMoves /\ moves' = moves + 1
    /\ \/ here' \in (Nets \cup {NoNet}) \ {here} /\ UNCHANGED <<gwUp, dhcpUp, route, spine>>
       \/ gwUp' = ~gwUp /\ UNCHANGED <<here, dhcpUp, route, spine>>
       \/ dhcpUp' = ~dhcpUp /\ UNCHANGED <<here, gwUp, route, spine>>
       \/ route' \in {"wifi", "wired"} \ {route} /\ UNCHANGED <<here, gwUp, dhcpUp, spine>>
       \/ spine' = ~spine /\ UNCHANGED <<here, gwUp, dhcpUp, route>>
    /\ run' = Disturbed(run, {})
    /\ UNCHANGED <<cfg, loaded, disabled, attempts, beat, fresh, flaps, offActs>>

Lapse ==
    /\ fresh /\ moves < MaxMoves /\ moves' = moves + 1
    /\ fresh' = FALSE
    /\ UNCHANGED <<wifi, cfg, loaded, disabled, attempts, beat, run, flaps, offActs>>

KillSwitch ==
    /\ moves < MaxMoves /\ moves' = moves + 1
    /\ disabled' = ~disabled
    /\ offActs' = 0
    /\ UNCHANGED <<wifi, cfg, loaded, attempts, beat, fresh, run, flaps>>

(***************************************************************************)
(* A restart ends every run, `--install` boots the daemon's out; either    *)
(* may cut the writing of the attempts file, which then reads as 0.        *)
(***************************************************************************)
Killed(ps) ==
    /\ run' = [p \in Procs |-> IF p \in ps THEN Idle ELSE run[p]]
    /\ attempts' \in IF run[Daemon].pc = "record" THEN {attempts, 0} ELSE {attempts}
    /\ flaps' = 0
    /\ UNCHANGED <<wifi, cfg, disabled, beat, fresh, offActs>>

Restart ==
    /\ moves < MaxMoves /\ moves' = moves + 1
    /\ Killed(Procs)
    /\ UNCHANGED loaded

InstallDaemon ==
    /\ moves < MaxMoves /\ moves' = moves + 1
    /\ Killed({Daemon})
    /\ loaded' \in BOOLEAN

(***************************************************************************)
(* `sanctum net heal --apply` as root.                                     *)
(***************************************************************************)
Goto(p, r) == run' = [run EXCEPT ![p] = r]

\* Probe, diagnosis and plan.  A plan that stops prints the noop token.
Probe(p) ==
    \E posture \in Readings :
        /\ Spends(posture)
        /\ Goto(p, IF plan_heal(posture)
                   THEN [Idle EXCEPT !.pc = "snapshot",
                                     !.action = ActionOf[diagnose_posture(posture)]]
                   ELSE [Idle EXCEPT !.pc = "record", !.token = "noop"])

OperatorHeals ==
    /\ run[Operator].pc = "idle"
    /\ Probe(Operator)
    /\ UNCHANGED <<wifi, cfg, job, flaps, offActs>>

\* No address, or a command that printed none: nothing to go back to.
Snapshot(p) ==
    /\ run[p].pc = "snapshot"
    /\ \/ /\ cfg.net # NoNet
          /\ Goto(p, [run[p] EXCEPT !.pc = "act", !.snap = cfg.net, !.had = GatewayAnswers])
          /\ UNCHANGED moves
       \/ /\ cfg.net = NoNet \/ moves < MaxMoves
          /\ moves' = IF cfg.net = NoNet THEN moves ELSE moves + 1
          /\ Goto(p, [run[p] EXCEPT !.pc = "record", !.token = "noop"])
    /\ UNCHANGED <<wifi, cfg, job, flaps, offActs>>

\* Another process's change ends `had` for the others.
Changes(p, c, r) ==
    /\ cfg' = c
    /\ run' = [Disturbed(run, {p}) EXCEPT ![p] = r]

Lease == [method |-> "DHCP", net |-> IF dhcpUp THEN here ELSE NoNet]

\* A command that changes the interface runs for 8 seconds at most and its
\* failure is swallowed (_real_run): it may have done nothing.
Took == {TRUE} \cup (IF moves < MaxMoves THEN {FALSE} ELSE {})
Fails(took) == moves' = IF took THEN moves ELSE moves + 1

\* The empty command of "none" raises in subprocess.run: the CLI dies without
\* a token.
Act(p) ==
    /\ run[p].pc = "act"
    /\ IF run[p].action = "none"
       THEN /\ Goto(p, [run[p] EXCEPT !.pc = "record"])
            /\ UNCHANGED <<cfg, moves, flaps, offActs>>
       ELSE /\ \E took \in Took :
                 /\ Fails(took)
                 /\ Changes(p, IF took THEN Lease ELSE cfg, [run[p] EXCEPT !.pc = "verify"])
            /\ flaps' = IF p = Daemon THEN flaps + 1 ELSE flaps
            /\ offActs' = IF p = Daemon /\ disabled THEN offActs + 1 ELSE offActs
    /\ UNCHANGED <<wifi, job>>

LeasedAndReachable(p) == p.iface /\ p.ip # NoNet /\ p.reach = "yes"

Verify(p) ==
    /\ run[p].pc = "verify"
    /\ \E posture \in Readings :
           /\ Spends(posture)
           /\ Goto(p, IF LeasedAndReachable(posture)
                      THEN [run[p] EXCEPT !.pc = "record", !.token = "healed"]
                      ELSE IF run[p].tries < VerifyTries
                      THEN [run[p] EXCEPT !.tries = @ + 1]
                      ELSE [run[p] EXCEPT !.pc = "revert"])
    /\ UNCHANGED <<wifi, cfg, job, flaps, offActs>>

\* (mutant) pins the address the interface has by then
RevertInPlace(p) ==
    /\ run[p].pc = "revert"
    /\ \E took \in Took :
         /\ Fails(took)
         /\ Changes(p, IF took THEN [method |-> "Manual", net |-> cfg.net] ELSE cfg,
                    [run[p] EXCEPT !.pc = "record", !.token = "reverted", !.stuck = ~took])
    /\ UNCHANGED <<wifi, job, flaps, offActs>>

\* "reverted" is printed and recorded whether or not the command did anything.
Revert(p) ==
    /\ run[p].pc = "revert"
    /\ \E took \in Took :
         /\ Fails(took)
         /\ Changes(p, IF took THEN [method |-> "Manual", net |-> run[p].snap] ELSE cfg,
                    [run[p] EXCEPT !.pc = "record", !.token = "reverted", !.stuck = ~took])
    /\ UNCHANGED <<wifi, job, flaps, offActs>>

Heal(p) == Snapshot(p) \/ Act(p) \/ Verify(p) \/ Revert(p)

(***************************************************************************)
(* The wrapper.  It writes a heartbeat at every exit.                      *)
(***************************************************************************)
Beats(word) == beat' = word /\ fresh' = TRUE

WrapperStops ==
    /\ \/ moves < MaxMoves /\ moves' = moves + 1 /\ Beats("ERROR")  \* no sanctum on the path
       \/ disabled /\ Beats("DISABLED") /\ UNCHANGED moves
       \/ ~disabled /\ attempts = MaxAttempts /\ Beats("STOP") /\ UNCHANGED moves
    /\ UNCHANGED <<wifi, cfg, loaded, disabled, attempts, run, flaps, offActs>>

\* (mutant) without the kill-switch
WrapperRunsOff ==
    /\ attempts < MaxAttempts
    /\ Probe(Daemon)
    /\ UNCHANGED <<wifi, cfg, job, flaps, offActs>>

\* (mutant) the cap off by one
WrapperRunsOnce ==
    /\ ~disabled /\ attempts <= MaxAttempts
    /\ Probe(Daemon)
    /\ UNCHANGED <<wifi, cfg, job, flaps, offActs>>

WrapperRuns ==
    /\ ~disabled /\ attempts < MaxAttempts
    /\ Probe(Daemon)
    /\ UNCHANGED <<wifi, cfg, job, flaps, offActs>>

Fire == loaded /\ run[Daemon].pc = "idle" /\ (WrapperStops \/ WrapperRuns)

\* (mutant) the naive grep for "healed", which "not healed" contains
RecordByProse ==
    /\ run[Daemon].pc = "record"
    /\ Goto(Daemon, Idle)
    /\ LET healed == run[Daemon].token \in {"healed", "reverted"} IN
       /\ attempts' = IF healed THEN 0 ELSE attempts + 1
       /\ flaps' = IF run[Daemon].token = "healed" THEN 0 ELSE flaps
       /\ Beats(IF healed THEN "healed" ELSE "no-heal")
    /\ UNCHANGED <<wifi, cfg, moves, loaded, disabled, offActs>>

\* Only the healed token clears the file; anything else, or nothing, counts.
Record ==
    /\ run[Daemon].pc = "record"
    /\ Goto(Daemon, Idle)
    /\ LET healed == run[Daemon].token = "healed" IN
       /\ attempts' = IF healed THEN 0 ELSE attempts + 1
       /\ flaps' = IF healed THEN 0 ELSE flaps
       /\ Beats(IF healed THEN "healed" ELSE "no-heal")
    /\ UNCHANGED <<wifi, cfg, moves, loaded, disabled, offActs>>

OperatorDone ==
    /\ run[Operator].pc = "record"
    /\ Goto(Operator, Idle)
    /\ UNCHANGED <<wifi, cfg, moves, job, flaps, offActs>>

DaemonStep == Fire \/ Heal(Daemon) \/ Record
OperatorStep == OperatorHeals \/ Heal(Operator) \/ OperatorDone

HealNext ==
    DaemonStep \/ OperatorStep \/ Nature \/ Lapse \/ KillSwitch \/ Restart \/ InstallDaemon

HealSpec == HealInit /\ [][HealNext]_healVars

\* launchd goes on starting the wrapper, and a command that was started ends.
LiveSpec ==
    HealSpec /\ WF_healVars(DaemonStep) /\ WF_healVars(Heal(Operator) \/ OperatorDone)

(***************************************************************************)
(* The daemon's row of `sanctum net status`, read by root.                 *)
(***************************************************************************)
\* (mutant) a loaded daemon with a fresh heartbeat is fine
DaemonRowFresh ==
    IF ~loaded THEN "DOWN"
    ELSE IF beat = "DISABLED" THEN "ATTENTION"
    ELSE IF beat # "none" /\ ~fresh THEN "DOWN"
    ELSE "OK"

DaemonRow ==
    IF ~loaded \/ beat \in {"STOP", "ERROR"} THEN "DOWN"
    ELSE IF beat = "DISABLED" THEN "ATTENTION"
    ELSE IF beat # "none" /\ ~fresh THEN "DOWN"
    ELSE "OK"

(***************************************************************************)
(* A heal never takes the router from a node that reached it: when a run   *)
(* has ended and nothing else touched the network meanwhile, the router    *)
(* still answers, whatever the change itself did or failed to do, unless   *)
(* the one command that puts the snapshot back failed (net_heal).          *)
(***************************************************************************)
NeverStranded ==
    \A p \in Procs :
        run[p].pc = "record" /\ run[p].had /\ ~run[p].stuck => GatewayAnswers

(***************************************************************************)
(* "on failure reverts to the snapshot" (net_heal): a run that says it has *)
(* reverted leaves the node with the router it had before, if nothing else *)
(* touched the network meanwhile.                                          *)
(***************************************************************************)
RevertedIsBack ==
    \A p \in Procs :
        run[p].pc = "record" /\ run[p].token = "reverted" /\ run[p].had => GatewayAnswers

(***************************************************************************)
(* The no-loop cap: between two restarts the daemon commands a change of   *)
(* the interface MAX_HEAL_ATTEMPTS times at most without a heal it         *)
(* verified.                                                               *)
(***************************************************************************)
FlapsBounded == flaps <= MaxAttempts

(***************************************************************************)
(* After the kill-switch is put the daemon changes the interface once at   *)
(* most: in the cycle that had already passed the switch.                  *)
(***************************************************************************)
OffActsBounded == offActs <= 1

(***************************************************************************)
(* Auto-heal that has paused itself does not stay behind an OK row: the    *)
(* pane says so, or the pause is over (step 2 of _daemon_row).             *)
(***************************************************************************)
PauseIsShown == attempts = MaxAttempts ~> DaemonRow # "OK" \/ attempts < MaxAttempts

(***************************************************************************)
(* What a lease cures is cured by the first cycle that meets it: once the  *)
(* world holds still, a pinned address or one of another network gives way *)
(* to a lease whose router answers.                                        *)
(***************************************************************************)
Curable ==
    /\ loaded /\ ~disabled /\ attempts < MaxAttempts
    /\ \A p \in Procs : run[p].pc = "idle"
    /\ here # NoNet /\ gwUp /\ dhcpUp /\ route = "wifi" /\ spine
    /\ cfg.net \notin OverlapNets \cup {NoNet}
    /\ cfg.method = "Manual" \/ cfg.net # here
Cured == cfg.method = "DHCP" /\ GatewayAnswers
CuresWhatItCan == moves = MaxMoves /\ Curable ~> Cured

(***************************************************************************)
(* "after this many heal attempts we stop and alert a human rather than    *)
(* re-flapping the interface forever" (heal.py): the daemon does not       *)
(* change the interface for ever.                                          *)
(***************************************************************************)
FlappingEnds == <>[](run[Daemon].pc # "verify")

=============================================================================
