----------------------------- MODULE HubCutover -----------------------------
(***************************************************************************)
(* One operator driving the hub from the command line:                     *)
(*   sanctum net single-nat --apply      the staged Advanced-DMZ cutover   *)
(*   sanctum net single-nat --rollback   its stand-alone undo              *)
(*   sanctum net hub set                 one guarded leaf write            *)
(* (commands/net.py over devices/intents.py, rails.py, sagemcom.py and     *)
(* armor.py), against a house that moves on its own: the hub reboots, the  *)
(* Firewalla's lease changes, the out-of-band channel comes and goes, and  *)
(* the process may die between any two steps.  Commands run one after the  *)
(* other; what one leaves behind is where the next one starts.             *)
(*                                                                         *)
(* A leaf is TRUE when it is engaged.  Times are poll ticks: SettleTicks   *)
(* stands for the 360 s settle window, BoxOpTicks for the 480 s ride.      *)
(***************************************************************************)
EXTENDS FlipBrain

CONSTANTS SettleTicks, BoxOpTicks, MaxCommands

ASSUME TicksAssumption == SettleTicks \in Nat /\ BoxOpTicks \in Nat
ASSUME MaxCommandsAssumption == MaxCommands \in Nat

\* The leaves a snapshot captures, and one an operator can set that it does not.
Tracked == {"bridge", "dmz"}
Leaf == Tracked \cup {"other"}

VARIABLES
    \* the house
    leaf,       \* the hub's configured leaves
    latched,    \* passthrough is in force: a leaf was engaged when the hub booted
    hub,        \* "up", "restarting" (reboot accepted, not begun) or "down"
    wan,        \* the lease the Firewalla holds
    oob,        \* the out-of-band recovery channel is live
    armor,      \* the /32 hook is deployed and wired on the box
    \* the process
    pc,         \* where the command is
    cmd,        \* which command it is
    requires,   \* the playbook it matched needs the /32 armor
    done,       \* stages completed in this walk
    snap,       \* the captured leaves
    todo,       \* leaves the rollback has still to write
    failed,     \* one of the rollback's writes was refused
    elapsed,    \* ticks spent in the current ride
    cache,      \* the runner's cached WAN address, "unset" until first read
    \* what can be observed
    touched,    \* this command has written the DMZ leaf on its way forward
    outcome,    \* what the operator was last told
    commands    \* commands started so far

house == <<leaf, latched, hub, wan, oob, armor>>
locals == <<requires, done, snap, todo, failed, elapsed, cache, touched>>
vars == <<leaf, latched, hub, wan, oob, armor, pc, cmd, requires, done, snap, todo,
          failed, elapsed, cache, touched, outcome, commands>>

ForwardPc == FlipStage \cup {"interlock", "poison_gate", "lease_verifier"}
RollbackPc == {"rb_leaves", "rb_reboot", "rb_release", "rb_check"}
Outcome == {"none", "refused", "aborted", "committed", "rolled_back", "half_applied",
            "left_in_place", "crashed", "recovered", "incomplete"}

TypeOK ==
    /\ leaf \in [Leaf -> BOOLEAN]
    /\ latched \in BOOLEAN
    /\ hub \in {"up", "restarting", "down"}
    /\ wan \in Lease
    /\ oob \in BOOLEAN
    /\ armor \in BOOLEAN
    /\ pc \in {"idle", "gate", "snapshot", "confirm", "walk", "set_leaf"}
              \cup ForwardPc \cup RollbackPc
    /\ cmd \in {"none", "apply", "rollback", "set"}
    /\ requires \in BOOLEAN
    /\ done \subseteq FlipStage
    /\ snap \in [Tracked -> BOOLEAN]
    /\ todo \subseteq Tracked
    /\ failed \in BOOLEAN
    /\ elapsed \in 0 .. (SettleTicks + BoxOpTicks)
    /\ cache \in Lease \cup {"unset"}
    /\ touched \in BOOLEAN
    /\ outcome \in Outcome
    /\ commands \in 0 .. MaxCommands

\* A double-NAT house nobody has touched.
Init ==
    /\ leaf = [l \in Leaf |-> FALSE]
    /\ latched = FALSE
    /\ hub = "up"
    /\ wan = "double_nat"
    /\ oob \in BOOLEAN
    /\ armor = FALSE
    /\ pc = "idle"
    /\ cmd = "none"
    /\ requires = TRUE
    /\ done = {}
    /\ snap = [l \in Tracked |-> FALSE]
    /\ todo = {}
    /\ failed = FALSE
    /\ elapsed = 0
    /\ cache = "unset"
    /\ touched = FALSE
    /\ outcome = "none"
    /\ commands = 0

-----------------------------------------------------------------------------
(***************************************************************************)
(* The house.                                                              *)
(***************************************************************************)

\* What a DHCP exchange on the Firewalla's WAN can end in just now: nothing or
\* a self-assigned address at any time, the hub's own LAN while it does NAT, an
\* ISP lease while passthrough is in force.  The armor holds a lease at /32.
LeaseOffers ==
    {"none", "apipa"} \cup
    IF hub = "down" THEN {}
    ELSE IF ~latched THEN {"double_nat"}
    ELSE {"wide", "poisoned", "cgnat"} \cup (IF armor THEN {"pinned"} ELSE {})

LeaseChanges ==
    /\ wan' \in LeaseOffers
    /\ UNCHANGED <<leaf, latched, hub, oob, armor, pc, cmd, locals, outcome, commands>>

\* The hub goes down for the reboot it accepted, or on its own.
HubGoesDown ==
    /\ hub \in {"up", "restarting"}
    /\ hub' = "down"
    /\ UNCHANGED <<leaf, latched, wan, oob, armor, pc, cmd, locals, outcome, commands>>

\* A boot is what latches the configured leaves.
HubBoots ==
    /\ hub = "down"
    /\ hub' = "up"
    /\ latched' = (leaf["dmz"] \/ leaf["bridge"])
    /\ UNCHANGED <<leaf, wan, oob, armor, pc, cmd, locals, outcome, commands>>

OobChanges ==
    /\ oob' = ~oob
    /\ UNCHANGED <<leaf, latched, hub, wan, armor, pc, cmd, locals, outcome, commands>>

-----------------------------------------------------------------------------
(***************************************************************************)
(* Transports.  Each names its result in its last argument.                *)
(***************************************************************************)

\* (mutant) A reply body nobody inspects: a refused write counts as a done one.
HubSetUninspected(l, v, ok) ==
    \/ leaf' = leaf
    \/ hub # "down" /\ leaf' = [leaf EXCEPT ![l] = v]

\* setValue on one leaf.  A hub that answers has applied it; an exchange that
\* fails has or has not, and a hub that is down never has.
HubSet(l, v, ok) ==
    \/ /\ ok
       /\ hub # "down"
       /\ leaf' = [leaf EXCEPT ![l] = v]
    \/ /\ ~ok
       /\ \/ leaf' = leaf
          \/ hub # "down" /\ leaf' = [leaf EXCEPT ![l] = v]

\* The reboot action.  A dropped connection counts as "reboot initiated", so ok
\* does not prove that the hub is going to restart; a hub that is down can only
\* drop the connection.
HubRebootRequest(ok) ==
    \/ ok /\ hub' = (IF hub = "up" THEN "restarting" ELSE hub)
    \/ ok /\ hub' = hub
    \/ ~ok /\ hub # "down" /\ hub' = hub

\* Release and renew on the box over SSH.  A failure may have released first.
ReLease(ok) ==
    \/ ok /\ wan' \in LeaseOffers
    \/ ~ok /\ wan' \in {wan, "none"}

\* verify() over this process's runner, whose WAN address is read once and then
\* served from its cache (an unreachable box reads as no address); the
\* traceroute is never cached.
RunnerReads == IF cache = "unset" THEN {wan, "none"} ELSE {cache}

VerifyWan(verdict, read) ==
    \E hop2 \in Hop2(wan) : verdict = VerifyVerdict(hop2, read)

-----------------------------------------------------------------------------
(***************************************************************************)
(* Starting and ending a command.                                          *)
(***************************************************************************)

\* The command returns and tells the operator how it went; its locals go.
Return(told) ==
    /\ pc' = "idle"
    /\ outcome' = told
    /\ done' = {}
    /\ todo' = {}
    /\ failed' = FALSE
    /\ elapsed' = 0
    /\ cache' = "unset"
    /\ touched' = FALSE
    /\ UNCHANGED <<cmd, requires, snap, commands>>

\* (mutant) Only the leaf the cutover is about is restored.
UnwindDmzOnly ==
    /\ pc' = "rb_leaves"
    /\ todo' = {"dmz"}
    /\ failed' = FALSE
    /\ done' = {}
    /\ elapsed' = 0
    /\ UNCHANGED <<cmd, requires, snap, outcome, commands>>

\* A change raised: the rails hand over to the rollback of the snapshot.
Unwind ==
    /\ pc' = "rb_leaves"
    /\ todo' = Tracked
    /\ failed' = FALSE
    /\ done' = {}
    /\ elapsed' = 0
    /\ UNCHANGED <<cmd, requires, snap, outcome, commands>>

\* A stage is over: the walk looks for the next one.
StageDone(s) ==
    /\ pc' = "walk"
    /\ done' = done \cup {s}
    /\ elapsed' = 0
    /\ UNCHANGED <<cmd, requires, snap, todo, failed, outcome, commands>>

Goto(p) ==
    /\ pc' = p
    /\ UNCHANGED <<cmd, requires, done, snap, todo, failed, elapsed, outcome, commands>>

Start(c, p) ==
    /\ pc = "idle"
    /\ commands < MaxCommands
    /\ commands' = commands + 1
    /\ cmd' = c
    /\ pc' = p
    /\ requires' \in (IF c = "apply" THEN BOOLEAN ELSE {requires})
    /\ outcome' = "none"
    /\ UNCHANGED <<house, done, todo, failed, elapsed, cache, touched>>

\* --apply, armed in the configuration, with a box that passed its preflight.
StartApply == Start("apply", "gate") /\ UNCHANGED snap

StartSet == Start("set", "snapshot") /\ UNCHANGED snap

\* --rollback, confirmed: it works from a baseline with every leaf disengaged.
StartRollback ==
    /\ pc = "idle"
    /\ commands < MaxCommands
    /\ commands' = commands + 1
    /\ cmd' = "rollback"
    /\ pc' = "rb_leaves"
    /\ todo' = Tracked
    /\ snap' = [l \in Tracked |-> FALSE]
    /\ outcome' = "none"
    /\ UNCHANGED <<house, requires, done, failed, elapsed, cache, touched>>

\* The start precondition: no recovery path, or no hub session, no flip.
Gate ==
    /\ pc = "gate"
    /\ \/ oob /\ Goto("snapshot") /\ UNCHANGED <<cache, touched>>
       \/ Return("refused")
    /\ UNCHANGED house

\* Both leaves are read; a read that fails escapes before anything has moved.
Snapshot ==
    /\ pc = "snapshot"
    /\ \/ /\ hub # "down"
          /\ snap' = [l \in Tracked |-> leaf[l]]
          /\ pc' = "confirm"
          /\ UNCHANGED <<cmd, requires, done, todo, failed, elapsed, cache, touched,
                         outcome, commands>>
       \/ Return("refused")
    /\ UNCHANGED house

\* --force or a yes goes on, a no is an abort.
Confirm ==
    /\ pc = "confirm"
    /\ \/ /\ Goto(IF cmd = "apply" THEN "walk" ELSE "set_leaf")
          /\ UNCHANGED <<cache, touched>>
       \/ Return("aborted")
    /\ UNCHANGED house

\* The process is killed, or the machine loses power: no handler runs.
Crash ==
    /\ pc # "idle"
    /\ Return("crashed")
    /\ UNCHANGED house

-----------------------------------------------------------------------------
(***************************************************************************)
(* The walk over FLIP_STAGES.                                              *)
(***************************************************************************)

\* (mutant) The playbook's flag read the wrong way round.
SkippedStagesInverted == IF requires THEN {"stage_armor", "apply_armor"} ELSE {}

SkippedStages == IF requires THEN {} ELSE {"stage_armor", "apply_armor"}

\* The walk asks for the next stage: it marks a skipped one as done, puts the
\* interlock before the one that engages DMZ, and is over when none is left.
\* The preflight stage itself does nothing.
Walk ==
    /\ pc = "walk"
    /\ \/ \E s \in FlipStage :
            /\ IsNextStage(s, done)
            /\ IF s \in SkippedStages \cup {"preflight"} THEN StageDone(s)
               ELSE Goto(IF s \in INTERLOCKED_STAGES THEN "interlock" ELSE s)
            /\ UNCHANGED <<cache, touched>>
       \/ /\ \A s \in FlipStage : ~IsNextStage(s, done)
          /\ Return("committed")
    /\ UNCHANGED house

\* One attempt of a box operation that rides the dark window: it lands, it is
\* tried again, or the window is over and Over says what then.
Ride(Landed, Over) ==
    /\ \/ ReLease(TRUE) /\ Landed
       \/ /\ ReLease(FALSE)
          /\ IF BoxOpRetryDecision(elapsed, BoxOpTicks) = "retry"
             THEN /\ elapsed' = elapsed + 1
                  /\ UNCHANGED <<pc, cmd, requires, done, snap, todo, failed, outcome,
                                 commands, cache, touched>>
             ELSE Over
    /\ UNCHANGED <<leaf, latched, hub, oob, armor>>

WanDhcp ==
    /\ pc = "wan_dhcp"
    /\ Ride(StageDone("wan_dhcp") /\ UNCHANGED <<cache, touched>>,
            Unwind /\ UNCHANGED <<cache, touched>>)

\* The hook goes onto the box and is checked structurally; a deploy that fails
\* part-way may have wired it already.
StageArmor ==
    /\ pc = "stage_armor"
    /\ \/ armor' = TRUE /\ StageDone("stage_armor")
       \/ (UNCHANGED armor \/ armor' = TRUE) /\ Unwind
    /\ UNCHANGED <<leaf, latched, hub, wan, oob, cache, touched>>

\* The recovery channel is probed again right before the hub is touched.  The
\* disengaged baseline always has both leaves.
Interlock ==
    /\ pc = "interlock"
    /\ IF EvaluateInterlock(oob, ~requires \/ "stage_armor" \in done, TRUE)
       THEN Goto("enable_dmz")
       ELSE Unwind
    /\ UNCHANGED <<house, cache, touched>>

EnableDmz ==
    /\ pc = "enable_dmz"
    /\ \/ HubSet("dmz", TRUE, TRUE) /\ StageDone("enable_dmz")
       \/ HubSet("dmz", TRUE, FALSE) /\ Unwind
    /\ touched' = TRUE
    /\ UNCHANGED <<latched, hub, wan, oob, armor, cache>>

HubReboot ==
    /\ pc = "hub_reboot"
    /\ \/ HubRebootRequest(TRUE) /\ StageDone("hub_reboot")
       \/ HubRebootRequest(FALSE) /\ Unwind
    /\ UNCHANGED <<leaf, latched, wan, oob, armor, cache, touched>>

-----------------------------------------------------------------------------
(***************************************************************************)
(* observe_lease: the settle poll, its two gates, and the stage's probe.   *)
(***************************************************************************)

\* One tick of the poll.  A read that fails counts as no lease; the nudge
\* between two ticks may fail as well, and its failure is dropped.
ObserveLease ==
    /\ pc = "observe_lease"
    /\ \E observed \in {ClassifyWanIp(wan), "none"} :
         LET decision == SettlePollDecision(observed, elapsed, SettleTicks) IN
         \/ decision = "settled_ok" /\ Goto("poison_gate") /\ UNCHANGED wan
         \/ decision = "hard_fail" /\ Unwind /\ UNCHANGED wan
         \/ /\ decision = "keep_polling"
            /\ wan' \in LeaseOffers \cup {wan, "none"}
            /\ elapsed' = elapsed + 1
            /\ UNCHANGED <<pc, cmd, requires, done, snap, todo, failed, outcome, commands>>
    /\ UNCHANGED <<leaf, latched, hub, oob, armor, cache, touched>>

\* The raw address and routes are read again; a read that fails raises.
PoisonGate ==
    /\ pc = "poison_gate"
    /\ \/ EvaluateWanPoison(wan, requires) /\ Goto("lease_verifier")
       \/ Unwind
    /\ UNCHANGED <<house, cache, touched>>

\* (mutant) The probe goes through the cached WAN address instead.
LeaseVerifierThroughCache ==
    /\ pc = "lease_verifier"
    /\ \/ LeaseIsSingleNat(wan) /\ StageDone("observe_lease")
       \/ Unwind
    /\ cache' = wan
    /\ UNCHANGED <<house, touched>>

\* And the lease a last time, for the stage's own probe.
LeaseVerifier ==
    /\ pc = "lease_verifier"
    /\ \/ LeaseIsSingleNat(wan) /\ StageDone("observe_lease")
       \/ Unwind
    /\ UNCHANGED <<house, cache, touched>>

\* The kit is deployed a second time and its health read back.
ApplyArmor ==
    /\ pc = "apply_armor"
    /\ \/ armor' = TRUE /\ StageDone("apply_armor")
       \/ (UNCHANGED armor \/ armor' = TRUE) /\ Unwind
    /\ UNCHANGED <<leaf, latched, hub, wan, oob, cache, touched>>

Verify ==
    /\ pc = "verify"
    /\ \E verdict \in Verdict, read \in RunnerReads :
         /\ VerifyWan(verdict, read)
         /\ cache' = read
         /\ IF verdict = "VERIFIED" THEN StageDone("verify") ELSE Unwind
    /\ UNCHANGED <<house, touched>>

\* The boot armor is run once more on the box.
Arm ==
    /\ pc = "arm"
    /\ StageDone("arm") \/ Unwind
    /\ UNCHANGED <<house, cache, touched>>

\* hub set: one write, committed when it did not raise; --no-rollback leaves a
\* failed one where it is.
SetLeaf ==
    /\ pc = "set_leaf"
    /\ \E l \in Leaf, v \in BOOLEAN :
         \/ HubSet(l, v, TRUE) /\ Return("committed")
         \/ HubSet(l, v, FALSE) /\ Return("left_in_place")
         \/ HubSet(l, v, FALSE) /\ Unwind /\ UNCHANGED <<cache, touched>>
    /\ UNCHANGED <<latched, hub, wan, oob, armor>>

-----------------------------------------------------------------------------
(***************************************************************************)
(* The rollback: of a failed change, through the rails, or on its own.     *)
(***************************************************************************)

\* (mutant) A refused write is sent again until the hub takes it.
RbLeafUntilAccepted ==
    /\ pc = "rb_leaves"
    /\ \E l \in todo :
         /\ \/ HubSet(l, snap[l], TRUE) /\ todo' = todo \ {l}
            \/ HubSet(l, snap[l], FALSE) /\ todo' = todo
    /\ UNCHANGED <<latched, hub, wan, oob, armor, pc, cmd, requires, done, snap, failed,
                   elapsed, cache, touched, outcome, commands>>

\* Every captured leaf is written back (a leaf the hub did not surface when it
\* was captured comes last, so either may be first); a write that is refused is
\* noted and the next one still goes out.
RbLeaf ==
    /\ pc = "rb_leaves"
    /\ \E l \in todo :
         /\ todo' = todo \ {l}
         /\ \/ HubSet(l, snap[l], TRUE) /\ UNCHANGED failed
            \/ HubSet(l, snap[l], FALSE) /\ failed' = TRUE
    /\ UNCHANGED <<latched, hub, wan, oob, armor, pc, cmd, requires, done, snap, elapsed,
                   cache, touched, outcome, commands>>

\* What a rollback that did not get through leaves the operator with.
Incomplete == IF cmd = "rollback" THEN "incomplete" ELSE "half_applied"

\* (mutant) The unwinding goes on over a leaf it could not restore.
RbLeavesDoneRegardless ==
    /\ pc = "rb_leaves"
    /\ todo = {}
    /\ \/ cmd = "set" /\ Return(IF failed THEN Incomplete ELSE "rolled_back")
       \/ cmd # "set" /\ Goto("rb_reboot") /\ UNCHANGED <<cache, touched>>
    /\ UNCHANGED house

\* A plain hub set is restored now; a cutover's unwinding goes on, and never
\* over a leaf that could not be restored.
RbLeavesDone ==
    /\ pc = "rb_leaves"
    /\ todo = {}
    /\ \/ failed /\ Return(Incomplete)
       \/ ~failed /\ cmd = "set" /\ Return("rolled_back")
       \/ ~failed /\ cmd # "set" /\ Goto("rb_reboot") /\ UNCHANGED <<cache, touched>>
    /\ UNCHANGED house

RbReboot ==
    /\ pc = "rb_reboot"
    /\ \/ HubRebootRequest(TRUE) /\ Goto("rb_release") /\ UNCHANGED <<cache, touched>>
       \/ HubRebootRequest(FALSE) /\ Return(Incomplete)
    /\ UNCHANGED <<leaf, latched, wan, oob, armor>>

RbRelease ==
    /\ pc = "rb_release"
    /\ Ride(Goto("rb_check") /\ UNCHANGED <<cache, touched>>, Return(Incomplete))

\* Recovered means back behind the hub's NAT; any other verdict is a failure.
RbCheck ==
    /\ pc = "rb_check"
    /\ \E verdict \in Verdict, read \in RunnerReads :
         /\ VerifyWan(verdict, read)
         /\ Return(IF verdict # "NOT_YET" THEN Incomplete
                   ELSE IF cmd = "rollback" THEN "recovered" ELSE "rolled_back")
    /\ UNCHANGED house

-----------------------------------------------------------------------------
StartCommand == StartApply \/ StartSet \/ StartRollback

House == LeaseChanges \/ HubGoesDown \/ HubBoots \/ OobChanges

\* What the process does by itself, once it is running and not waiting for a yes.
Process ==
    \/ Gate \/ Snapshot
    \/ Walk \/ WanDhcp \/ StageArmor \/ Interlock \/ EnableDmz \/ HubReboot
    \/ ObserveLease \/ PoisonGate \/ LeaseVerifier \/ ApplyArmor \/ Verify \/ Arm
    \/ SetLeaf
    \/ RbLeaf \/ RbLeavesDone \/ RbReboot \/ RbRelease \/ RbCheck

Next == StartCommand \/ Confirm \/ Process \/ Crash \/ House

\* Every call of the process is bounded by a timeout, so it takes its next step;
\* nobody has to start a command, answer a prompt, or keep the house still.
Spec == Init /\ [][Next]_vars /\ WF_vars(Process)

-----------------------------------------------------------------------------
(***************************************************************************)
(* What makes the cutover safe.                                            *)
(***************************************************************************)

\* The moment DMZ is engaged the /32 hook is on the box, whenever the matched
\* playbook hands out Bell's /1 leases: FIX-2 and FIX-3 of flip.py, across the
\* interlock, the skipped stages, and deploys that fail half-way.
ArmoredBeforeEngaged ==
    cmd = "apply" /\ requires /\ touched => armor

\* A reboot or a re-lease of the unwinding never happens over a leaf that is not
\* what was captured ("we do NOT reboot or re-lease on top of a still-engaged
\* DMZ"): refused writes, writes whose answer was lost and crashes included.
UnwindsOverRestoredLeaves ==
    pc \in {"rb_reboot", "rb_release", "rb_check"} => \A l \in Tracked : leaf[l] = snap[l]

\* A stand-alone rollback that reports a recovered network has found the house
\* behind the hub's NAT at that moment, with every leaf disengaged.
RecoveryIsReal ==
    [][cmd = "rollback" /\ outcome' = "recovered" /\ pc' # pc
        => wan = "double_nat" /\ \A l \in Tracked : ~leaf[l]]_vars

\* No flip is given up for a lease that is merely late: the settle poll fails
\* only past its window, or on a lease of the hub's own LAN.
SettlesBeforeFailing ==
    [][pc = "observe_lease" /\ pc' = "rb_leaves"
        => elapsed >= SettleTicks \/ wan = "double_nat"]_vars

\* A cutover that was committed stands: DMZ is engaged on the hub and, where the
\* playbook needs it, the armor is on the box.
CommittedStands ==
    cmd = "apply" /\ outcome = "committed" => leaf["dmz"] /\ (requires => armor)

\* The terminal check judges the WAN of that moment, not one read earlier: its
\* address comes from a per-process cache that nothing may have filled before.
VerifiedMeansPublic ==
    [][pc = "verify" /\ pc' = "walk" => wan \in {"pinned", "wide", "poisoned"}]_vars

\* Whatever fails, the command comes back to the operator.
CommandEnds ==
    pc \notin {"idle", "confirm"} ~> pc \in {"idle", "confirm"}
-----------------------------------------------------------------------------
(***************************************************************************)
(* What comments of the code claim and the code does not do.               *)
(***************************************************************************)

\* "A failed stage unwinds the flip before the hub is ever touched": a cutover
\* that never wrote the DMZ leaf does not reboot the household's hub.
UntouchedHubNotRebooted ==
    cmd = "apply" /\ pc = "rb_reboot" => touched

\* "Re-read + classify the downstream WAN": the address the unwinding's recovery
\* check judges is the one the Firewalla holds then.
RecheckReadsTheWan ==
    pc = "rb_check" => cache \in {"unset", wan}

\* A double-NAT lease "means Advanced DMZ never took": the poll draws that
\* verdict only once the hub has taken the reboot it accepted.
DoubleNatIsDefinite ==
    [][pc = "observe_lease" /\ pc' = "rb_leaves" /\ elapsed < SettleTicks
        => hub # "restarting"]_vars

-----------------------------------------------------------------------------
(***************************************************************************)
(* The cutover, its rollback and hub set are guarded changes: captured      *)
(* before anything moves, untouched when declined, and reported restored    *)
(* only when they are.                                                      *)
(***************************************************************************)
Phase ==
    CASE pc \in {"idle", "gate", "snapshot"} -> "closed"
      [] pc = "confirm" -> "open"
      [] pc \in RollbackPc -> (IF cmd = "rollback" THEN "manual" ELSE "undoing")
      [] OTHER -> "changing"

GC == INSTANCE GuardedChange
        WITH Setting <- Tracked, phase <- Phase,
             config <- [l \in Tracked |-> leaf[l]], base <- snap, told <- outcome

\* guarded_apply's contract, as GuardedChange states it.
ImplementsGuardedChange == GC!GCSpec
=============================================================================
