--------------------------- MODULE GuardedChange ---------------------------
(***************************************************************************)
(* What the device rails promise of one guarded change, whatever the       *)
(* change does (sanctum_cli/devices/rails.py, the contract of              *)
(* guarded_apply): the restorable settings are captured before anything    *)
(* moves, a declined change moves nothing, and "rolled back" is only ever  *)
(* said of settings that are again what was captured.  Everything about    *)
(* how a change runs, fails or is unwound is left out.                     *)
(***************************************************************************)
CONSTANT Setting        \* the restorable leaves of a device

VARIABLES
    phase,              \* how far the guarded change is
    config,             \* the settings of the device
    base,               \* the settings captured before the change
    told                \* what the operator was last told

gcVars == <<phase, config, base, told>>

Config == [Setting -> BOOLEAN]

GCTypeOK ==
    /\ phase \in {"closed", "open", "changing", "undoing", "manual"}
    /\ config \in Config
    /\ base \in Config
    /\ told \in {"none", "aborted", "committed", "rolled_back", "half_applied",
                 "left_in_place", "refused", "crashed", "recovered", "incomplete"}

GCInit ==
    /\ phase = "closed"
    /\ config \in Config
    /\ base \in Config
    /\ told = "none"

\* A command starts: nothing has been captured or changed yet.
Prepare ==
    /\ phase = "closed"
    /\ told' = "none"
    /\ UNCHANGED <<phase, config, base>>

\* The snapshot: the base is what the device holds now.
Capture ==
    /\ phase = "closed"
    /\ phase' = "open"
    /\ base' = config
    /\ UNCHANGED <<config, told>>

\* The operator accepts the change.
Accept ==
    /\ phase = "open"
    /\ phase' = "changing"
    /\ UNCHANGED <<config, base, told>>

\* The operator declines it: the device is what it was.
Decline ==
    /\ phase = "open"
    /\ phase' = "closed"
    /\ told' = "aborted"
    /\ UNCHANGED <<config, base>>

Mutate ==
    /\ phase \in {"changing", "undoing", "manual"}
    /\ config' \in Config
    /\ UNCHANGED <<phase, base, told>>

Commit ==
    /\ phase = "changing"
    /\ phase' = "closed"
    /\ told' = "committed"
    /\ config' \in Config
    /\ UNCHANGED base

\* A change that fails may have moved the device first.
Fail ==
    /\ phase = "changing"
    /\ phase' = "undoing"
    /\ config' \in Config
    /\ UNCHANGED <<base, told>>

LeaveInPlace ==
    /\ phase = "changing"
    /\ phase' = "closed"
    /\ told' = "left_in_place"
    /\ config' \in Config
    /\ UNCHANGED base

\* The promise: restored means restored.
Restored ==
    /\ phase = "undoing"
    /\ config = base
    /\ phase' = "closed"
    /\ told' = "rolled_back"
    /\ UNCHANGED <<config, base>>

HalfApplied ==
    /\ phase = "undoing"
    /\ phase' = "closed"
    /\ told' = "half_applied"
    /\ UNCHANGED <<config, base>>

\* A stand-alone undo, outside the rails: it disengages every setting.
Manual ==
    /\ phase = "closed"
    /\ phase' = "manual"
    /\ base' = [s \in Setting |-> FALSE]
    /\ told' = "none"
    /\ UNCHANGED config

ManualDone ==
    /\ phase = "manual"
    /\ phase' = "closed"
    /\ \/ told' = "recovered" /\ config = base
       \/ told' = "incomplete"
    /\ UNCHANGED <<config, base>>

\* The process dies, or refuses before it has captured anything.
Stop ==
    /\ phase' = "closed"
    /\ \/ told' = "crashed"
       \/ told' = "refused" /\ phase = "closed"
    /\ UNCHANGED <<config, base>>

GCNext ==
    \/ Prepare \/ Capture \/ Accept \/ Decline \/ Mutate \/ Commit \/ Fail
    \/ LeaveInPlace \/ Restored \/ HalfApplied \/ Manual \/ ManualDone \/ Stop

GCSpec == GCInit /\ [][GCNext]_gcVars
=============================================================================
