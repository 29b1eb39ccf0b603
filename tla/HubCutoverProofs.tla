-------------------------- MODULE HubCutoverProofs --------------------------
(***************************************************************************)
(* What holds of the cutover for every length of the two rides and any     *)
(* number of commands.  The safety properties hang on one invariant, Inv:  *)
(* what the process knows of the house at each of its steps.               *)
(***************************************************************************)
EXTENDS HubCutover, TLAPS

WalkPc == ForwardPc \cup {"walk"}

\* Which command can be where, and that it has told nothing yet.
CommandAtPc ==
    /\ pc \in WalkPc \cup {"gate"} => cmd = "apply"
    /\ pc = "set_leaf" => cmd = "set"
    /\ pc \in {"snapshot", "confirm"} => cmd \in {"apply", "set"}
    /\ pc = "rb_leaves" => cmd # "none"
    /\ pc \in {"rb_reboot", "rb_release", "rb_check"} => cmd \in {"apply", "rollback"}
    /\ pc # "idle" => outcome = "none"

\* Outside the walk nothing is left over from one.
NothingLeftOver ==
    /\ pc \notin WalkPc => done = {}
    /\ pc \notin WalkPc \cup RollbackPc => cache = "unset" /\ ~touched

\* What a completed stage, or a stage that is about to run, says of the house.
StagesHold ==
    /\ "enable_dmz" \in done => leaf["dmz"]
    /\ requires /\ "stage_armor" \in done => armor
    /\ requires /\ pc = "enable_dmz" => armor
    /\ requires /\ touched => armor

\* Nothing reads the cached WAN address before the verify stage, and a
\* stand-alone rollback only at its very end.
CacheUnread ==
    /\ pc = "verify" => "verify" \notin done
    /\ pc \in WalkPc /\ "verify" \notin done => cache = "unset"
    /\ cmd = "rollback" => cache = "unset"

\* A leaf the rollback is through with, and was not refused, is what it was.
RestoredSoFar ==
    /\ pc = "rb_leaves" /\ ~failed => \A l \in Tracked \ todo : leaf[l] = snap[l]
    /\ UnwindsOverRestoredLeaves
    /\ cmd = "rollback" /\ pc \in RollbackPc => \A l \in Tracked : ~snap[l]

Inv ==
    /\ TypeOK
    /\ CommandAtPc
    /\ NothingLeftOver
    /\ StagesHold
    /\ CacheUnread
    /\ RestoredSoFar
    /\ CommittedStands

-----------------------------------------------------------------------------
(***************************************************************************)
(* Facts about the pure functions and the helpers.                         *)
(***************************************************************************)

\* The stages by name.
LEMMA StageNames ==
    FlipStage = {"preflight", "wan_dhcp", "stage_armor", "enable_dmz", "hub_reboot",
                 "observe_lease", "apply_armor", "verify", "arm"}
  <1>1. DOMAIN FLIP_STAGES = 1 .. 9
    BY DEF FLIP_STAGES
  <1>2. QED
    BY <1>1 DEF FlipStage, FLIP_STAGES

\* Every lease a DHCP exchange can end in is a lease.
LEMMA OffersAreLeases ==
    LeaseOffers \subseteq Lease
  BY DEF LeaseOffers, Lease

\* The next stage is one that was not done.
LEMMA NextStageIsNotDone ==
    ASSUME NEW s, NEW D, IsNextStage(s, D)
    PROVE  s \notin D
  BY DEF IsNextStage

\* A walk that finds no next stage has done them all.
LEMMA NoNextStage ==
    ASSUME NEW D, \A s \in FlipStage : ~IsNextStage(s, D)
    PROVE  FlipStage \subseteq D
  <1>1. DOMAIN FLIP_STAGES = 1 .. 9
    BY DEF FLIP_STAGES
  <1>2. \A i \in 1 .. 9 : FLIP_STAGES[i] \in FlipStage
    BY <1>1 DEF FlipStage
  <1>3. ASSUME NEW i \in 1 .. 9, \A j \in 1 .. 9 : j < i => FLIP_STAGES[j] \in D
        PROVE  FLIP_STAGES[i] \in D
    BY <1>1, <1>2, <1>3 DEF IsNextStage
  <1>4. FLIP_STAGES[1] \in D  BY <1>3
  <1>5. FLIP_STAGES[2] \in D  BY <1>3, <1>4
  <1>6. FLIP_STAGES[3] \in D  BY <1>3, <1>4, <1>5
  <1>7. FLIP_STAGES[4] \in D  BY <1>3, <1>4, <1>5, <1>6
  <1>8. FLIP_STAGES[5] \in D  BY <1>3, <1>4, <1>5, <1>6, <1>7
  <1>9. FLIP_STAGES[6] \in D  BY <1>3, <1>4, <1>5, <1>6, <1>7, <1>8
  <1>10. FLIP_STAGES[7] \in D  BY <1>3, <1>4, <1>5, <1>6, <1>7, <1>8, <1>9
  <1>11. FLIP_STAGES[8] \in D  BY <1>3, <1>4, <1>5, <1>6, <1>7, <1>8, <1>9, <1>10
  <1>12. FLIP_STAGES[9] \in D
    BY <1>3, <1>4, <1>5, <1>6, <1>7, <1>8, <1>9, <1>10, <1>11
  <1>13. \A i \in 1 .. 9 : FLIP_STAGES[i] \in D
    BY <1>4, <1>5, <1>6, <1>7, <1>8, <1>9, <1>10, <1>11, <1>12
  <1>14. QED
    BY <1>1, <1>13 DEF FlipStage

\* The recovery check says NOT_YET over a fresh read only of a double-NAT house.
LEMMA NotYetIsDoubleNat ==
    ASSUME NEW w \in Lease, NEW hop2 \in Hop2(w), NEW read \in {w, "none"},
           VerifyVerdict(hop2, read) = "NOT_YET"
    PROVE  w = "double_nat"
  BY DEF Lease, Hop2, VerifyVerdict, ClassifyNat

\* The terminal check passes over a fresh read only of a public house.
LEMMA VerifiedIsPublic ==
    ASSUME NEW w \in Lease, NEW hop2 \in Hop2(w), NEW read \in {w, "none"},
           VerifyVerdict(hop2, read) = "VERIFIED"
    PROVE  w \in {"pinned", "wide", "poisoned"}
  BY DEF Lease, Hop2, VerifyVerdict, ClassifyNat

\* The settle poll gives up only past its window or on a double-NAT lease.
LEMMA HardFailIsEarned ==
    ASSUME NEW w \in Lease, NEW e \in Nat, NEW t \in Nat,
           NEW observed \in {ClassifyWanIp(w), "none"},
           SettlePollDecision(observed, e, t) = "hard_fail"
    PROVE  e >= t \/ w = "double_nat"
  BY DEF Lease, ClassifyWanIp, SettlePollDecision, RetryableLeaseClasses

-----------------------------------------------------------------------------
(***************************************************************************)
(* Types, in four parts: the house, the command, the walk, the counters.   *)
(***************************************************************************)
TypeHouse ==
    /\ leaf \in [Leaf -> BOOLEAN]
    /\ latched \in BOOLEAN
    /\ hub \in {"up", "restarting", "down"}
    /\ wan \in Lease
    /\ oob \in BOOLEAN
    /\ armor \in BOOLEAN

TypeCommand ==
    /\ pc \in {"idle", "gate", "snapshot", "confirm", "walk", "set_leaf"}
              \cup ForwardPc \cup RollbackPc
    /\ cmd \in {"none", "apply", "rollback", "set"}
    /\ requires \in BOOLEAN
    /\ outcome \in Outcome

TypeWalk ==
    /\ done \subseteq FlipStage
    /\ snap \in [Tracked -> BOOLEAN]
    /\ todo \subseteq Tracked
    /\ failed \in BOOLEAN
    /\ cache \in Lease \cup {"unset"}
    /\ touched \in BOOLEAN

Counters ==
    /\ elapsed \in 0 .. (SettleTicks + BoxOpTicks)
    /\ commands \in 0 .. MaxCommands

\* The type invariant, in the groups the proofs take it in.
LEMMA TypeParts ==
    TypeOK <=> TypeHouse /\ TypeCommand /\ TypeWalk /\ Counters
  BY Zenon DEF TypeOK, TypeHouse, TypeCommand, TypeWalk, Counters

\* And the same of the next state.
LEMMA TypePartsNext ==
    TypeOK' <=> TypeHouse' /\ TypeCommand' /\ TypeWalk' /\ Counters'
  BY Zenon DEF TypeOK, TypeHouse, TypeCommand, TypeWalk, Counters

\* A house nobody has touched is well-typed.
LEMMA InitTypeOK ==
    Init => TypeOK
  <1> SUFFICES ASSUME Init PROVE TypeOK
    OBVIOUS
  <1>1. TypeHouse
    BY DEF Init, TypeHouse, Lease
  <1>2. TypeCommand
    BY DEF Init, TypeCommand, Outcome
  <1>3. TypeWalk
    BY DEF Init, TypeWalk
  <1>4. Counters
    BY TicksAssumption, MaxCommandsAssumption DEF Init, Counters
  <1>5. QED
    BY <1>1, <1>2, <1>3, <1>4, TypeParts

\* The steps that leave the house alone.
HouseStays ==
    \/ StartCommand \/ Gate \/ Snapshot \/ Confirm \/ Crash \/ Walk \/ Interlock
    \/ PoisonGate \/ LeaseVerifier \/ Verify \/ Arm \/ RbLeavesDone \/ RbCheck

\* A step that leaves the house alone leaves its type alone.
LEMMA HouseStaysUnchanged ==
    HouseStays => UNCHANGED house
  BY DEF HouseStays, StartCommand, StartApply, StartSet, StartRollback, Start, Gate, Snapshot,
     Confirm, Crash, Walk, Interlock, PoisonGate, LeaseVerifier, Verify, Arm,
     RbLeavesDone, RbCheck

\* Every step keeps the house to its type.
LEMMA NextTypeHouse ==
    TypeHouse /\ TypeWalk /\ [Next]_vars => TypeHouse'
  <1> SUFFICES ASSUME TypeHouse, TypeWalk, [Next]_vars PROVE TypeHouse'
    OBVIOUS
  <1> USE DEF TypeHouse
  <1>0. CASE HouseStays
    BY <1>0, HouseStaysUnchanged DEF house
  <1>1. ASSUME WanDhcp PROVE TypeHouse'
    BY <1>1, OffersAreLeases DEF WanDhcp, Ride, StageDone, Unwind, ReLease, Lease
  <1>2. ASSUME StageArmor PROVE TypeHouse'
    BY <1>2 DEF StageArmor, StageDone, Unwind
  <1>3. ASSUME EnableDmz PROVE TypeHouse'
    BY <1>3 DEF EnableDmz, StageDone, Unwind, HubSet
  <1>4. ASSUME HubReboot PROVE TypeHouse'
    BY <1>4 DEF HubReboot, StageDone, Unwind, HubRebootRequest
  <1>5. ASSUME ObserveLease PROVE TypeHouse'
    BY <1>5, OffersAreLeases DEF ObserveLease, Goto, Unwind, Lease
  <1>6. ASSUME ApplyArmor PROVE TypeHouse'
    BY <1>6 DEF ApplyArmor, StageDone, Unwind
  <1>7. ASSUME SetLeaf PROVE TypeHouse'
    BY <1>7 DEF SetLeaf, Return, Unwind, HubSet
  <1>8. ASSUME RbLeaf PROVE TypeHouse'
    BY <1>8 DEF RbLeaf, HubSet, TypeWalk, Tracked, Leaf
  <1>9. ASSUME RbReboot PROVE TypeHouse'
    BY <1>9 DEF RbReboot, Goto, Return, HubRebootRequest
  <1>10. ASSUME RbRelease PROVE TypeHouse'
    BY <1>10, OffersAreLeases DEF RbRelease, Ride, Goto, Return, ReLease, Lease
  <1>11. ASSUME House PROVE TypeHouse'
    BY <1>11, OffersAreLeases DEF House, LeaseChanges, HubGoesDown, HubBoots,
                                  OobChanges, locals
  <1>12. CASE UNCHANGED vars
    BY <1>12 DEF vars
  <1>13. QED
    BY <1>0, <1>1, <1>2, <1>3, <1>4, <1>5, <1>6, <1>7, <1>8, <1>9, <1>10, <1>11,
       <1>12
    DEF Next, Process, HouseStays

\* Every step keeps the command and its outcome to their types.
LEMMA NextTypeCommand ==
    TypeCommand /\ [Next]_vars => TypeCommand'
  <1> SUFFICES ASSUME TypeCommand, [Next]_vars PROVE TypeCommand'
    OBVIOUS
  <1> USE DEF TypeCommand
  <1>1. ASSUME StartCommand PROVE TypeCommand'
    BY <1>1 DEF StartCommand, StartApply, StartSet, StartRollback, Start,
                RollbackPc, Outcome
  <1>2. ASSUME Gate PROVE TypeCommand'
    BY <1>2 DEF Gate, Goto, Return, Outcome
  <1>3. ASSUME Snapshot PROVE TypeCommand'
    BY <1>3 DEF Snapshot, Return, Outcome
  <1>4. ASSUME Confirm PROVE TypeCommand'
    BY <1>4 DEF Confirm, Goto, Return, Outcome
  <1>5. ASSUME Crash PROVE TypeCommand'
    BY <1>5 DEF Crash, Return, Outcome
  <1>6. ASSUME Walk PROVE TypeCommand'
    BY <1>6, StageNames DEF Walk, StageDone, Goto, Return, ForwardPc, Outcome
  <1>7. ASSUME WanDhcp PROVE TypeCommand'
    BY <1>7 DEF WanDhcp, Ride, StageDone, Unwind, RollbackPc
  <1>8. ASSUME StageArmor PROVE TypeCommand'
    BY <1>8 DEF StageArmor, StageDone, Unwind, RollbackPc
  <1>9. ASSUME Interlock PROVE TypeCommand'
    BY <1>9, StageNames DEF Interlock, Goto, Unwind, ForwardPc, RollbackPc
  <1>10. ASSUME EnableDmz PROVE TypeCommand'
    BY <1>10 DEF EnableDmz, StageDone, Unwind, RollbackPc
  <1>11. ASSUME HubReboot PROVE TypeCommand'
    BY <1>11 DEF HubReboot, StageDone, Unwind, RollbackPc
  <1>12. ASSUME ObserveLease PROVE TypeCommand'
    BY <1>12 DEF ObserveLease, Goto, Unwind, ForwardPc, RollbackPc
  <1>13. ASSUME PoisonGate PROVE TypeCommand'
    BY <1>13 DEF PoisonGate, Goto, Unwind, ForwardPc, RollbackPc
  <1>14. ASSUME LeaseVerifier PROVE TypeCommand'
    BY <1>14 DEF LeaseVerifier, StageDone, Unwind, RollbackPc
  <1>15. ASSUME ApplyArmor PROVE TypeCommand'
    BY <1>15 DEF ApplyArmor, StageDone, Unwind, RollbackPc
  <1>16. ASSUME Verify PROVE TypeCommand'
    BY <1>16 DEF Verify, StageDone, Unwind, RollbackPc
  <1>17. ASSUME Arm PROVE TypeCommand'
    BY <1>17 DEF Arm, StageDone, Unwind, RollbackPc
  <1>18. ASSUME SetLeaf PROVE TypeCommand'
    BY <1>18 DEF SetLeaf, Return, Unwind, RollbackPc, Outcome
  <1>19. ASSUME RbLeaf PROVE TypeCommand'
    BY <1>19 DEF RbLeaf
  <1>20. ASSUME RbLeavesDone PROVE TypeCommand'
    BY <1>20 DEF RbLeavesDone, Goto, Return, Incomplete, RollbackPc, Outcome
  <1>21. ASSUME RbReboot PROVE TypeCommand'
    BY <1>21 DEF RbReboot, Goto, Return, Incomplete, RollbackPc, Outcome
  <1>22. ASSUME RbRelease PROVE TypeCommand'
    BY <1>22 DEF RbRelease, Ride, Goto, Return, Incomplete, RollbackPc, Outcome
  <1>23. ASSUME RbCheck PROVE TypeCommand'
    BY <1>23 DEF RbCheck, Return, Incomplete, Outcome
  <1>24. ASSUME House PROVE TypeCommand'
    BY <1>24 DEF House, LeaseChanges, HubGoesDown, HubBoots, OobChanges, locals
  <1>25. CASE UNCHANGED vars
    BY <1>25 DEF vars
  <1>26. QED
    BY <1>1, <1>2, <1>3, <1>4, <1>5, <1>6, <1>7, <1>8, <1>9, <1>10, <1>11, <1>12,
       <1>13, <1>14, <1>15, <1>16, <1>17, <1>18, <1>19, <1>20, <1>21, <1>22, <1>23,
       <1>24, <1>25
    DEF Next, Process

\* Every step keeps the locals of the walk to their types.
LEMMA NextTypeWalk ==
    TypeHouse /\ TypeWalk /\ [Next]_vars => TypeWalk'
  <1> SUFFICES ASSUME TypeHouse, TypeWalk, [Next]_vars PROVE TypeWalk'
    OBVIOUS
  <1> USE DEF TypeWalk
  <1>1. ASSUME StartCommand PROVE TypeWalk'
    BY <1>1 DEF StartCommand, StartApply, StartSet, StartRollback, Start, house
  <1>2. ASSUME Gate PROVE TypeWalk'
    BY <1>2 DEF Gate, Goto, Return
  <1>3. ASSUME Snapshot PROVE TypeWalk'
    BY <1>3 DEF Snapshot, Return, TypeHouse, Leaf, Tracked
  <1>4. ASSUME Confirm PROVE TypeWalk'
    BY <1>4 DEF Confirm, Goto, Return
  <1>5. ASSUME Crash PROVE TypeWalk'
    BY <1>5 DEF Crash, Return
  <1>6. ASSUME Walk PROVE TypeWalk'
    BY <1>6 DEF Walk, StageDone, Goto, Return
  <1>7. ASSUME WanDhcp PROVE TypeWalk'
    BY <1>7, StageNames DEF WanDhcp, Ride, StageDone, Unwind
  <1>8. ASSUME StageArmor PROVE TypeWalk'
    BY <1>8, StageNames DEF StageArmor, StageDone, Unwind
  <1>9. ASSUME Interlock PROVE TypeWalk'
    BY <1>9 DEF Interlock, Goto, Unwind
  <1>10. ASSUME EnableDmz PROVE TypeWalk'
    BY <1>10, StageNames DEF EnableDmz, StageDone, Unwind
  <1>11. ASSUME HubReboot PROVE TypeWalk'
    BY <1>11, StageNames DEF HubReboot, StageDone, Unwind
  <1>12. ASSUME ObserveLease PROVE TypeWalk'
    BY <1>12 DEF ObserveLease, Goto, Unwind
  <1>13. ASSUME PoisonGate PROVE TypeWalk'
    BY <1>13 DEF PoisonGate, Goto, Unwind
  <1>14. ASSUME LeaseVerifier PROVE TypeWalk'
    BY <1>14, StageNames DEF LeaseVerifier, StageDone, Unwind
  <1>15. ASSUME ApplyArmor PROVE TypeWalk'
    BY <1>15, StageNames DEF ApplyArmor, StageDone, Unwind
  <1>16. ASSUME Verify PROVE TypeWalk'
    BY <1>16, StageNames DEF Verify, StageDone, Unwind, RunnerReads, TypeHouse,
                             Lease
  <1>17. ASSUME Arm PROVE TypeWalk'
    BY <1>17, StageNames DEF Arm, StageDone, Unwind
  <1>18. ASSUME SetLeaf PROVE TypeWalk'
    BY <1>18 DEF SetLeaf, Return, Unwind
  <1>19. ASSUME RbLeaf PROVE TypeWalk'
    BY <1>19 DEF RbLeaf
  <1>20. ASSUME RbLeavesDone PROVE TypeWalk'
    BY <1>20 DEF RbLeavesDone, Goto, Return
  <1>21. ASSUME RbReboot PROVE TypeWalk'
    BY <1>21 DEF RbReboot, Goto, Return
  <1>22. ASSUME RbRelease PROVE TypeWalk'
    BY <1>22 DEF RbRelease, Ride, Goto, Return
  <1>23. ASSUME RbCheck PROVE TypeWalk'
    BY <1>23 DEF RbCheck, Return
  <1>24. ASSUME House PROVE TypeWalk'
    BY <1>24 DEF House, LeaseChanges, HubGoesDown, HubBoots, OobChanges, locals
  <1>25. CASE UNCHANGED vars
    BY <1>25 DEF vars
  <1>26. QED
    BY <1>1, <1>2, <1>3, <1>4, <1>5, <1>6, <1>7, <1>8, <1>9, <1>10, <1>11, <1>12,
       <1>13, <1>14, <1>15, <1>16, <1>17, <1>18, <1>19, <1>20, <1>21, <1>22, <1>23,
       <1>24, <1>25
    DEF Next, Process

\* Every step keeps the counters in their ranges: a ride ends at its window.
LEMMA NextCounters ==
    Counters /\ [Next]_vars => Counters'
  <1> SUFFICES ASSUME Counters, [Next]_vars PROVE Counters'
    OBVIOUS
  <1> USE TicksAssumption, MaxCommandsAssumption DEF Counters
  <1>1. ASSUME StartCommand PROVE Counters'
    BY <1>1 DEF StartCommand, StartApply, StartSet, StartRollback, Start
  <1>2. ASSUME Gate PROVE Counters'
    BY <1>2 DEF Gate, Goto, Return
  <1>3. ASSUME Snapshot PROVE Counters'
    BY <1>3 DEF Snapshot, Return
  <1>4. ASSUME Confirm PROVE Counters'
    BY <1>4 DEF Confirm, Goto, Return
  <1>5. ASSUME Crash PROVE Counters'
    BY <1>5 DEF Crash, Return
  <1>6. ASSUME Walk PROVE Counters'
    BY <1>6 DEF Walk, StageDone, Goto, Return
  <1>7. ASSUME WanDhcp PROVE Counters'
    BY <1>7 DEF WanDhcp, Ride, StageDone, Unwind, ReLease, BoxOpRetryDecision
  <1>8. ASSUME StageArmor PROVE Counters'
    BY <1>8 DEF StageArmor, StageDone, Unwind
  <1>9. ASSUME Interlock PROVE Counters'
    BY <1>9 DEF Interlock, Goto, Unwind, EvaluateInterlock
  <1>10. ASSUME EnableDmz PROVE Counters'
    BY <1>10 DEF EnableDmz, StageDone, Unwind, HubSet
  <1>11. ASSUME HubReboot PROVE Counters'
    BY <1>11 DEF HubReboot, StageDone, Unwind, HubRebootRequest
  <1>12. ASSUME ObserveLease PROVE Counters'
    BY <1>12 DEF ObserveLease, Goto, Unwind, SettlePollDecision
  <1>13. ASSUME PoisonGate PROVE Counters'
    BY <1>13 DEF PoisonGate, Goto, Unwind
  <1>14. ASSUME LeaseVerifier PROVE Counters'
    BY <1>14 DEF LeaseVerifier, StageDone, Unwind
  <1>15. ASSUME ApplyArmor PROVE Counters'
    BY <1>15 DEF ApplyArmor, StageDone, Unwind
  <1>16. ASSUME Verify PROVE Counters'
    BY <1>16 DEF Verify, StageDone, Unwind
  <1>17. ASSUME Arm PROVE Counters'
    BY <1>17 DEF Arm, StageDone, Unwind
  <1>18. ASSUME SetLeaf PROVE Counters'
    BY <1>18 DEF SetLeaf, Return, Unwind, HubSet
  <1>19. ASSUME RbLeaf PROVE Counters'
    BY <1>19 DEF RbLeaf
  <1>20. ASSUME RbLeavesDone PROVE Counters'
    BY <1>20 DEF RbLeavesDone, Goto, Return
  <1>21. ASSUME RbReboot PROVE Counters'
    BY <1>21 DEF RbReboot, Goto, Return, HubRebootRequest
  <1>22. ASSUME RbRelease PROVE Counters'
    BY <1>22 DEF RbRelease, Ride, Goto, Return, ReLease, BoxOpRetryDecision
  <1>23. ASSUME RbCheck PROVE Counters'
    BY <1>23 DEF RbCheck, Return
  <1>24. ASSUME House PROVE Counters'
    BY <1>24 DEF House, LeaseChanges, HubGoesDown, HubBoots, OobChanges, locals
  <1>25. CASE UNCHANGED vars
    BY <1>25 DEF vars
  <1>26. QED
    BY <1>1, <1>2, <1>3, <1>4, <1>5, <1>6, <1>7, <1>8, <1>9, <1>10, <1>11, <1>12,
       <1>13, <1>14, <1>15, <1>16, <1>17, <1>18, <1>19, <1>20, <1>21, <1>22, <1>23,
       <1>24, <1>25
    DEF Next, Process

\* Every step keeps the type invariant.
LEMMA NextTypeOK ==
    TypeOK /\ [Next]_vars => TypeOK'
  BY TypeParts, TypePartsNext, NextTypeHouse, NextTypeCommand, NextTypeWalk, NextCounters

\* The process and the house keep to their types.
THEOREM TypeCorrect ==
    Spec => []TypeOK
  BY InitTypeOK, NextTypeOK, PTL DEF Spec

-----------------------------------------------------------------------------
(***************************************************************************)
(* The invariant.                                                          *)
(***************************************************************************)
\* The inductive invariant holds before the first command.
LEMMA InitInv ==
    Init => Inv
  <1> SUFFICES ASSUME Init PROVE Inv
    OBVIOUS
  <1> USE StageNames DEF Init, WalkPc, ForwardPc, RollbackPc
  <1>1. CommandAtPc
    BY DEF CommandAtPc
  <1>2. NothingLeftOver
    BY DEF NothingLeftOver
  <1>3. StagesHold
    BY DEF StagesHold
  <1>4. CacheUnread
    BY DEF CacheUnread
  <1>5. RestoredSoFar
    BY DEF RestoredSoFar, UnwindsOverRestoredLeaves
  <1>6. CommittedStands
    BY DEF CommittedStands
  <1>7. QED
    BY <1>1, <1>2, <1>3, <1>4, <1>5, <1>6, InitTypeOK DEF Inv

\* A command stays where its kind can be, and tells nothing before it ends.
LEMMA NextCommandAtPc ==
    Inv /\ [Next]_vars => CommandAtPc'
  <1> SUFFICES ASSUME TypeCommand, CommandAtPc, [Next]_vars
               PROVE  CommandAtPc'
    BY DEF Inv, TypeOK, TypeHouse, TypeCommand, TypeWalk
  <1> USE StageNames DEF WalkPc, ForwardPc, RollbackPc, TypeCommand, CommandAtPc
  <1>1. ASSUME StartCommand PROVE CommandAtPc'
    BY <1>1 DEF StartCommand, StartApply, StartSet, StartRollback, Start
  <1>2. ASSUME Gate PROVE CommandAtPc'
    BY <1>2 DEF Gate, Goto, Return
  <1>3. ASSUME Snapshot PROVE CommandAtPc'
    BY <1>3 DEF Snapshot, Return
  <1>4. ASSUME Confirm PROVE CommandAtPc'
    BY <1>4 DEF Confirm, Goto, Return
  <1>5. ASSUME Crash PROVE CommandAtPc'
    BY <1>5 DEF Crash, Return
  <1>6. ASSUME Walk PROVE CommandAtPc'
    BY <1>6, NextStageIsNotDone DEF Walk, StageDone, Goto, Return
  <1>7. ASSUME WanDhcp PROVE CommandAtPc'
    BY <1>7 DEF WanDhcp, Ride, StageDone, Unwind
  <1>8. ASSUME StageArmor PROVE CommandAtPc'
    BY <1>8 DEF StageArmor, StageDone, Unwind
  <1>9. ASSUME Interlock PROVE CommandAtPc'
    BY <1>9 DEF Interlock, Goto, Unwind
  <1>10. ASSUME EnableDmz PROVE CommandAtPc'
    BY <1>10 DEF EnableDmz, StageDone, Unwind
  <1>11. ASSUME HubReboot PROVE CommandAtPc'
    BY <1>11 DEF HubReboot, StageDone, Unwind
  <1>12. ASSUME ObserveLease PROVE CommandAtPc'
    BY <1>12 DEF ObserveLease, Goto, Unwind
  <1>13. ASSUME PoisonGate PROVE CommandAtPc'
    BY <1>13 DEF PoisonGate, Goto, Unwind
  <1>14. ASSUME LeaseVerifier PROVE CommandAtPc'
    BY <1>14 DEF LeaseVerifier, StageDone, Unwind
  <1>15. ASSUME ApplyArmor PROVE CommandAtPc'
    BY <1>15 DEF ApplyArmor, StageDone, Unwind
  <1>16. ASSUME Verify PROVE CommandAtPc'
    BY <1>16 DEF Verify, StageDone, Unwind
  <1>17. ASSUME Arm PROVE CommandAtPc'
    BY <1>17 DEF Arm, StageDone, Unwind
  <1>18. ASSUME SetLeaf PROVE CommandAtPc'
    BY <1>18 DEF SetLeaf, Return, Unwind
  <1>19. ASSUME RbLeaf PROVE CommandAtPc'
    BY <1>19 DEF RbLeaf
  <1>20. ASSUME RbLeavesDone PROVE CommandAtPc'
    BY <1>20 DEF RbLeavesDone, Goto, Return
  <1>21. ASSUME RbReboot PROVE CommandAtPc'
    BY <1>21 DEF RbReboot, Goto, Return
  <1>22. ASSUME RbRelease PROVE CommandAtPc'
    BY <1>22 DEF RbRelease, Ride, Goto, Return
  <1>23. ASSUME RbCheck PROVE CommandAtPc'
    BY <1>23 DEF RbCheck, Return
  <1>24. ASSUME House PROVE CommandAtPc'
    BY <1>24 DEF House, LeaseChanges, HubGoesDown, HubBoots, OobChanges, locals
  <1>25. CASE UNCHANGED vars
    BY <1>25 DEF vars
  <1>26. QED
    BY <1>1, <1>2, <1>3, <1>4, <1>5, <1>6, <1>7, <1>8, <1>9, <1>10, <1>11, <1>12,
       <1>13, <1>14, <1>15, <1>16, <1>17, <1>18, <1>19, <1>20, <1>21, <1>22, <1>23,
       <1>24, <1>25
    DEF Next, Process

\* A command that returns takes its locals with it.
LEMMA NextNothingLeftOver ==
    Inv /\ [Next]_vars => NothingLeftOver'
  <1> SUFFICES ASSUME TypeCommand, NothingLeftOver, [Next]_vars
               PROVE  NothingLeftOver'
    BY DEF Inv, TypeOK, TypeHouse, TypeCommand, TypeWalk
  <1> USE StageNames DEF WalkPc, ForwardPc, RollbackPc, NothingLeftOver
  <1>1. ASSUME StartCommand PROVE NothingLeftOver'
    BY <1>1 DEF StartCommand, StartApply, StartSet, StartRollback, Start
  <1>2. ASSUME Gate PROVE NothingLeftOver'
    BY <1>2 DEF Gate, Goto, Return
  <1>3. ASSUME Snapshot PROVE NothingLeftOver'
    BY <1>3 DEF Snapshot, Return
  <1>4. ASSUME Confirm PROVE NothingLeftOver'
    BY <1>4 DEF Confirm, Goto, Return
  <1>5. ASSUME Crash PROVE NothingLeftOver'
    BY <1>5 DEF Crash, Return
  <1>6. ASSUME Walk PROVE NothingLeftOver'
    BY <1>6 DEF Walk, StageDone, Goto, Return
  <1>7. ASSUME WanDhcp PROVE NothingLeftOver'
    BY <1>7 DEF WanDhcp, Ride, StageDone, Unwind
  <1>8. ASSUME StageArmor PROVE NothingLeftOver'
    BY <1>8 DEF StageArmor, StageDone, Unwind
  <1>9. ASSUME Interlock PROVE NothingLeftOver'
    BY <1>9 DEF Interlock, Goto, Unwind
  <1>10. ASSUME EnableDmz PROVE NothingLeftOver'
    BY <1>10 DEF EnableDmz, StageDone, Unwind
  <1>11. ASSUME HubReboot PROVE NothingLeftOver'
    BY <1>11 DEF HubReboot, StageDone, Unwind
  <1>12. ASSUME ObserveLease PROVE NothingLeftOver'
    BY <1>12 DEF ObserveLease, Goto, Unwind
  <1>13. ASSUME PoisonGate PROVE NothingLeftOver'
    BY <1>13 DEF PoisonGate, Goto, Unwind
  <1>14. ASSUME LeaseVerifier PROVE NothingLeftOver'
    BY <1>14 DEF LeaseVerifier, StageDone, Unwind
  <1>15. ASSUME ApplyArmor PROVE NothingLeftOver'
    BY <1>15 DEF ApplyArmor, StageDone, Unwind
  <1>16. ASSUME Verify PROVE NothingLeftOver'
    BY <1>16 DEF Verify, StageDone, Unwind
  <1>17. ASSUME Arm PROVE NothingLeftOver'
    BY <1>17 DEF Arm, StageDone, Unwind
  <1>18. ASSUME SetLeaf PROVE NothingLeftOver'
    BY <1>18 DEF SetLeaf, Return, Unwind
  <1>19. ASSUME RbLeaf PROVE NothingLeftOver'
    BY <1>19 DEF RbLeaf
  <1>20. ASSUME RbLeavesDone PROVE NothingLeftOver'
    BY <1>20 DEF RbLeavesDone, Goto, Return
  <1>21. ASSUME RbReboot PROVE NothingLeftOver'
    BY <1>21 DEF RbReboot, Goto, Return
  <1>22. ASSUME RbRelease PROVE NothingLeftOver'
    BY <1>22 DEF RbRelease, Ride, Goto, Return
  <1>23. ASSUME RbCheck PROVE NothingLeftOver'
    BY <1>23 DEF RbCheck, Return
  <1>24. ASSUME House PROVE NothingLeftOver'
    BY <1>24 DEF House, LeaseChanges, HubGoesDown, HubBoots, OobChanges, locals
  <1>25. CASE UNCHANGED vars
    BY <1>25 DEF vars
  <1>26. QED
    BY <1>1, <1>2, <1>3, <1>4, <1>5, <1>6, <1>7, <1>8, <1>9, <1>10, <1>11, <1>12,
       <1>13, <1>14, <1>15, <1>16, <1>17, <1>18, <1>19, <1>20, <1>21, <1>22, <1>23,
       <1>24, <1>25
    DEF Next, Process

\* A completed stage goes on meaning what it meant: nothing un-arms the box.
LEMMA NextStagesHold ==
    Inv /\ [Next]_vars => StagesHold'
  <1> SUFFICES ASSUME TypeHouse, TypeCommand, TypeWalk, CommandAtPc, NothingLeftOver,
                      StagesHold, [Next]_vars
               PROVE  StagesHold'
    BY DEF Inv, TypeOK, TypeHouse, TypeCommand, TypeWalk
  <1> USE StageNames DEF WalkPc, ForwardPc, RollbackPc, CommandAtPc, NothingLeftOver, StagesHold
  <1>1. ASSUME StartCommand PROVE StagesHold'
    BY <1>1 DEF StartCommand, StartApply, StartSet, StartRollback, Start, house
  <1>2. ASSUME Gate PROVE StagesHold'
    BY <1>2 DEF Gate, Goto, Return, house
  <1>3. ASSUME Snapshot PROVE StagesHold'
    BY <1>3 DEF Snapshot, Return, house
  <1>4. ASSUME Confirm PROVE StagesHold'
    BY <1>4 DEF Confirm, Goto, Return, house
  <1>5. ASSUME Crash PROVE StagesHold'
    BY <1>5 DEF Crash, Return, house
  <1>6. ASSUME Walk PROVE StagesHold'
    BY <1>6 DEF Walk, StageDone, Goto, Return, house, SkippedStages,
                INTERLOCKED_STAGES
  <1>7. ASSUME WanDhcp PROVE StagesHold'
    BY <1>7 DEF WanDhcp, Ride, StageDone, Unwind
  <1>8. ASSUME StageArmor PROVE StagesHold'
    BY <1>8 DEF StageArmor, StageDone, Unwind
  <1>9. ASSUME Interlock PROVE StagesHold'
    BY <1>9 DEF Interlock, Goto, Unwind, EvaluateInterlock, house
  <1>10. ASSUME EnableDmz PROVE StagesHold'
    BY <1>10 DEF EnableDmz, StageDone, Unwind, HubSet, TypeHouse, Leaf, Tracked
  <1>11. ASSUME HubReboot PROVE StagesHold'
    BY <1>11 DEF HubReboot, StageDone, Unwind, HubRebootRequest
  <1>12. ASSUME ObserveLease PROVE StagesHold'
    BY <1>12 DEF ObserveLease, Goto, Unwind
  <1>13. ASSUME PoisonGate PROVE StagesHold'
    BY <1>13 DEF PoisonGate, Goto, Unwind, house
  <1>14. ASSUME LeaseVerifier PROVE StagesHold'
    BY <1>14 DEF LeaseVerifier, StageDone, Unwind, house
  <1>15. ASSUME ApplyArmor PROVE StagesHold'
    BY <1>15 DEF ApplyArmor, StageDone, Unwind
  <1>16. ASSUME Verify PROVE StagesHold'
    BY <1>16 DEF Verify, StageDone, Unwind, house
  <1>17. ASSUME Arm PROVE StagesHold'
    BY <1>17 DEF Arm, StageDone, Unwind, house
  <1>18. ASSUME SetLeaf PROVE StagesHold'
    BY <1>18 DEF SetLeaf, Return, Unwind, HubSet
  <1>19. ASSUME RbLeaf PROVE StagesHold'
    BY <1>19 DEF RbLeaf, HubSet
  <1>20. ASSUME RbLeavesDone PROVE StagesHold'
    BY <1>20 DEF RbLeavesDone, Goto, Return, house
  <1>21. ASSUME RbReboot PROVE StagesHold'
    BY <1>21 DEF RbReboot, Goto, Return, HubRebootRequest
  <1>22. ASSUME RbRelease PROVE StagesHold'
    BY <1>22 DEF RbRelease, Ride, Goto, Return
  <1>23. ASSUME RbCheck PROVE StagesHold'
    BY <1>23 DEF RbCheck, Return, house
  <1>24. ASSUME House PROVE StagesHold'
    BY <1>24 DEF House, LeaseChanges, HubGoesDown, HubBoots, OobChanges, locals
  <1>25. CASE UNCHANGED vars
    BY <1>25 DEF vars
  <1>26. QED
    BY <1>1, <1>2, <1>3, <1>4, <1>5, <1>6, <1>7, <1>8, <1>9, <1>10, <1>11, <1>12,
       <1>13, <1>14, <1>15, <1>16, <1>17, <1>18, <1>19, <1>20, <1>21, <1>22, <1>23,
       <1>24, <1>25
    DEF Next, Process

\* The WAN cache is filled by the verify stage or the recovery check alone.
LEMMA NextCacheUnread ==
    Inv /\ [Next]_vars => CacheUnread'
  <1> SUFFICES ASSUME TypeCommand, CommandAtPc, NothingLeftOver, CacheUnread, [Next]_vars
               PROVE  CacheUnread'
    BY DEF Inv, TypeOK, TypeHouse, TypeCommand, TypeWalk
  <1> USE StageNames DEF WalkPc, ForwardPc, RollbackPc, CommandAtPc, NothingLeftOver, CacheUnread
  <1>1. ASSUME StartCommand PROVE CacheUnread'
    BY <1>1 DEF StartCommand, StartApply, StartSet, StartRollback, Start, house
  <1>2. ASSUME Gate PROVE CacheUnread'
    BY <1>2 DEF Gate, Goto, Return
  <1>3. ASSUME Snapshot PROVE CacheUnread'
    BY <1>3 DEF Snapshot, Return
  <1>4. ASSUME Confirm PROVE CacheUnread'
    BY <1>4 DEF Confirm, Goto, Return
  <1>5. ASSUME Crash PROVE CacheUnread'
    BY <1>5 DEF Crash, Return
  <1>6. ASSUME Walk PROVE CacheUnread'
    BY <1>6, NextStageIsNotDone DEF Walk, StageDone, Goto, Return
  <1>7. ASSUME WanDhcp PROVE CacheUnread'
    BY <1>7 DEF WanDhcp, Ride, StageDone, Unwind
  <1>8. ASSUME StageArmor PROVE CacheUnread'
    BY <1>8 DEF StageArmor, StageDone, Unwind
  <1>9. ASSUME Interlock PROVE CacheUnread'
    BY <1>9 DEF Interlock, Goto, Unwind
  <1>10. ASSUME EnableDmz PROVE CacheUnread'
    BY <1>10 DEF EnableDmz, StageDone, Unwind
  <1>11. ASSUME HubReboot PROVE CacheUnread'
    BY <1>11 DEF HubReboot, StageDone, Unwind
  <1>12. ASSUME ObserveLease PROVE CacheUnread'
    BY <1>12 DEF ObserveLease, Goto, Unwind
  <1>13. ASSUME PoisonGate PROVE CacheUnread'
    BY <1>13 DEF PoisonGate, Goto, Unwind
  <1>14. ASSUME LeaseVerifier PROVE CacheUnread'
    BY <1>14 DEF LeaseVerifier, StageDone, Unwind
  <1>15. ASSUME ApplyArmor PROVE CacheUnread'
    BY <1>15 DEF ApplyArmor, StageDone, Unwind
  <1>16. ASSUME Verify PROVE CacheUnread'
    BY <1>16 DEF Verify, StageDone, Unwind
  <1>17. ASSUME Arm PROVE CacheUnread'
    BY <1>17 DEF Arm, StageDone, Unwind
  <1>18. ASSUME SetLeaf PROVE CacheUnread'
    BY <1>18 DEF SetLeaf, Return, Unwind
  <1>19. ASSUME RbLeaf PROVE CacheUnread'
    BY <1>19 DEF RbLeaf
  <1>20. ASSUME RbLeavesDone PROVE CacheUnread'
    BY <1>20 DEF RbLeavesDone, Goto, Return
  <1>21. ASSUME RbReboot PROVE CacheUnread'
    BY <1>21 DEF RbReboot, Goto, Return
  <1>22. ASSUME RbRelease PROVE CacheUnread'
    BY <1>22 DEF RbRelease, Ride, Goto, Return
  <1>23. ASSUME RbCheck PROVE CacheUnread'
    BY <1>23 DEF RbCheck, Return
  <1>24. ASSUME House PROVE CacheUnread'
    BY <1>24 DEF House, LeaseChanges, HubGoesDown, HubBoots, OobChanges, locals
  <1>25. CASE UNCHANGED vars
    BY <1>25 DEF vars
  <1>26. QED
    BY <1>1, <1>2, <1>3, <1>4, <1>5, <1>6, <1>7, <1>8, <1>9, <1>10, <1>11, <1>12,
       <1>13, <1>14, <1>15, <1>16, <1>17, <1>18, <1>19, <1>20, <1>21, <1>22, <1>23,
       <1>24, <1>25
    DEF Next, Process

\* The rollback gets through the leaves one by one, and past none it could not restore.
LEMMA NextRestoredSoFar ==
    Inv /\ [Next]_vars => RestoredSoFar'
  <1> SUFFICES ASSUME TypeHouse, TypeCommand, TypeWalk, CommandAtPc, RestoredSoFar, [Next]_vars
               PROVE  RestoredSoFar'
    BY DEF Inv, TypeOK, TypeHouse, TypeCommand, TypeWalk
  <1> USE StageNames DEF WalkPc, ForwardPc, RollbackPc, CommandAtPc, RestoredSoFar,
          UnwindsOverRestoredLeaves
  <1>1. ASSUME StartCommand PROVE RestoredSoFar'
    BY <1>1 DEF StartCommand, StartApply, StartSet, StartRollback, Start, house
  <1>2. ASSUME Gate PROVE RestoredSoFar'
    BY <1>2 DEF Gate, Goto, Return
  <1>3. ASSUME Snapshot PROVE RestoredSoFar'
    BY <1>3 DEF Snapshot, Return
  <1>4. ASSUME Confirm PROVE RestoredSoFar'
    BY <1>4 DEF Confirm, Goto, Return
  <1>5. ASSUME Crash PROVE RestoredSoFar'
    BY <1>5 DEF Crash, Return
  <1>6. ASSUME Walk PROVE RestoredSoFar'
    BY <1>6 DEF Walk, StageDone, Goto, Return, house
  <1>7. ASSUME WanDhcp PROVE RestoredSoFar'
    BY <1>7 DEF WanDhcp, Ride, StageDone, Unwind
  <1>8. ASSUME StageArmor PROVE RestoredSoFar'
    BY <1>8 DEF StageArmor, StageDone, Unwind
  <1>9. ASSUME Interlock PROVE RestoredSoFar'
    BY <1>9 DEF Interlock, Goto, Unwind
  <1>10. ASSUME EnableDmz PROVE RestoredSoFar'
    BY <1>10 DEF EnableDmz, StageDone, Unwind
  <1>11. ASSUME HubReboot PROVE RestoredSoFar'
    BY <1>11 DEF HubReboot, StageDone, Unwind
  <1>12. ASSUME ObserveLease PROVE RestoredSoFar'
    BY <1>12 DEF ObserveLease, Goto, Unwind
  <1>13. ASSUME PoisonGate PROVE RestoredSoFar'
    BY <1>13 DEF PoisonGate, Goto, Unwind
  <1>14. ASSUME LeaseVerifier PROVE RestoredSoFar'
    BY <1>14 DEF LeaseVerifier, StageDone, Unwind
  <1>15. ASSUME ApplyArmor PROVE RestoredSoFar'
    BY <1>15 DEF ApplyArmor, StageDone, Unwind
  <1>16. ASSUME Verify PROVE RestoredSoFar'
    BY <1>16 DEF Verify, StageDone, Unwind
  <1>17. ASSUME Arm PROVE RestoredSoFar'
    BY <1>17 DEF Arm, StageDone, Unwind
  <1>18. ASSUME SetLeaf PROVE RestoredSoFar'
    BY <1>18 DEF SetLeaf, Return, Unwind, HubSet
  <1>19. ASSUME RbLeaf PROVE RestoredSoFar'
    BY <1>19 DEF RbLeaf, HubSet, TypeHouse, TypeWalk, Leaf, Tracked
  <1>20. ASSUME RbLeavesDone PROVE RestoredSoFar'
    BY <1>20 DEF RbLeavesDone, Goto, Return, house
  <1>21. ASSUME RbReboot PROVE RestoredSoFar'
    BY <1>21 DEF RbReboot, Goto, Return
  <1>22. ASSUME RbRelease PROVE RestoredSoFar'
    BY <1>22 DEF RbRelease, Ride, Goto, Return
  <1>23. ASSUME RbCheck PROVE RestoredSoFar'
    BY <1>23 DEF RbCheck, Return
  <1>24. ASSUME House PROVE RestoredSoFar'
    BY <1>24 DEF House, LeaseChanges, HubGoesDown, HubBoots, OobChanges, locals
  <1>25. CASE UNCHANGED vars
    BY <1>25 DEF vars
  <1>26. QED
    BY <1>1, <1>2, <1>3, <1>4, <1>5, <1>6, <1>7, <1>8, <1>9, <1>10, <1>11, <1>12,
       <1>13, <1>14, <1>15, <1>16, <1>17, <1>18, <1>19, <1>20, <1>21, <1>22, <1>23,
       <1>24, <1>25
    DEF Next, Process

\* A walk with no stage left has engaged DMZ over the armor it needs.
LEMMA NextCommittedStands ==
    Inv /\ [Next]_vars => CommittedStands'
  <1> SUFFICES ASSUME TypeHouse, TypeCommand, TypeWalk, CommandAtPc, StagesHold,
                      CommittedStands, [Next]_vars
               PROVE  CommittedStands'
    BY DEF Inv, TypeOK, TypeHouse, TypeCommand, TypeWalk
  <1> USE StageNames DEF WalkPc, ForwardPc, RollbackPc, CommandAtPc, StagesHold, CommittedStands
  <1>1. ASSUME StartCommand PROVE CommittedStands'
    BY <1>1 DEF StartCommand, StartApply, StartSet, StartRollback, Start, house
  <1>2. ASSUME Gate PROVE CommittedStands'
    BY <1>2 DEF Gate, Goto, Return
  <1>3. ASSUME Snapshot PROVE CommittedStands'
    BY <1>3 DEF Snapshot, Return
  <1>4. ASSUME Confirm PROVE CommittedStands'
    BY <1>4 DEF Confirm, Goto, Return
  <1>5. ASSUME Crash PROVE CommittedStands'
    BY <1>5 DEF Crash, Return
  <1>6. ASSUME Walk PROVE CommittedStands'
    BY <1>6, NoNextStage DEF Walk, StageDone, Goto, Return, house
  <1>7. ASSUME WanDhcp PROVE CommittedStands'
    BY <1>7 DEF WanDhcp, Ride, StageDone, Unwind
  <1>8. ASSUME StageArmor PROVE CommittedStands'
    BY <1>8 DEF StageArmor, StageDone, Unwind
  <1>9. ASSUME Interlock PROVE CommittedStands'
    BY <1>9 DEF Interlock, Goto, Unwind
  <1>10. ASSUME EnableDmz PROVE CommittedStands'
    BY <1>10 DEF EnableDmz, StageDone, Unwind
  <1>11. ASSUME HubReboot PROVE CommittedStands'
    BY <1>11 DEF HubReboot, StageDone, Unwind
  <1>12. ASSUME ObserveLease PROVE CommittedStands'
    BY <1>12 DEF ObserveLease, Goto, Unwind
  <1>13. ASSUME PoisonGate PROVE CommittedStands'
    BY <1>13 DEF PoisonGate, Goto, Unwind
  <1>14. ASSUME LeaseVerifier PROVE CommittedStands'
    BY <1>14 DEF LeaseVerifier, StageDone, Unwind
  <1>15. ASSUME ApplyArmor PROVE CommittedStands'
    BY <1>15 DEF ApplyArmor, StageDone, Unwind
  <1>16. ASSUME Verify PROVE CommittedStands'
    BY <1>16 DEF Verify, StageDone, Unwind
  <1>17. ASSUME Arm PROVE CommittedStands'
    BY <1>17 DEF Arm, StageDone, Unwind
  <1>18. ASSUME SetLeaf PROVE CommittedStands'
    BY <1>18 DEF SetLeaf, Return, Unwind
  <1>19. ASSUME RbLeaf PROVE CommittedStands'
    BY <1>19 DEF RbLeaf
  <1>20. ASSUME RbLeavesDone PROVE CommittedStands'
    BY <1>20 DEF RbLeavesDone, Goto, Return, Incomplete, house
  <1>21. ASSUME RbReboot PROVE CommittedStands'
    BY <1>21 DEF RbReboot, Goto, Return, Incomplete, HubRebootRequest
  <1>22. ASSUME RbRelease PROVE CommittedStands'
    BY <1>22 DEF RbRelease, Ride, Goto, Return, Incomplete, ReLease
  <1>23. ASSUME RbCheck PROVE CommittedStands'
    BY <1>23 DEF RbCheck, Return, Incomplete, house
  <1>24. ASSUME House PROVE CommittedStands'
    BY <1>24 DEF House, LeaseChanges, HubGoesDown, HubBoots, OobChanges, locals
  <1>25. CASE UNCHANGED vars
    BY <1>25 DEF vars
  <1>26. QED
    BY <1>1, <1>2, <1>3, <1>4, <1>5, <1>6, <1>7, <1>8, <1>9, <1>10, <1>11, <1>12,
       <1>13, <1>14, <1>15, <1>16, <1>17, <1>18, <1>19, <1>20, <1>21, <1>22, <1>23,
       <1>24, <1>25
    DEF Next, Process

\* The inductive invariant is inductive.
LEMMA NextInv ==
    Inv /\ [Next]_vars => Inv'
  BY NextTypeOK, NextCommandAtPc, NextNothingLeftOver, NextStagesHold, NextCacheUnread,
     NextRestoredSoFar, NextCommittedStands DEF Inv

\* The inductive invariant holds throughout.
LEMMA InvHolds ==
    Spec => []Inv
  BY InitInv, NextInv, PTL DEF Spec

-----------------------------------------------------------------------------
(***************************************************************************)
(* The safety properties.                                                  *)
(***************************************************************************)

\* DMZ is engaged only over an armored box, where the playbook needs the armor.
THEOREM ArmorFirst ==
    Spec => []ArmoredBeforeEngaged
  <1>1. Inv => ArmoredBeforeEngaged
    BY DEF Inv, StagesHold, ArmoredBeforeEngaged
  <1>2. QED
    BY <1>1, InvHolds, PTL

\* The unwinding reboots and re-leases only over restored leaves.
THEOREM RestoresFirst ==
    Spec => []UnwindsOverRestoredLeaves
  <1>1. Inv => UnwindsOverRestoredLeaves
    BY DEF Inv, RestoredSoFar
  <1>2. QED
    BY <1>1, InvHolds, PTL

\* What was committed is engaged and armored.
THEOREM CommitStands ==
    Spec => []CommittedStands
  <1>1. Inv => CommittedStands
    BY DEF Inv
  <1>2. QED
    BY <1>1, InvHolds, PTL

\* Only the recovery check of a stand-alone rollback reports a recovery.
LEMMA OnlyRbCheckRecovers ==
    Inv /\ [Next]_vars /\ outcome' = "recovered" /\ pc' # pc => RbCheck
  <1> DEFINE Quiet == outcome' = "recovered" => pc' = pc
  <1> SUFFICES ASSUME CommandAtPc, [Next]_vars PROVE Quiet \/ RbCheck
    BY DEF Inv
  <1> USE DEF CommandAtPc, RollbackPc
  <1>1. ASSUME StartCommand PROVE Quiet
    BY <1>1 DEF StartCommand, StartApply, StartSet, StartRollback, Start, house
  <1>2. ASSUME Gate PROVE Quiet
    BY <1>2 DEF Gate, Goto, Return
  <1>3. ASSUME Snapshot PROVE Quiet
    BY <1>3 DEF Snapshot, Return
  <1>4. ASSUME Confirm PROVE Quiet
    BY <1>4 DEF Confirm, Goto, Return
  <1>5. ASSUME Crash PROVE Quiet
    BY <1>5 DEF Crash, Return
  <1>6. ASSUME Walk PROVE Quiet
    BY <1>6, StageNames DEF Walk, StageDone, Goto, Return
  <1>7. ASSUME WanDhcp PROVE Quiet
    BY <1>7 DEF WanDhcp, Ride, StageDone, Unwind
  <1>8. ASSUME StageArmor PROVE Quiet
    BY <1>8 DEF StageArmor, StageDone, Unwind
  <1>9. ASSUME Interlock PROVE Quiet
    BY <1>9 DEF Interlock, Goto, Unwind
  <1>10. ASSUME EnableDmz PROVE Quiet
    BY <1>10 DEF EnableDmz, StageDone, Unwind
  <1>11. ASSUME HubReboot PROVE Quiet
    BY <1>11 DEF HubReboot, StageDone, Unwind
  <1>12. ASSUME ObserveLease PROVE Quiet
    BY <1>12 DEF ObserveLease, Goto, Unwind
  <1>13. ASSUME PoisonGate PROVE Quiet
    BY <1>13 DEF PoisonGate, Goto, Unwind
  <1>14. ASSUME LeaseVerifier PROVE Quiet
    BY <1>14 DEF LeaseVerifier, StageDone, Unwind
  <1>15. ASSUME ApplyArmor PROVE Quiet
    BY <1>15 DEF ApplyArmor, StageDone, Unwind
  <1>16. ASSUME Verify PROVE Quiet
    BY <1>16 DEF Verify, StageDone, Unwind
  <1>17. ASSUME Arm PROVE Quiet
    BY <1>17 DEF Arm, StageDone, Unwind
  <1>18. ASSUME SetLeaf PROVE Quiet
    BY <1>18 DEF SetLeaf, Return, Unwind
  <1>19. ASSUME RbLeaf PROVE Quiet
    BY <1>19 DEF RbLeaf
  <1>20. ASSUME RbLeavesDone PROVE Quiet
    BY <1>20 DEF RbLeavesDone, Goto, Return, Incomplete
  <1>21. ASSUME RbReboot PROVE Quiet
    BY <1>21 DEF RbReboot, Goto, Return, Incomplete
  <1>22. ASSUME RbRelease PROVE Quiet
    BY <1>22 DEF RbRelease, Ride, Goto, Return, Incomplete
  <1>23. ASSUME House PROVE Quiet
    BY <1>23 DEF House, LeaseChanges, HubGoesDown, HubBoots, OobChanges, locals
  <1>24. CASE UNCHANGED vars
    BY <1>24 DEF vars
  <1> HIDE DEF Quiet
  <1>25. QED
    BY <1>1, <1>2, <1>3, <1>4, <1>5, <1>6, <1>7, <1>8, <1>9, <1>10, <1>11, <1>12,
       <1>13, <1>14, <1>15, <1>16, <1>17, <1>18, <1>19, <1>20, <1>21, <1>22, <1>23,
       <1>24
    DEF Next, Process

\* A recovery that is reported was read from the WAN over disengaged leaves.
LEMMA RecoveryStep ==
    Inv /\ [Next]_vars
      => (cmd = "rollback" /\ outcome' = "recovered" /\ pc' # pc
            => wan = "double_nat" /\ \A l \in Tracked : ~leaf[l])
  <1> SUFFICES ASSUME Inv, [Next]_vars,
                      cmd = "rollback", outcome' = "recovered", pc' # pc
               PROVE  wan = "double_nat" /\ \A l \in Tracked : ~leaf[l]
    OBVIOUS
  <1>1. RbCheck
    BY OnlyRbCheckRecovers
  <1>2. pc = "rb_check" /\ cache = "unset"
    BY <1>1 DEF RbCheck, Inv, CacheUnread
  <1>3. PICK verdict \in Verdict, read \in RunnerReads :
          /\ VerifyWan(verdict, read)
          /\ Return(IF verdict # "NOT_YET" THEN Incomplete
                    ELSE IF cmd = "rollback" THEN "recovered" ELSE "rolled_back")
    BY <1>1 DEF RbCheck
  <1>4. verdict = "NOT_YET"
    BY <1>3 DEF Return, Incomplete
  <1>5. PICK hop2 \in Hop2(wan) : verdict = VerifyVerdict(hop2, read)
    BY <1>3 DEF VerifyWan
  <1>6. wan \in Lease /\ read \in {wan, "none"}
    BY <1>2 DEF RunnerReads, Inv, TypeOK
  <1>7. wan = "double_nat"
    BY <1>4, <1>5, <1>6, NotYetIsDoubleNat
  <1>8. \A l \in Tracked : ~leaf[l]
    BY <1>2 DEF Inv, RestoredSoFar, UnwindsOverRestoredLeaves, RollbackPc
  <1>9. QED
    BY <1>7, <1>8

\* A stand-alone rollback reports only real recoveries.
THEOREM RecoveriesAreReal ==
    Spec => RecoveryIsReal
  BY InvHolds, RecoveryStep, PTL DEF Spec, RecoveryIsReal

\* Only the poll's own step, with the verdict hard_fail, gives up on a lease.
LEMMA SettleStep ==
    Inv /\ [Next]_vars
      => (pc = "observe_lease" /\ pc' = "rb_leaves"
            => elapsed >= SettleTicks \/ wan = "double_nat")
  <1> SUFFICES ASSUME Inv, [Next]_vars, pc = "observe_lease", pc' = "rb_leaves"
               PROVE  elapsed >= SettleTicks \/ wan = "double_nat"
    OBVIOUS
  <1>1. ObserveLease
    BY DEF Next, vars, StartCommand, StartApply, StartSet, StartRollback, Start, Process,
       Gate, Snapshot, Walk, WanDhcp, StageArmor, Interlock, EnableDmz, HubReboot,
       PoisonGate, LeaseVerifier, ApplyArmor, Verify, Arm, SetLeaf, RbLeaf, RbLeavesDone,
       RbReboot, RbRelease, RbCheck, Confirm, Crash, Return, House, LeaseChanges,
       HubGoesDown, HubBoots, OobChanges
  <1>2. PICK observed \in {ClassifyWanIp(wan), "none"} :
          SettlePollDecision(observed, elapsed, SettleTicks) = "hard_fail"
    BY <1>1 DEF ObserveLease, Goto
  <1>3. wan \in Lease /\ elapsed \in Nat /\ SettleTicks \in Nat
    BY TicksAssumption DEF Inv, TypeOK
  <1>4. QED
    BY <1>2, <1>3, HardFailIsEarned

\* No flip is given up for a lease that is merely late.
THEOREM SettlesFirst ==
    Spec => SettlesBeforeFailing
  BY InvHolds, SettleStep, PTL DEF Spec, SettlesBeforeFailing

\* The terminal check that passes has read the WAN of that moment.
LEMMA VerifyStep ==
    Inv /\ [Next]_vars
      => (pc = "verify" /\ pc' = "walk" => wan \in {"pinned", "wide", "poisoned"})
  <1> SUFFICES ASSUME Inv, [Next]_vars, pc = "verify", pc' = "walk"
               PROVE  wan \in {"pinned", "wide", "poisoned"}
    OBVIOUS
  <1>1. Verify
    BY DEF Next, vars, StartCommand, StartApply, StartSet, StartRollback, Start, Process,
       Gate, Snapshot, Walk, WanDhcp, StageArmor, Interlock, EnableDmz, HubReboot,
       ObserveLease, PoisonGate, LeaseVerifier, ApplyArmor, Arm, SetLeaf, RbLeaf,
       RbLeavesDone, RbReboot, RbRelease, RbCheck, Confirm, Crash, Return, House,
       LeaseChanges, HubGoesDown, HubBoots, OobChanges
  <1>2. cache = "unset"
    BY StageNames DEF Inv, CacheUnread, WalkPc, ForwardPc
  <1>3. PICK verdict \in Verdict, read \in RunnerReads :
          VerifyWan(verdict, read) /\ verdict = "VERIFIED"
    BY <1>1 DEF Verify, Unwind
  <1>4. PICK hop2 \in Hop2(wan) : verdict = VerifyVerdict(hop2, read)
    BY <1>3 DEF VerifyWan
  <1>5. wan \in Lease /\ read \in {wan, "none"}
    BY <1>2 DEF RunnerReads, Inv, TypeOK
  <1>6. QED
    BY <1>3, <1>4, <1>5, VerifiedIsPublic

\* The terminal check never passes on an address of the past.
THEOREM VerifiesTheWan ==
    Spec => VerifiedMeansPublic
  BY InvHolds, VerifyStep, PTL DEF Spec, VerifiedMeansPublic

-----------------------------------------------------------------------------
(***************************************************************************)
(* The contract of the rails.                                              *)
(***************************************************************************)
TrackedNow == [l \in Tracked |-> leaf[l]]

\* Where the guarded change is, by the step of the process.
LEMMA PhaseAt ==
    /\ pc \in {"idle", "gate", "snapshot"} => Phase = "closed"
    /\ pc = "confirm" => Phase = "open"
    /\ pc \in WalkPc \cup {"set_leaf"} => Phase = "changing"
    /\ pc \in RollbackPc => Phase = (IF cmd = "rollback" THEN "manual" ELSE "undoing")
  BY StageNames DEF Phase, WalkPc, ForwardPc, RollbackPc

\* And the same of the next state.
LEMMA PhaseNext ==
    /\ pc' \in {"idle", "gate", "snapshot"} => Phase' = "closed"
    /\ pc' = "confirm" => Phase' = "open"
    /\ pc' \in WalkPc \cup {"set_leaf"} => Phase' = "changing"
    /\ pc' \in RollbackPc => Phase' = (IF cmd' = "rollback" THEN "manual" ELSE "undoing")
  BY StageNames DEF Phase, WalkPc, ForwardPc, RollbackPc

\* The captured leaves are settings of the abstract device.
LEMMA TrackedType ==
    TypeHouse => TrackedNow \in [Tracked -> BOOLEAN]
  BY DEF TypeHouse, TrackedNow, Leaf, Tracked

\* And the same of the next state.
LEMMA TrackedTypeNext ==
    TypeHouse' => TrackedNow' \in [Tracked -> BOOLEAN]
  BY DEF TypeHouse, TrackedNow, Leaf, Tracked

\* Leaf by leaf what was captured is, taken together, what was captured.
LEMMA RestoredIsBase ==
    TypeWalk /\ (\A l \in Tracked : leaf[l] = snap[l]) => TrackedNow = snap
  BY DEF TypeWalk, TrackedNow

\* A house nobody has touched is an abstract device before any change.
LEMMA InitContract ==
    Init => GC!GCInit
  <1> SUFFICES ASSUME Init PROVE GC!GCInit
    OBVIOUS
  <1>1. TypeHouse /\ TypeWalk
    BY InitTypeOK, TypeParts
  <1>2. Phase = "closed"
    BY PhaseAt DEF Init
  <1>3. QED
    BY <1>1, <1>2, TrackedType DEF Init, GC!GCInit, GC!Config, TrackedNow, TypeWalk

\* Every step of the process is a step of a guarded change, or none at all.
LEMMA NextContract ==
    Inv /\ [Next]_vars => [GC!GCNext]_(GC!gcVars)
  <1> DEFINE Step == GC!GCNext \/ UNCHANGED <<Phase, TrackedNow, snap, outcome>>
  <1> SUFFICES ASSUME Inv, [Next]_vars PROVE Step
    BY DEF GC!gcVars, TrackedNow
  <1>a. TypeHouse /\ TypeCommand /\ TypeWalk /\ CommandAtPc /\ RestoredSoFar
    BY TypeParts DEF Inv
  <1>b. TypeHouse' /\ TypeWalk'
    BY NextInv, TypePartsNext DEF Inv
  <1>c. TrackedNow' \in [Tracked -> BOOLEAN]
    BY <1>b, TrackedTypeNext
  <1>d. UNCHANGED leaf => UNCHANGED TrackedNow
    BY DEF TrackedNow
  <1>e. pc \in {"rb_reboot", "rb_release", "rb_check"} => TrackedNow = snap
    BY <1>a, RestoredIsBase DEF RestoredSoFar, UnwindsOverRestoredLeaves
  <1>f. pc = "rb_leaves" /\ todo = {} /\ ~failed => TrackedNow = snap
    BY <1>a, RestoredIsBase DEF RestoredSoFar
  \* Nothing the contract sees.
  <1>m1. ASSUME UNCHANGED <<Phase, leaf, snap, outcome>>
        PROVE  Step
    BY <1>m1, <1>d
  \* The change, or its unwinding, moves the device.
  <1>m2. ASSUME UNCHANGED <<Phase, snap, outcome>>,
               Phase \in {"changing", "undoing", "manual"}
        PROVE  Step
    BY <1>m2, <1>c, <1>d DEF GC!GCNext, GC!Mutate, GC!Config, TrackedNow
  \* The change fails.
  <1>m3. ASSUME UNCHANGED <<snap, outcome>>, Phase = "changing", Phase' = "undoing"
        PROVE  Step
    BY <1>m3, <1>c, <1>d DEF GC!GCNext, GC!Fail, GC!Config, TrackedNow
  \* The change is over.
  <1>m4. ASSUME UNCHANGED snap, Phase = "changing", Phase' = "closed",
               outcome' \in {"committed", "left_in_place"}
        PROVE  Step
    BY <1>m4, <1>c, <1>d DEF GC!GCNext, GC!Commit, GC!LeaveInPlace, GC!Config, TrackedNow
  \* Its unwinding is over.
  <1>m5. ASSUME UNCHANGED <<leaf, snap>>, Phase = "undoing", Phase' = "closed",
               outcome' = "half_applied" \/ (outcome' = "rolled_back" /\ TrackedNow = snap)
        PROVE  Step
    BY <1>m5, <1>c, <1>d DEF GC!GCNext, GC!Restored, GC!HalfApplied, GC!Config, TrackedNow
  \* The stand-alone undo is over.
  <1>m6. ASSUME UNCHANGED <<leaf, snap>>, Phase = "manual", Phase' = "closed",
               outcome' = "incomplete" \/ (outcome' = "recovered" /\ TrackedNow = snap)
        PROVE  Step
    BY <1>m6, <1>c, <1>d DEF GC!GCNext, GC!ManualDone, GC!Config, TrackedNow
  \* The process stops.
  <1>m7. ASSUME UNCHANGED <<leaf, snap>>, Phase' = "closed",
               outcome' = "crashed" \/ (outcome' = "refused" /\ Phase = "closed")
        PROVE  Step
    BY <1>m7, <1>c, <1>d DEF GC!GCNext, GC!Stop, GC!Config, TrackedNow
  <1> USE StageNames, PhaseAt, PhaseNext DEF WalkPc, ForwardPc, RollbackPc, CommandAtPc
  <1>1. ASSUME StartApply \/ StartSet PROVE Step
    <2>1. GC!Prepare
      BY <1>1, <1>d DEF StartApply, StartSet, Start, house, GC!Prepare, TrackedNow
    <2>2. QED
      BY <2>1 DEF GC!GCNext
  <1>2. ASSUME StartRollback PROVE Step
    <2>1. GC!Manual
      BY <1>2, <1>d DEF StartRollback, house, GC!Manual, TrackedNow
    <2>2. QED
      BY <2>1 DEF GC!GCNext
  <1>3. ASSUME Gate PROVE Step
    BY <1>3, <1>m1, <1>m7 DEF Gate, Goto, Return, house
  <1>4. ASSUME Snapshot PROVE Step
    <2>1. CASE pc' = "confirm"
      <3>1. GC!Capture
        BY <1>4, <2>1, <1>d DEF Snapshot, Return, house, GC!Capture, TrackedNow
      <3>2. QED
        BY <3>1 DEF GC!GCNext
    <2>2. CASE pc' # "confirm"
      BY <1>4, <2>2, <1>m7 DEF Snapshot, Return, house
    <2>3. QED
      BY <2>1, <2>2
  <1>5. ASSUME Confirm PROVE Step
    <2>1. GC!Accept \/ GC!Decline
      BY <1>5, <1>a, <1>d DEF Confirm, Goto, Return, house, GC!Accept, GC!Decline, TrackedNow
    <2>2. QED
      BY <2>1 DEF GC!GCNext
  <1>6. ASSUME Crash PROVE Step
    BY <1>6, <1>m7 DEF Crash, Return, house
  <1>7. ASSUME Walk PROVE Step
    BY <1>7, <1>a, <1>m1, <1>m4, NextStageIsNotDone DEF Walk, StageDone, Goto, Return, house
  <1>8. ASSUME WanDhcp PROVE Step
    BY <1>8, <1>a, <1>m1, <1>m3 DEF WanDhcp, Ride, ReLease, StageDone, Unwind
  <1>9. ASSUME StageArmor PROVE Step
    BY <1>9, <1>a, <1>m1, <1>m3 DEF StageArmor, StageDone, Unwind
  <1>10. ASSUME Interlock PROVE Step
    BY <1>10, <1>a, <1>m1, <1>m3 DEF Interlock, EvaluateInterlock, Goto, Unwind, house
  <1>11. ASSUME EnableDmz PROVE Step
    BY <1>11, <1>a, <1>m2, <1>m3 DEF EnableDmz, HubSet, StageDone, Unwind
  <1>12. ASSUME HubReboot PROVE Step
    BY <1>12, <1>a, <1>m1, <1>m3 DEF HubReboot, HubRebootRequest, StageDone, Unwind
  <1>13. ASSUME ObserveLease PROVE Step
    BY <1>13, <1>a, <1>m1, <1>m3 DEF ObserveLease, Goto, Unwind
  <1>14. ASSUME PoisonGate PROVE Step
    BY <1>14, <1>a, <1>m1, <1>m3 DEF PoisonGate, Goto, Unwind, house
  <1>15. ASSUME LeaseVerifier PROVE Step
    BY <1>15, <1>a, <1>m1, <1>m3 DEF LeaseVerifier, StageDone, Unwind, house
  <1>16. ASSUME ApplyArmor PROVE Step
    BY <1>16, <1>a, <1>m1, <1>m3 DEF ApplyArmor, StageDone, Unwind
  <1>17. ASSUME Verify PROVE Step
    BY <1>17, <1>a, <1>m1, <1>m3 DEF Verify, StageDone, Unwind, house
  <1>18. ASSUME Arm PROVE Step
    BY <1>18, <1>a, <1>m1, <1>m3 DEF Arm, StageDone, Unwind, house
  <1>19. ASSUME SetLeaf PROVE Step
    BY <1>19, <1>a, <1>m3, <1>m4 DEF SetLeaf, Return, Unwind
  <1>20. ASSUME RbLeaf PROVE Step
    BY <1>20, <1>a, <1>m2 DEF RbLeaf
  <1>21. ASSUME RbLeavesDone PROVE Step
    BY <1>21, <1>a, <1>m1, <1>m5, <1>m6, <1>f
       DEF RbLeavesDone, Return, Incomplete, Goto, house
  <1>22. ASSUME RbReboot PROVE Step
    BY <1>22, <1>a, <1>m1, <1>m5, <1>m6
       DEF RbReboot, HubRebootRequest, Return, Incomplete, Goto
  <1>23. ASSUME RbRelease PROVE Step
    BY <1>23, <1>a, <1>m1, <1>m5, <1>m6
       DEF RbRelease, Ride, ReLease, Return, Incomplete, Goto
  <1>24. ASSUME RbCheck PROVE Step
    BY <1>24, <1>a, <1>m5, <1>m6, <1>e DEF RbCheck, Return, Incomplete, house
  <1>25. ASSUME House PROVE Step
    BY <1>25, <1>m1 DEF House, LeaseChanges, HubGoesDown, HubBoots, OobChanges, Phase, locals
  <1>26. ASSUME UNCHANGED vars PROVE Step
    BY <1>26, <1>m1 DEF vars, Phase
  <1>27. QED
    BY <1>1, <1>2, <1>3, <1>4, <1>5, <1>6, <1>7, <1>8, <1>9, <1>10, <1>11, <1>12, <1>13, <1>14,
       <1>15, <1>16, <1>17, <1>18, <1>19, <1>20, <1>21, <1>22, <1>23, <1>24, <1>25, <1>26
       DEF Next, Process, StartCommand

\* The cutover, its rollback and hub set keep the contract of the rails.
THEOREM Contract ==
    Spec => ImplementsGuardedChange
  BY InitContract, NextContract, InvHolds, PTL DEF Spec, ImplementsGuardedChange, GC!GCSpec
=============================================================================
