-------------------------- MODULE GlandBeatProofs --------------------------
(***************************************************************************)
(* What is proved of GlandBeat, for any intervals that meet its numeric    *)
(* assumptions, where the reaper and the sentinel ask for the right label. *)
(***************************************************************************)
EXTENDS GlandBeat, TLAPS

\* launchd tracks a beat only while the job is loaded, and its interval has
\* not fired since the beat began.
Tracked ==
    /\ Alive => loaded /\ beat.pid \in Pids /\ beat.age = next
    /\ ~Alive => beat = NoBeat
    /\ seen.pid = NoPid => seen = NotSeen

\* A beat the reaper has not noted is younger than its last look; the one it
\* has noted is not older than the note allows.
Watched ==
    Alive => IF seen.pid = beat.pid
               THEN /\ seen.age <= beat.age
                    /\ seen.age < Wall => beat.age <= Sight + seen.age
                    /\ seen.age = Wall => beat.age <= Sight + Wall - 1 + looked
               ELSE beat.age <= looked

\* The reaper's note of a beat that is gone outlives it by less than one look.
NoteFades == loaded /\ ~Alive /\ seen # NotSeen => next <= SlotBound + looked

\* A timer was armed no later than its beat could be alive, and no timer with
\* the pid of the running beat is older than that beat.
TimersFade ==
    /\ loaded => \A t \in timers : next <= SlotBound + t.age
    /\ Alive => \A t \in timers :
                    t.pid = beat.pid => beat.pc # "spawned" /\ t.age <= beat.age

\* The stamp is of this beat, unless neither the beat nor the reaper got there.
Stamped ==
    loaded => stamp <= next \/ (beat.pc \in {"spawned", "armed"} /\ beat.age <= looked)

\* Nothing is written once the job is booted out.
Abandoned ==
    ~loaded => /\ next <= panel.age /\ next <= stamp
               /\ sent.pc = "read" /\ ~sent.late => next <= Stale + sent.lag

Inv == TypeOK /\ Tracked /\ Watched /\ NoteFades /\ TimersFade /\ Stamped /\ Abandoned

-----------------------------------------------------------------------------

LEMMA Numbers ==
    /\ Deadline \in Nat /\ Wall \in Nat /\ Sight \in Nat /\ BeatEvery \in Nat
    /\ Stale \in Nat /\ ProbeMax \in Nat
    /\ SlotBound \in Nat /\ Oldest \in Nat
    /\ 0 < Sight /\ Sight < Wall
    /\ SlotBound + Wall < BeatEvery /\ SlotBound + Sight < BeatEvery
    /\ BeatEvery < Oldest /\ Stale + ProbeMax < Oldest
    /\ SlotBound = 2 * Sight + Wall - 1
BY NatAssumption, IntervalAssumption DEF SlotBound, Oldest

\* The types the steps below need, without the sets of records.
LEMMA Fields ==
  ASSUME TypeOK
  PROVE  /\ loaded \in BOOLEAN /\ next \in Nat /\ looked \in 0 .. Sight
         /\ beat.age \in Age /\ seen.age \in 0 .. Wall /\ stamp \in Age /\ panel.age \in Age
         /\ sent.lag \in 0 .. ProbeMax
         /\ \A t \in timers : t.pid \in Pids /\ t.age \in 0 .. Wall
BY Numbers DEF TypeOK, Beats, Runs, Age

\* No beat is alive for longer than SlotBound.
LEMMA SlotIsBounded ==
  ASSUME TypeOK, Watched, Alive
  PROVE  beat.age <= SlotBound
<1>1. CASE seen.pid = beat.pid
  BY <1>1, Fields, Numbers DEF Watched, Age
<1>2. CASE seen.pid # beat.pid
  BY <1>2, Fields, Numbers DEF Watched, Age
<1> QED
  BY <1>1, <1>2

LEMMA InitInv == Init => Inv
<1> SUFFICES ASSUME Init PROVE Inv
  OBVIOUS
<1> USE Numbers DEF Init, NoBeat, NotSeen, NotRunning, Alive
<1>1. Oldest \in Age /\ 0 \in Age /\ 0 \in 0 .. Deadline
  BY DEF Age
<1>2. panel \in [content : Content, age : Age]
  BY <1>1, FoundAssumption DEF Content
<1>3. beat \in Beats /\ sent \in Runs
  BY <1>1 DEF Beats, Runs, Content, Exit, Verdict, BeatStep
<1>4. seen \in [pid : Pids \cup {NoPid}, age : 0 .. Wall] /\ looked \in 0 .. Sight
  OBVIOUS
<1>5. TypeOK
  BY <1>1, <1>2, <1>3, <1>4 DEF TypeOK, Exit
<1> QED
  BY <1>1, <1>5 DEF Inv, Age, Tracked, Watched, NoteFades, TimersFade, Stamped, Abandoned

-----------------------------------------------------------------------------
(* What each actor leaves alone.                                           *)

\* The sentinel only observes.
LEMMA SentinelObserves ==
  Sentinel => UNCHANGED <<loaded, next, beat, timers, flags, lastExit, seen, looked,
                          stamp, panel>>
BY DEF Sentinel, SentinelReads, SentinelJudges, ConfirmByLib, ConfirmInProcess,
       SentinelPages, gland, files

\* A step of the beat: it goes on as the same process, or exits after the last.
LEMMA BeatGoesOn ==
  ASSUME TypeOK, Tracked, Beat
  PROVE  /\ Alive /\ UNCHANGED <<loaded, next, seen, looked, sent>>
         /\ \/ /\ Alive' /\ beat'.pid = beat.pid /\ beat'.age = beat.age
               /\ beat'.pc # "spawned"
            \/ beat' = NoBeat /\ beat.pc = "unflag"
         /\ \/ beat.pc = "spawned" /\ beat'.pc = "armed" /\ stamp' = stamp
            \/ beat.pc = "armed" /\ stamp' = 0
            \/ beat.pc \notin {"spawned", "armed"} /\ stamp' = stamp
         /\ \A t \in timers' : t \in timers \/ t = [pid |-> beat.pid, age |-> 0]
<1> USE DEF Alive, Goto, Leave, NoBeat, files, TypeOK, Beats, BeatStep
<1>1. CASE Arm BY <1>1 DEF Arm
<1>2. CASE NoteBeat BY <1>2 DEF NoteBeat
<1>3. CASE Start BY <1>3 DEF Start
<1>4. CASE EnterTick BY <1>4 DEF EnterTick
<1>5. CASE Republish BY <1>5 DEF Republish
<1>6. CASE Publish BY <1>6 DEF Publish
<1>7. CASE Broadcast BY <1>7 DEF Broadcast
<1>8. CASE Alarm BY <1>8 DEF Alarm, Bounded
<1>9. CASE Raises BY <1>9 DEF Raises
<1>10. CASE TouchFlag BY <1>10 DEF TouchFlag
<1>11. CASE StopTimer BY <1>11 DEF StopTimer
<1>12. CASE Finish BY <1>12 DEF Finish
<1> QED
  BY <1>1, <1>2, <1>3, <1>4, <1>5, <1>6, <1>7, <1>8, <1>9, <1>10, <1>11, <1>12 DEF Beat

\* When the interval fires the slot is free, the reaper has forgotten the last
\* beat and no timer is left: a pid may be given out again.
LEMMA FreshStart ==
  ASSUME TypeOK, Tracked, Watched, NoteFades, TimersFade, Interval
  PROVE  /\ ~Alive /\ seen = NotSeen /\ timers = {}
         /\ \E p \in Pids : beat' = NewBeat(p)
<1>1. ~Alive
  BY SlotIsBounded, Numbers, Fields DEF Tracked, Interval, Age
<1>2. seen = NotSeen
  BY <1>1, Numbers, Fields DEF NoteFades, Interval
<1>3. timers = {}
  BY Numbers, Fields DEF TimersFade, Interval
<1> QED
  BY <1>1, <1>2, <1>3 DEF Interval

-----------------------------------------------------------------------------
(* Types.                                                                  *)

LEMMA LaunchdType ==
  ASSUME TypeOK, Tracked, Watched, NoteFades, TimersFade, Launchd
  PROVE  TypeOK'
<1>0. /\ 0 \in Age /\ NoBeat \in Beats
      /\ \A p \in Pids : NewBeat(p) \in Beats
  <2>1. 0 \in Age /\ 0 \in 0 .. Deadline
    BY Numbers DEF Age
  <2> QED
    BY <2>1 DEF NoBeat, NewBeat, Beats, BeatStep, Exit
<1> USE <1>0, Numbers DEF files, TypeOK, Exit
<1>1. CASE Load
  BY <1>1 DEF Load
<1>2. CASE Unload
  BY <1>2 DEF Unload
<1>3. CASE Interval
  BY <1>3, FreshStart DEF Interval
<1> QED
  BY <1>1, <1>2, <1>3 DEF Launchd

LEMMA BeatType ==
  ASSUME TypeOK, Tracked, Beat
  PROVE  TypeOK'
<1>1. beat' \in Beats
  <2> USE DEF Goto, Leave, TypeOK, Beats, BeatStep, Exit
  <2>1. CASE \/ Arm \/ NoteBeat \/ EnterTick \/ Republish \/ Publish \/ TouchFlag \/ StopTimer
    BY <2>1 DEF Arm, NoteBeat, EnterTick, Republish, Publish, TouchFlag, StopTimer
  <2>2. CASE Start \/ Broadcast \/ Alarm \/ Raises
    <3>1. Goto("python") \/ Leave("bad") \/ Leave("clean")
      BY <2>2 DEF Start, Broadcast, Alarm, Raises
    <3>2. 0 \in 0 .. Deadline
      BY Numbers
    <3> QED
      BY <3>1, <3>2
  <2>3. CASE Finish
    BY <2>3, Numbers DEF Finish, NoBeat, Age
  <2> QED
    BY <2>1, <2>2, <2>3 DEF Beat
<1>2. /\ timers' \subseteq [pid : Pids, age : 0 .. Wall]
      /\ flags' \subseteq Pids /\ lastExit' \in Exit
  <2>1. beat.pid \in Pids /\ 0 \in 0 .. Wall /\ beat.code \in Exit
    BY BeatGoesOn, Numbers DEF Tracked, TypeOK, Beats
  <2> QED
    BY <2>1
       DEF Beat, Arm, NoteBeat, Start, EnterTick, Republish, Publish, Broadcast, Alarm,
           Raises, TouchFlag, StopTimer, Finish, TypeOK
<1>3. stamp' \in Age /\ panel' \in [content : Content, age : Age]
  BY Numbers
     DEF Beat, Arm, NoteBeat, Start, EnterTick, Republish, Publish, Broadcast, Alarm, Raises,
         TouchFlag, StopTimer, Finish, TypeOK, files, Age, Content, Readable
<1> QED
  BY <1>1, <1>2, <1>3, BeatGoesOn DEF TypeOK

LEMMA WatchType ==
  ASSUME TypeOK, Tracked, TimerWakes \/ Reaper
  PROVE  TypeOK'
<1> USE Numbers DEF NoBeat, NotSeen, files, gland, TypeOK, Beats, Age, BeatStep, Exit, Killed,
                    Tracked, Alive
<1>1. CASE TimerWakes
  BY <1>1 DEF TimerWakes
<1>2. CASE ReaperIdle
  BY <1>2 DEF ReaperIdle
<1>3. CASE ReaperUnloaded
  BY <1>3 DEF ReaperUnloaded
<1>4. CASE ReaperSees
  BY <1>4 DEF ReaperSees, Shown
<1> QED
  BY <1>1, <1>2, <1>3, <1>4 DEF Reaper

LEMMA SentinelType ==
  ASSUME TypeOK, Sentinel
  PROVE  TypeOK'
<1>1. sent' \in Runs
  <2>0. NotRunning \in Runs /\ sent \in Runs /\ 0 \in 0 .. ProbeMax
    BY Numbers DEF TypeOK, NotRunning, Runs, Content, Verdict
  <2> USE <2>0 DEF Runs
  <2>1. CASE SentinelReads
    <3>1. panel.content \in Content /\ (panel.age > Stale) \in BOOLEAN
      BY DEF TypeOK
    <3> QED
      BY <2>1, <3>1 DEF SentinelReads
  <2>2. CASE SentinelJudges
    <3>1. PICK state \in Verdict :
              \/ sent' = [sent EXCEPT !.pc = "confirm", !.state = state]
              \/ sent' = [sent EXCEPT !.pc = "page"]
              \/ sent' = NotRunning
      BY <2>2 DEF SentinelJudges, Diagnose, Verdict
    <3> QED
      BY <3>1
  <2>3. CASE ConfirmByLib
    BY <2>3 DEF ConfirmByLib
  <2>4. CASE ConfirmInProcess
    BY <2>4 DEF ConfirmInProcess
  <2>5. CASE SentinelPages
    BY <2>5 DEF SentinelPages
  <2> QED
    BY <2>1, <2>2, <2>3, <2>4, <2>5 DEF Sentinel
<1> QED
  BY <1>1, SentinelObserves DEF TypeOK

LEMMA TickType ==
  ASSUME TypeOK, Tracked, Tick
  PROVE  TypeOK'
<1> USE Numbers DEF TypeOK, Beats, Runs, Tick
<1>1. \A a \in Age : Older(a) \in Age
  BY DEF Older, Age
<1>2. beat' \in Beats
  <2>1. (IF Alive THEN Older(beat.age) ELSE beat.age) \in Age
    BY <1>1
  <2>2. (IF beat.pc \in Bounded /\ beat.alarm < Deadline THEN beat.alarm + 1 ELSE beat.alarm)
          \in 0 .. Deadline
    OBVIOUS
  <2> QED
    BY <2>1, <2>2
<1>3. timers' \subseteq [pid : Pids, age : 0 .. Wall]
  OBVIOUS
<1>4. seen' \in [pid : Pids \cup {NoPid}, age : 0 .. Wall] /\ looked' \in 0 .. Sight
  <2>1. (IF seen # NotSeen /\ seen.age < Wall THEN seen.age + 1 ELSE seen.age) \in 0 .. Wall
    OBVIOUS
  <2> QED
    BY <2>1
<1>5. stamp' \in Age /\ panel' \in [content : Content, age : Age]
  BY <1>1
<1>6. next' \in IF loaded' THEN 0 .. BeatEvery ELSE Age
  <2>1. CASE loaded
    BY <2>1
  <2>2. CASE ~loaded
    BY <2>2, <1>1
  <2> QED
    BY <2>1, <2>2
<1>7. sent' \in Runs
  <2>1. (IF sent.pc = "idle" THEN sent.lag ELSE sent.lag + 1) \in 0 .. ProbeMax
    OBVIOUS
  <2> QED
    BY <2>1
<1> QED
  BY <1>2, <1>3, <1>4, <1>5, <1>6, <1>7

LEMMA TypeStep ==
  ASSUME TypeOK, Tracked, Watched, NoteFades, TimersFade, [Next]_vars
  PROVE  TypeOK'
<1>1. CASE UNCHANGED vars
  BY <1>1 DEF vars, TypeOK
<1> QED
  BY <1>1, LaunchdType, BeatType, WatchType, SentinelType, TickType DEF Next

-----------------------------------------------------------------------------
(* The beat, the reaper's note and the timers.                             *)

LEMMA TrackedStep ==
  ASSUME Inv, [Next]_vars
  PROVE  Tracked'
<1> USE DEF Inv, Tracked, Alive, NoBeat
<1>1. CASE Load
  BY <1>1, PidAssumption DEF Load, NewBeat, files
<1>2. CASE Unload
  BY <1>2 DEF Unload, files
<1>3. CASE Interval
  BY <1>3, FreshStart, PidAssumption DEF Interval, NewBeat, files
<1>4. CASE Beat
  BY <1>4, BeatGoesOn
<1>5. CASE TimerWakes
  BY <1>5 DEF TimerWakes, Killed, files
<1>6. CASE Reaper
  BY <1>6, PidAssumption
     DEF Reaper, ReaperIdle, ReaperUnloaded, Shown, ReaperSees, Killed, NotSeen, gland
<1>7. CASE Sentinel
  BY <1>7, SentinelObserves
<1>8. CASE Tick
  <2>1. Alive => Older(beat.age) = beat.age + 1
    BY <1>8, Numbers, Fields DEF Tick, Older, Age
  <2> QED
    BY <1>8, <2>1 DEF Tick, NotSeen, TypeOK, Beats, BeatStep, Bounded
<1>9. CASE UNCHANGED vars
  BY <1>9 DEF vars
<1> QED
  BY <1>1, <1>2, <1>3, <1>4, <1>5, <1>6, <1>7, <1>8, <1>9 DEF Next, Launchd

LEMMA WatchedStep ==
  ASSUME LabelsAgree, Inv, [Next]_vars
  PROVE  Watched'
<1> USE DEF Inv, Watched
<1>1. CASE Load
  BY <1>1, Fields, Numbers DEF Load, NewBeat, NoBeat, files
<1>2. CASE Unload
  BY <1>2 DEF Unload, NoBeat, Alive
<1>3. CASE Interval
  <2>1. PICK p \in Pids : beat' = NewBeat(p)
    BY <1>3, FreshStart
  <2>2. seen' = NotSeen /\ looked' = looked /\ p # NoPid
    BY <1>3, FreshStart, PidAssumption DEF Interval, files
  <2> QED
    BY <2>1, <2>2, Fields, Numbers DEF NewBeat, NoBeat, NotSeen
<1>4. CASE Beat
  BY <1>4, BeatGoesOn DEF NoBeat, Alive
<1>5. CASE TimerWakes
  BY <1>5 DEF TimerWakes, Killed, NoBeat, Alive, files
<1>6. CASE Reaper
  <2>1. CASE ~Alive'
    BY <2>1
  <2>2. CASE Alive' /\ seen.pid # beat.pid
    <3>1. beat' = beat /\ Alive /\ seen' = [pid |-> beat.pid, age |-> 0]
      BY <1>6, <2>2 DEF Reaper, ReaperIdle, ReaperUnloaded, Shown, ReaperSees, gland, Alive, Tracked
    <3> QED
      BY <2>2, <3>1, Fields, Numbers DEF Age
  <2>3. CASE Alive' /\ seen.pid = beat.pid
    <3>1. beat' = beat /\ Alive /\ seen' = seen /\ seen.age < Wall
      BY <1>6, <2>3, Fields, Numbers
         DEF Reaper, ReaperIdle, ReaperUnloaded, Shown, ReaperSees, Killed, NoBeat, gland, Alive,
             Tracked
    <3> QED
      BY <2>3, <3>1, Fields, Numbers DEF Age
  <2> QED
    BY <2>1, <2>2, <2>3
<1>7. CASE Sentinel
  BY <1>7, SentinelObserves DEF Alive
<1>8. CASE Tick
  <2> SUFFICES ASSUME Alive PROVE Watched'
    BY <1>8 DEF Tick, Alive, TypeOK, Beats
  <2>1. /\ beat'.age = beat.age + 1 /\ beat'.pid = beat.pid /\ looked' = looked + 1
        /\ beat.age \in Nat /\ seen.age \in Nat /\ looked \in Nat
    BY <1>8, TrackedStep, Fields, Numbers DEF Tick, Tracked, Alive, Older, Age, TypeOK, Beats
  <2>2. CASE seen.pid = beat.pid
    <3>1. seen # NotSeen
      BY <2>2, PidAssumption DEF Tracked, NotSeen
    <3>2. seen'.pid = seen.pid /\ seen'.age = IF seen.age < Wall THEN seen.age + 1 ELSE seen.age
      BY <1>8, <3>1 DEF Tick, TypeOK
    <3> QED
      BY <2>1, <2>2, <3>2, Fields, Numbers
  <2>3. CASE seen.pid # beat.pid
    <3>1. seen'.pid = seen.pid
      BY <1>8 DEF Tick, TypeOK
    <3> QED
      BY <2>1, <2>3, <3>1
  <2> QED
    BY <2>2, <2>3
<1>9. CASE UNCHANGED vars
  BY <1>9 DEF vars, Alive
<1> QED
  BY <1>1, <1>2, <1>3, <1>4, <1>5, <1>6, <1>7, <1>8, <1>9 DEF Next, Launchd

LEMMA NoteFadesStep ==
  ASSUME LabelsAgree, Inv, [Next]_vars
  PROVE  NoteFades'
<1> USE DEF Inv, NoteFades
<1>1. CASE Alive /\ ~Alive' /\ loaded' /\ next' = next /\ looked' = looked
  <2>1. next <= SlotBound
    BY <1>1, SlotIsBounded DEF Tracked
  <2> QED
    BY <1>1, <2>1, Fields, Numbers
<1>2. CASE Launchd
  BY <1>2, FreshStart DEF Launchd, Load, Unload, Interval, NewBeat, NoBeat, Alive
<1>3. CASE Beat
  BY <1>1, <1>3, BeatGoesOn
<1>4. CASE TimerWakes
  BY <1>1, <1>4 DEF TimerWakes, files, Alive
<1>5. CASE Reaper
  BY <1>1, <1>5, Fields, Numbers
     DEF Reaper, ReaperIdle, ReaperUnloaded, Shown, ReaperSees, gland, Alive
<1>6. CASE Sentinel
  BY <1>6, SentinelObserves DEF Alive
<1>7. CASE Tick
  BY <1>7, Fields, Numbers DEF Tick, Alive, TypeOK, Beats, NotSeen
<1>8. CASE UNCHANGED vars
  BY <1>8 DEF vars, Alive
<1> QED
  BY <1>2, <1>3, <1>4, <1>5, <1>6, <1>7, <1>8 DEF Next

LEMMA TimersFadeStep ==
  ASSUME Inv, [Next]_vars
  PROVE  TimersFade'
<1> USE DEF Inv, TimersFade
<1>1. CASE Load
  BY <1>1, Fields, Numbers DEF Load, NewBeat, NoBeat
<1>2. CASE Unload
  BY <1>2 DEF Unload, NoBeat, Alive
<1>3. CASE Interval
  BY <1>3, FreshStart DEF Interval
<1>4. CASE Beat
  <2>1. next <= SlotBound /\ beat.age = next
    BY <1>4, BeatGoesOn, SlotIsBounded DEF Tracked
  <2> QED
    BY <1>4, <2>1, BeatGoesOn, Fields, Numbers DEF NoBeat, Alive, Tracked
<1>5. CASE TimerWakes
  BY <1>5 DEF TimerWakes, Killed, NoBeat, Alive
<1>6. CASE Reaper
  BY <1>6 DEF Reaper, ReaperIdle, ReaperUnloaded, Shown, ReaperSees, Killed, NoBeat, Alive, gland
<1>7. CASE Sentinel
  BY <1>7, SentinelObserves DEF Alive
<1>8. CASE Tick
  <2>1. \A u \in timers' : \E t \in timers : u.pid = t.pid /\ u.age = t.age + 1
    BY <1>8 DEF Tick, TypeOK
  <2>2. Alive' => /\ Alive /\ beat'.pc = beat.pc /\ beat'.pid = beat.pid
                  /\ beat'.age = beat.age + 1 /\ beat.age \in Nat
    BY <1>8, TrackedStep, Fields, Numbers DEF Tick, Tracked, Alive, TypeOK, Beats, Age
  <2>3. loaded' => loaded /\ next' = next + 1
    BY <1>8 DEF Tick
  <2> QED
    BY <2>1, <2>2, <2>3, Fields, Numbers
<1>9. CASE UNCHANGED vars
  BY <1>9 DEF vars, Alive
<1> QED
  BY <1>1, <1>2, <1>3, <1>4, <1>5, <1>6, <1>7, <1>8, <1>9 DEF Next, Launchd

-----------------------------------------------------------------------------
(* What the sentinel reads.                                                *)

LEMMA StampedStep ==
  ASSUME LabelsAgree, Inv, [Next]_vars
  PROVE  Stamped'
<1> USE DEF Inv, Stamped
<1>1. CASE Load \/ Interval
  <2>1. PICK p \in Pids : beat' = NewBeat(p)
    BY <1>1, FreshStart DEF Load
  <2>2. looked' = looked /\ looked \in Nat
    BY <1>1, Fields, Numbers DEF Load, Interval, files
  <2> QED
    BY <2>1, <2>2 DEF NewBeat, NoBeat
<1>2. CASE Unload
  BY <1>2 DEF Unload
<1>3. CASE Beat
  <2>1. CASE beat.pc = "spawned"
    <3>1. beat'.pc = "armed" /\ beat'.age = beat.age /\ stamp' = stamp
      BY <1>3, <2>1, BeatGoesOn DEF NoBeat
    <3> QED
      BY <1>3, <2>1, <3>1, BeatGoesOn
  <2>2. CASE beat.pc = "armed"
    BY <1>3, <2>2, BeatGoesOn, Fields
  <2>3. CASE beat.pc \notin {"spawned", "armed"}
    BY <1>3, <2>3, BeatGoesOn
  <2> QED
    BY <2>1, <2>2, <2>3
<1>4. CASE TimerWakes
  <2>1. CASE UNCHANGED beat
    BY <1>4, <2>1 DEF TimerWakes, files
  <2>2. CASE Alive /\ \E t \in timers : t.pid = beat.pid /\ t.age = Wall
    <3>1. ~(beat.age <= looked)
      BY <2>2, Fields, Numbers DEF TimersFade, Age
    <3> QED
      BY <1>4, <3>1 DEF TimerWakes, files
  <2> QED
    BY <1>4, <2>1, <2>2 DEF TimerWakes
<1>5. CASE Reaper
  <2>1. CASE ReaperSees
    BY <2>1, Fields DEF ReaperSees, Shown
  <2>2. CASE ReaperIdle \/ ReaperUnloaded
    BY <2>2 DEF ReaperIdle, ReaperUnloaded, Shown, gland, Alive
  <2> QED
    BY <1>5, <2>1, <2>2 DEF Reaper
<1>6. CASE Sentinel
  BY <1>6, SentinelObserves
<1>7. CASE Tick
  BY <1>7, Fields, Numbers DEF Tick, TypeOK, Beats, Older, Age
<1>8. CASE UNCHANGED vars
  BY <1>8 DEF vars
<1> QED
  BY <1>1, <1>2, <1>3, <1>4, <1>5, <1>6, <1>7, <1>8 DEF Next, Launchd

LEMMA AbandonedStep ==
  ASSUME Inv, [Next]_vars
  PROVE  Abandoned'
<1> USE DEF Inv, Abandoned
<1>1. CASE Load \/ Interval
  BY <1>1 DEF Load, Interval
<1>2. CASE Unload
  BY <1>2, Fields, Numbers DEF Unload, files, Age
<1>3. CASE Beat
  BY <1>3, BeatGoesOn DEF Tracked
<1>4. CASE TimerWakes
  BY <1>4 DEF TimerWakes, files
<1>5. CASE Reaper
  BY <1>5 DEF Reaper, ReaperIdle, ReaperUnloaded, Shown, ReaperSees, gland, Tracked
<1>6. CASE Sentinel
  <2>1. CASE SentinelReads
    <3>1. /\ sent'.late = (panel.age > Stale) /\ sent'.lag = 0
          /\ UNCHANGED <<loaded, next, panel, stamp>>
      BY <2>1 DEF SentinelReads, gland, files, TypeOK, Runs
    <3>2. panel.age > Stale => sent'.late
      BY <3>1, Zenon
    <3>3. panel.age \in Int /\ Stale \in Int /\ next \in Int
      BY Fields, Numbers DEF Age
    <3> QED
      BY <3>1, <3>2, <3>3
  <2>2. CASE ~SentinelReads
    <3>1. sent'.pc # "read"
      <4>1. CASE SentinelJudges
        BY <4>1 DEF SentinelJudges, NotRunning, TypeOK, Runs
      <4>2. CASE ConfirmByLib
        BY <4>2 DEF ConfirmByLib, TypeOK, Runs
      <4>3. CASE ConfirmInProcess
        BY <4>3 DEF ConfirmInProcess, NotRunning, TypeOK, Runs
      <4>4. CASE SentinelPages
        BY <4>4 DEF SentinelPages, NotRunning
      <4> QED
        BY <1>6, <2>2, <4>1, <4>2, <4>3, <4>4 DEF Sentinel
    <3> QED
      BY <1>6, <3>1, SentinelObserves
  <2> QED
    BY <2>1, <2>2
<1>7. CASE Tick
  BY <1>7, Fields, Numbers DEF Tick, TypeOK, Runs, Older, Age
<1>8. CASE UNCHANGED vars
  BY <1>8 DEF vars
<1> QED
  BY <1>1, <1>2, <1>3, <1>4, <1>5, <1>6, <1>7, <1>8 DEF Next, Launchd

-----------------------------------------------------------------------------
(* The theorems.                                                           *)

\* The invariant: types, and what the ages of the beat, the note, the timers
\* and the files owe one another.
THEOREM Invariance ==
  ASSUME LabelsAgree
  PROVE  Spec => []Inv
<1>1. Inv /\ [Next]_vars => Inv'
  BY TypeStep, TrackedStep, WatchedStep, NoteFadesStep, TimersFadeStep, StampedStep,
     AbandonedStep DEF Inv
<1> QED
  BY InitInv, <1>1, PTL DEF Spec

\* Types.
THEOREM TypeCorrect ==
  ASSUME LabelsAgree
  PROVE  Spec => []TypeOK
<1>1. Inv => TypeOK
  BY DEF Inv
<1> QED
  BY Invariance, <1>1, PTL

\* launchd's interval always finds the slot free (endocrine-tick.sh, the reaper).
THEOREM SlotFree ==
  ASSUME LabelsAgree
  PROVE  Spec => []NoBeatIsSkipped
<1>1. Inv => NoBeatIsSkipped
  BY SlotIsBounded, Numbers, Fields DEF Inv, Tracked, NoBeatIsSkipped
<1> QED
  BY Invariance, <1>1, PTL

\* beat-seen keeps up with the interval wherever beats hang (note_beat, twice).
THEOREM StampCurrent ==
  ASSUME LabelsAgree
  PROVE  Spec => []StampKeepsUp
<1>1. Inv => StampKeepsUp
  BY Numbers, Fields DEF Inv, Stamped, StampKeepsUp, Alive, Age
<1> QED
  BY Invariance, <1>1, PTL

\* Whatever is killed by a deadline has had it, pids reused or not.
THEOREM DueKills ==
  ASSUME LabelsAgree
  PROVE  Spec => KillsAreDue
<1>1. ASSUME Inv, [Next]_vars, Alive, ~Alive', loaded', beat.pc # "unflag"
      PROVE  beat.age >= Wall
  <2> USE <1>1 DEF Inv
  <2>1. CASE Launchd
    BY <2>1, FreshStart DEF Launchd, Load, Unload, Interval, Tracked, NewBeat, NoBeat, Alive
  <2>2. CASE Beat
    BY <2>2, BeatGoesOn
  <2>3. CASE TimerWakes
    <3>1. \E t \in timers : t.pid = beat.pid /\ t.age = Wall
      BY <2>3 DEF TimerWakes, Alive
    <3> QED
      BY <3>1, Fields, Numbers DEF TimersFade, Age
  <2>4. CASE Reaper
    <3>1. seen.pid = beat.pid /\ seen.age >= Wall
      BY <2>4 DEF Reaper, ReaperIdle, ReaperUnloaded, Shown, ReaperSees, gland, Alive
    <3> QED
      BY <3>1, Fields, Numbers DEF Watched, Age
  <2>5. CASE Sentinel
    BY <2>5, SentinelObserves DEF Alive
  <2>6. CASE Tick
    BY <2>6 DEF Tick, Alive, TypeOK, Beats
  <2>7. CASE UNCHANGED vars
    BY <2>7 DEF vars, Alive
  <2> QED
    BY <2>1, <2>2, <2>3, <2>4, <2>5, <2>6, <2>7 DEF Next
<1>2. Inv /\ [Next]_vars
        => [Alive /\ ~Alive' /\ loaded' /\ beat.pc # "unflag" => beat.age >= Wall]_vars
  BY <1>1
<1> QED
  BY Invariance, <1>2, PTL DEF Spec, KillsAreDue

\* A job booted out for STALE_SEC is never passed over by the sentinel (diagnose).
THEOREM StopNoticed ==
  ASSUME LabelsAgree
  PROVE  Spec => StoppedLoopIsNoticed
<1>1. ASSUME Inv, [Next]_vars, sent.pc = "read", ~sent.recheck, sent'.pc = "idle", ~loaded
      PROVE  next <= Stale + ProbeMax
  <2> USE <1>1 DEF Inv
  <2>1. SentinelJudges
    BY BeatGoesOn
       DEF Next, Launchd, Load, Unload, Interval, TimerWakes, Reaper, ReaperIdle,
           ReaperUnloaded, ReaperSees, Sentinel, SentinelReads, ConfirmByLib,
           ConfirmInProcess, SentinelPages, Tick, vars, TypeOK, Runs
  <2>2. PICK status \in {<<Shown, lastExit>>, <<FALSE, "none">>} :
            LET state == Diagnose(sent.content, sent.late, status[1], status[2],
                                  stamp - sent.lag)
            IN  sent' = IF ~sent.recheck /\ state \in Pageable
                          THEN [sent EXCEPT !.pc = "confirm", !.state = state]
                        ELSE IF sent.recheck /\ state = sent.state
                          THEN [sent EXCEPT !.pc = "page"]
                        ELSE NotRunning
    BY <2>1 DEF SentinelJudges
  <2>3. ~status[1]
    <3>1. CASE status = <<Shown, lastExit>>
      <4>1. ~Shown
        BY DEF Shown
      <4> QED
        BY <3>1, <4>1, Zenon
    <3>2. CASE status = <<FALSE, "none">>
      BY <3>2
    <3> QED
      BY <3>1, <3>2
  <2>4. Diagnose(sent.content, sent.late, status[1], status[2], stamp - sent.lag) \notin Pageable
    BY <2>2 DEF TypeOK, Runs
  <2>5. ~sent.late \/ stamp - sent.lag \in 0 .. Stale
    BY <2>3, <2>4 DEF Diagnose, Pageable
  <2> QED
    BY <2>5, Fields, Numbers DEF Abandoned, Age
<1>2. Inv /\ [Next]_vars
        => [sent.pc = "read" /\ ~sent.recheck /\ sent'.pc = "idle"
              => loaded \/ next <= Stale + ProbeMax]_vars
  BY <1>1
<1> QED
  BY Invariance, <1>2, PTL DEF Spec, StoppedLoopIsNoticed

=============================================================================
