----------------------------- MODULE GlandBeat -----------------------------
(***************************************************************************)
(* The endocrine gland on its schedule (deploy/endocrine): launchd starts  *)
(* a beat every BeatEvery and never two at once; the beat is the wrapper   *)
(* endocrine-tick.sh, which forks its own outer timer and then runs        *)
(* `sanctum endocrine tick` under an inner alarm; the reaper is a job of   *)
(* its own that kills a beat it has seen for too long; the sentinel reads  *)
(* what all of them leave behind and may page.                             *)
(*                                                                         *)
(* Time passes in Tick, for every age at once.  A beat may hang at any     *)
(* step.  The outer timer, the reaper and launchd act on time: Tick waits  *)
(* for them.                                                               *)
(***************************************************************************)
EXTENDS Integers

CONSTANTS
    Pids, NoPid,
    LabelsAgree, \* is the label the reaper and the sentinel ask for the gland's own
    Found,      \* what panel.json may hold before the first beat
    Deadline,   \* the inner alarm of a tick
    Wall,       \* the outer timer, and what the reaper allows
    Sight,      \* the longest time between two looks of the reaper that succeed
    BeatEvery,  \* StartInterval of the gland
    Stale,      \* STALE_SEC
    ProbeMax    \* the longest run of the sentinel: launchctl's timeout and the recheck

\* A beat is first seen at most Sight after its start, and dies at the first
\* look at which it has been seen for Wall.
SlotBound == 2 * Sight + Wall - 1
\* Ages stop here: nothing tells older ones apart.
Oldest == Stale + ProbeMax + 1

ASSUME LabelAssumption == LabelsAgree \in BOOLEAN
ASSUME FoundAssumption == Found \subseteq {"absent", "garbage", "levels", "storm"}
ASSUME PidAssumption == NoPid \notin Pids
ASSUME NatAssumption ==
    /\ {Deadline, Wall, Sight, BeatEvery, Stale, ProbeMax} \subseteq Nat
    /\ 0 < Sight /\ Sight < Wall
\* 10 s + 25 s + 10 s, and one more wall or look, inside 120 s; ten minutes.
ASSUME IntervalAssumption ==
    SlotBound + Wall < BeatEvery /\ SlotBound + Sight < BeatEvery /\ BeatEvery <= Stale

VARIABLES
    loaded,     \* is the job bootstrapped
    next,       \* time since launchd's interval last fired, or the job was booted out
    beat,       \* the process launchd tracks
    timers,     \* the outer timers still asleep, each with the beat it was armed for
    flags,      \* pids with a done flag in $TMPDIR
    lastExit,   \* "last exit code" of launchctl print
    seen,       \* reaper-seen: a pid and when it was first seen
    looked,     \* time since the reaper's last look
    stamp,      \* age of beat-seen
    panel,      \* panel.json: what a reader makes of it, and its age
    sent        \* the sentinel's run

gland == <<next, beat, timers, flags, lastExit>>
files == <<seen, looked, stamp, panel>>
vars == <<loaded, next, beat, timers, flags, lastExit, seen, looked, stamp,
          panel, sent>>

Age == 0 .. Oldest
Older(a) == IF a < Oldest THEN a + 1 ELSE Oldest

BeatStep == {"spawned", "armed", "noted", "python", "tick", "reads", "cast",
             "exit", "flagged", "unflag"}
\* In these the interpreter is up and inside bounded_tick.
Bounded == {"tick", "reads", "cast"}
Exit == {"none", "clean", "bad"}
Content == {"absent", "garbage", "levels", "storm"}
Verdict == {"HEALTHY", "STEP_LAG", "GLAND_STARTING", "GLAND_DOWN", "HORMONE_STORM"}
Pageable == {"GLAND_DOWN", "HORMONE_STORM"}

NoBeat == [pc |-> "none", pid |-> NoPid, age |-> 0, alarm |-> 0, code |-> "none"]
NewBeat(p) == [NoBeat EXCEPT !.pc = "spawned", !.pid = p]
NotSeen == [pid |-> NoPid, age |-> 0]
NotRunning == [pc |-> "idle", lag |-> 0, content |-> "absent", late |-> FALSE,
               recheck |-> FALSE, state |-> "HEALTHY"]

Beats == [pc : BeatStep \cup {"none"}, pid : Pids \cup {NoPid}, age : Age,
          alarm : 0 .. Deadline, code : Exit]
Runs == [pc : {"idle", "read", "confirm", "again", "page"}, lag : 0 .. ProbeMax,
         content : Content, late : BOOLEAN, recheck : BOOLEAN, state : Verdict]

Alive == beat.pc # "none"
\* Does launchctl print, asked for that label, show the job?
Shown == loaded /\ LabelsAgree

Init ==
    /\ loaded = FALSE /\ next = 0
    /\ beat = NoBeat /\ timers = {} /\ flags = {} /\ lastExit = "none"
    /\ seen = NotSeen /\ looked = 0 /\ stamp = Oldest
    /\ panel \in [content : Found, age : {Oldest}]
    /\ sent = NotRunning

-----------------------------------------------------------------------------
(* launchd.                                                                *)

\* launchctl bootstrap.  RunAtLoad starts a beat at once.  The kernel hands
\* out pids in turn, so it is not a pid that was in use a moment ago.
Load ==
    /\ ~loaded
    /\ loaded' = TRUE /\ next' = 0 /\ lastExit' = "none"
    /\ \E p \in Pids \ ({seen.pid} \cup {t.pid : t \in timers}) : beat' = NewBeat(p)
    /\ UNCHANGED <<timers, flags, files, sent>>

\* launchctl bootout: TERM to the beat, whose trap kills its group.
Unload ==
    /\ loaded
    /\ loaded' = FALSE /\ next' = 0 /\ lastExit' = "none"
    /\ beat' = NoBeat
    /\ UNCHANGED <<timers, flags, files, sent>>

\* (mutant) A job with RunAtLoad and no StartInterval.
RunsAtLoadOnly ==
    /\ loaded /\ next = BeatEvery
    /\ next' = 0
    /\ UNCHANGED <<loaded, beat, timers, flags, lastExit, files, sent>>

\* The interval fires.  A beat that is still there keeps the slot.
Interval ==
    /\ loaded /\ next = BeatEvery
    /\ next' = 0
    /\ beat' \in IF Alive THEN {beat} ELSE {NewBeat(p) : p \in Pids}
    /\ UNCHANGED <<loaded, timers, flags, lastExit, files, sent>>

\* (mutant) The signal is kept as the exit code.
KilledBySignal == beat' = NoBeat /\ lastExit' = "killed"

\* What launchctl print makes of a signal is not a number in every release.
Killed == beat' = NoBeat /\ lastExit' \in {"none", "bad"}

-----------------------------------------------------------------------------
(* The beat: endocrine-tick.sh and the tick it runs.                       *)

Goto(step) == beat' = [beat EXCEPT !.pc = step]
Leave(code) == beat' = [beat EXCEPT !.pc = "exit", !.alarm = 0, !.code = code]

\* xpcproxy has exec'd the wrapper; the timer is forked before anything else.
Arm ==
    /\ beat.pc = "spawned"
    /\ timers' = timers \cup {[pid |-> beat.pid, age |-> 0]}
    /\ Goto("armed")
    /\ UNCHANGED <<loaded, next, flags, lastExit, files, sent>>

NoteBeat ==
    /\ beat.pc = "armed"
    /\ stamp' = 0
    /\ Goto("noted")
    /\ UNCHANGED <<loaded, next, timers, flags, lastExit, seen, looked, panel, sent>>

\* $SANCTUM is started in the background, or is not executable.
Start ==
    /\ beat.pc = "noted"
    /\ Goto("python") \/ Leave("bad")
    /\ UNCHANGED <<loaded, next, timers, flags, lastExit, files, sent>>

\* Imports are done: bounded_tick arms the alarm.
EnterTick ==
    /\ beat.pc = "python"
    /\ Goto("tick")
    /\ UNCHANGED <<loaded, next, timers, flags, lastExit, files, sent>>

Readable == {"levels", "storm"}

\* A panel that cannot be read is not rewritten.  One that can is mended on
\* the way: levels are clamped, missing ones neutral.
Republish ==
    /\ beat.pc = "tick"
    /\ panel' \in IF panel.content \in Readable
                    THEN [content : {"levels", panel.content}, age : {0}]
                    ELSE {panel}
    /\ Goto("reads")
    /\ UNCHANGED <<loaded, next, timers, flags, lastExit, seen, looked, stamp, sent>>

\* read_signals has come back; the checkpoint (or the neutral panel) is
\* stepped and published by rename.  One step need not calm a stuck axis.
Publish ==
    /\ beat.pc = "reads"
    /\ panel' \in [content : {"levels", panel.content} \cap Readable, age : {0}]
    /\ Goto("cast")
    /\ UNCHANGED <<loaded, next, timers, flags, lastExit, seen, looked, stamp, sent>>

\* The broadcast may fail, and then nothing else does.
Broadcast ==
    /\ beat.pc = "cast"
    /\ Leave("clean")
    /\ UNCHANGED <<loaded, next, timers, flags, lastExit, files, sent>>

\* SIGALRM, once the interpreter gets to run it: TickDeadlineExceeded, exit 75.
Alarm ==
    /\ beat.pc \in Bounded /\ beat.alarm >= Deadline
    /\ Leave("bad")
    /\ UNCHANGED <<loaded, next, timers, flags, lastExit, files, sent>>

\* A write that fails ends the tick with a traceback.
Raises ==
    /\ beat.pc \in {"tick", "reads"}
    /\ Leave("bad")
    /\ UNCHANGED <<loaded, next, timers, flags, lastExit, files, sent>>

\* finish: touch the flag, kill the timer, remove the flag, exit.
TouchFlag ==
    /\ beat.pc = "exit"
    /\ flags' = flags \cup {beat.pid}
    /\ Goto("flagged")
    /\ UNCHANGED <<loaded, next, timers, lastExit, files, sent>>

StopTimer ==
    /\ beat.pc = "flagged"
    /\ timers' = {t \in timers : t.pid # beat.pid}
    /\ Goto("unflag")
    /\ UNCHANGED <<loaded, next, flags, lastExit, files, sent>>

Finish ==
    /\ beat.pc = "unflag"
    /\ flags' = flags \ {beat.pid}
    /\ beat' = NoBeat /\ lastExit' = beat.code
    /\ UNCHANGED <<loaded, next, timers, files, sent>>

\* The outer timer wakes: nothing if its pid has a done flag or is gone,
\* otherwise SIGKILL to the group of that pid.
TimerWakes ==
    \E t \in timers :
        /\ t.age = Wall
        /\ timers' = timers \ {t}
        /\ IF t.pid \notin flags /\ Alive /\ beat.pid = t.pid
             THEN Killed
             ELSE UNCHANGED <<beat, lastExit>>
        /\ UNCHANGED <<loaded, next, flags, files, sent>>

-----------------------------------------------------------------------------
(* The reaper: one look.  launchctl print of a job that is not loaded, or  *)
(* is under another label, fails, and the run ends there; a look that      *)
(* fails otherwise does not count as one (Sight).                          *)

\* (mutant) An idle job leaves the note of the last one behind.
IdleKeepsTheNote ==
    /\ Shown /\ ~Alive
    /\ looked' = 0
    /\ UNCHANGED <<loaded, gland, seen, stamp, panel, sent>>

ReaperIdle ==
    /\ Shown /\ ~Alive
    /\ seen' = NotSeen /\ looked' = 0
    /\ UNCHANGED <<loaded, gland, stamp, panel, sent>>

ReaperUnloaded ==
    /\ ~Shown
    /\ looked' = 0
    /\ UNCHANGED <<loaded, gland, seen, stamp, panel, sent>>

\* (mutant) Every look starts the clock again.
EveryLookIsTheFirst ==
    /\ Shown /\ Alive
    /\ stamp' = 0 /\ looked' = 0
    /\ seen' = [pid |-> beat.pid, age |-> 0]
    /\ UNCHANGED <<loaded, gland, panel, sent>>

\* (mutant) A stall noted by the timer's stamp only.
ReaperDoesNotStamp ==
    /\ Shown /\ Alive
    /\ looked' = 0
    /\ \/ /\ seen.pid # beat.pid
          /\ seen' = [pid |-> beat.pid, age |-> 0]
          /\ UNCHANGED <<beat, lastExit>>
       \/ /\ seen.pid = beat.pid /\ seen.age < Wall
          /\ UNCHANGED <<seen, beat, lastExit>>
       \/ /\ seen.pid = beat.pid /\ seen.age >= Wall
          /\ seen' = NotSeen
          /\ Killed
    /\ UNCHANGED <<loaded, next, timers, flags, stamp, panel, sent>>

ReaperSees ==
    /\ Shown /\ Alive
    /\ stamp' = 0 /\ looked' = 0
    /\ \/ /\ seen.pid # beat.pid
          /\ seen' = [pid |-> beat.pid, age |-> 0]
          /\ UNCHANGED <<beat, lastExit>>
       \/ /\ seen.pid = beat.pid /\ seen.age < Wall
          /\ UNCHANGED <<seen, beat, lastExit>>
       \/ /\ seen.pid = beat.pid /\ seen.age >= Wall
          /\ seen' = NotSeen
          /\ Killed
    /\ UNCHANGED <<loaded, next, timers, flags, panel, sent>>

-----------------------------------------------------------------------------
(* The sentinel.  Its clock is read once, at import (NOW): lag is how long *)
(* ago that was, and every age it computes is against it.                  *)

\* (mutant) A late panel is put down to a beat that dies before it publishes.
LateIsALag(content, late, isLoaded, code, beatAge) ==
    CASE content = "absent" ->
             IF isLoaded /\ code # "bad" THEN "GLAND_STARTING" ELSE "GLAND_DOWN"
      [] content = "garbage" -> "GLAND_DOWN"
      [] content = "storm" -> "HORMONE_STORM"
      [] content = "levels" /\ late -> "STEP_LAG"
      [] OTHER -> "HEALTHY"

\* diagnose(panel, age, gland_loaded, gland_last_exit, beat_age), where late is
\* age > STALE_SEC.  The age of a file written after NOW is negative; NoStamp
\* stands for None.
NoStamp == -1
Diagnose(content, late, isLoaded, code, beatAge) ==
    CASE content = "absent" ->
             IF isLoaded /\ code # "bad" THEN "GLAND_STARTING" ELSE "GLAND_DOWN"
      [] content = "garbage" \/ (late /\ beatAge \notin 0 .. Stale) -> "GLAND_DOWN"
      [] content = "storm" -> "HORMONE_STORM"
      [] content = "levels" /\ late /\ beatAge \in 0 .. Stale -> "STEP_LAG"
      [] OTHER -> "HEALTHY"

\* A run starts, or the --check that confirms it: NOW, then the panel.
SentinelReads ==
    /\ sent.pc \in {"idle", "again"}
    /\ sent' = [sent EXCEPT !.pc = "read", !.lag = 0, !.content = panel.content,
                            !.late = panel.age > Stale]
    /\ UNCHANGED <<loaded, gland, files>>

\* gland_status, which may fail, and read_beat_age: later than the panel.
SentinelJudges ==
    /\ sent.pc = "read"
    /\ \E status \in {<<Shown, lastExit>>, <<FALSE, "none">>} :
         LET state == Diagnose(sent.content, sent.late, status[1], status[2],
                               stamp - sent.lag)
         IN  sent' = IF ~sent.recheck /\ state \in Pageable
                       THEN [sent EXCEPT !.pc = "confirm", !.state = state]
                     ELSE IF sent.recheck /\ state = sent.state
                       THEN [sent EXCEPT !.pc = "page"]
                     ELSE NotRunning
    /\ UNCHANGED <<loaded, gland, files>>

\* alert-confirm.sh is there: it runs --check again, a process of its own.
ConfirmByLib ==
    /\ sent.pc = "confirm"
    /\ sent' = [sent EXCEPT !.pc = "again", !.lag = 0, !.recheck = TRUE]
    /\ UNCHANGED <<loaded, gland, files>>

\* It is not: one more read, against the same NOW and without job or stamp.
ConfirmInProcess ==
    /\ sent.pc = "confirm"
    /\ LET state == Diagnose(panel.content, panel.age - sent.lag > Stale,
                             FALSE, "none", NoStamp)
       IN  sent' = IF state = sent.state THEN [sent EXCEPT !.pc = "page"] ELSE NotRunning
    /\ UNCHANGED <<loaded, gland, files>>

\* Force Flow is told, unless the cooldown says otherwise.
SentinelPages ==
    /\ sent.pc = "page"
    /\ sent' = NotRunning
    /\ UNCHANGED <<loaded, gland, files>>

-----------------------------------------------------------------------------
(* Time.                                                                   *)

Tick ==
    /\ looked < Sight
    /\ \A t \in timers : t.age < Wall
    /\ loaded => next < BeatEvery
    /\ sent.pc # "idle" => sent.lag < ProbeMax
    /\ next' = IF loaded THEN next + 1 ELSE Older(next)
    /\ beat' = [beat EXCEPT !.age = IF Alive THEN Older(@) ELSE @,
                            !.alarm = IF beat.pc \in Bounded /\ @ < Deadline
                                        THEN @ + 1 ELSE @]
    /\ timers' = {[t EXCEPT !.age = @ + 1] : t \in timers}
    /\ seen' = [seen EXCEPT !.age = IF seen # NotSeen /\ @ < Wall THEN @ + 1 ELSE @]
    /\ looked' = looked + 1
    /\ stamp' = Older(stamp)
    /\ panel' = [panel EXCEPT !.age = Older(@)]
    /\ sent' = [sent EXCEPT !.lag = IF sent.pc = "idle" THEN @ ELSE @ + 1]
    /\ UNCHANGED <<loaded, flags, lastExit>>

Launchd == Load \/ Unload \/ Interval
Beat == \/ Arm \/ NoteBeat \/ Start \/ EnterTick \/ Republish \/ Publish
        \/ Broadcast \/ Alarm \/ Raises \/ TouchFlag \/ StopTimer \/ Finish
Reaper == ReaperIdle \/ ReaperUnloaded \/ ReaperSees
Sentinel == \/ SentinelReads \/ SentinelJudges
            \/ ConfirmByLib \/ ConfirmInProcess \/ SentinelPages
Next == Launchd \/ Beat \/ TimerWakes \/ Reaper \/ Sentinel \/ Tick

Spec == Init /\ [][Next]_vars

\* launchd keeps its jobs' schedules and kernel timers fire; a beat need not
\* take a step.  What the sentinel runs carries timeouts.
Fairness ==
    /\ WF_vars(Tick) /\ WF_vars(Interval) /\ WF_vars(TimerWakes) /\ WF_vars(Reaper)
    /\ WF_vars(sent.pc # "idle" /\ Sentinel)
LiveSpec == Spec /\ Fairness

-----------------------------------------------------------------------------
(* Properties.                                                             *)

\* Types.
TypeOK ==
    /\ loaded \in BOOLEAN
    /\ next \in IF loaded THEN 0 .. BeatEvery ELSE Age
    /\ beat \in Beats
    /\ timers \subseteq [pid : Pids, age : 0 .. Wall]
    /\ flags \subseteq Pids
    /\ lastExit \in Exit
    /\ seen \in [pid : Pids \cup {NoPid}, age : 0 .. Wall] /\ looked \in 0 .. Sight
    /\ stamp \in Age
    /\ panel \in [content : Content, age : Age]
    /\ sent \in Runs

\* The slot is free when launchd's interval fires: wherever a beat hangs,
\* before its timer is forked or with a done flag left behind for its pid,
\* it costs the house that one beat (endocrine-tick.sh, endocrine-tick-reaper.sh).
NoBeatIsSkipped == loaded /\ next = BeatEvery => ~Alive

\* Neither deadline kills a beat before the wall: not by a timer that has
\* outlived its own beat, nor by the reaper's note of an earlier beat, when
\* the kernel has given the pid out again.
KillsAreDue ==
    [][Alive /\ ~Alive' /\ loaded' /\ beat.pc # "unflag" => beat.age >= Wall]_vars

\* A loop that launchd keeps starting stamps beat-seen, wherever its beats
\* hang: one look of the reaper into a beat, the stamp is that beat's own.
StampKeepsUp == loaded /\ (Alive => beat.age > Sight) => stamp <= next

\* Once the job has been booted out for STALE_SEC, no run of the sentinel ends
\* at its first verdict: it goes on to confirm.
StoppedLoopIsNoticed ==
    [][sent.pc = "read" /\ ~sent.recheck /\ sent'.pc = "idle"
         => loaded \/ next <= Stale + ProbeMax]_vars

\* While the job is loaded beats keep starting, whatever becomes of them.
BeatsGoOn == loaded ~> ~loaded \/ (beat.pc = "spawned" /\ beat.age = 0)

\* "A fresh beat-seen means launchd is still spawning beats": a panel that is
\* late while beat-seen is not older than STALE_SEC is not judged GLAND_DOWN.
FreshBeatIsNotDown ==
    [][sent.pc = "read" /\ sent'.pc = "confirm" /\ sent.content \in Readable
         /\ stamp <= Stale => sent'.state # "GLAND_DOWN"]_vars

=============================================================================
