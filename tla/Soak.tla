-------------------------------- MODULE Soak --------------------------------
(* sanctum soak, which records a module's health day by day into one file, and *)
(* the ship bar, which reads it twice among its six gates.                      *)
(* (soak/harness.py, ship_gates.py, commands/ship.py)                           *)
EXTENDS Naturals, Sequences

CONSTANTS Recorders,   \* soak commands: a loop, or a cron job's --once
          min_days,    \* the manifest's target
          MaxSamples, MaxDays  \* samples taken; days (bounds)

ASSUME SoakAssumption == min_days \in Nat /\ MaxSamples \in Nat /\ MaxDays \in Nat

\* A sample: a probe was red or a service had failed; memory pressure critical,
\* or back to normal.
Sample == [ts : 0..MaxDays, dirty : BOOLEAN, pressure : {"critical", "normal"}]
Untaken == [ts |-> 0, dirty |-> FALSE, pressure |-> "normal"]
NoResult == [started |-> 0, samples |-> <<>>, there |-> FALSE]

VARIABLES result,              \* the result file
          recAt, held, sample, \* a recorder: where it is, the result and the sample it holds
          today, kept,      \* the day; every sample ever written, in order
          gateAt, earlier, days, soaked, exit,  \* the ship bar: the gates met, the days it read, its exit
          counted              \* the samples written when it read them
shipVars == <<gateAt, earlier, days, soaked, exit, counted>>
recorderVars == <<recAt, held, sample>>
soakVars == <<result, recorderVars, today, kept, shipVars>>

SoakInit ==
    /\ result = NoResult /\ today = 0 /\ kept = <<>>
    /\ recAt = [r \in Recorders |-> "idle"] /\ held = [r \in Recorders |-> NoResult]
    /\ sample = [r \in Recorders |-> Untaken]
    /\ gateAt = "idle" /\ earlier = "green" /\ days = 0 /\ soaked = "red" /\ exit = "none" /\ counted = 0

\* The day passes at any moment.
Day == today < MaxDays /\ today' = today + 1 /\ UNCHANGED <<result, recorderVars, kept, shipVars>>

---------------------------------------------------------------------------
\* The recorder.  At its start it reads the file before it takes the sample,
\* and in its loop after it.

_load_or_init == IF result.there THEN result ELSE [started |-> today, samples |-> <<>>, there |-> TRUE]

run_soak(r) ==
    /\ recAt[r] = "idle" /\ recAt' = [recAt EXCEPT ![r] = "first"]
    /\ held' = [held EXCEPT ![r] = _load_or_init]
    /\ UNCHANGED <<result, sample, today, kept, shipVars>>

\* The time is taken before the probes are run; one that raises is red.
_collect_sample(r, dirty, pressure) ==
    /\ recAt[r] \in {"first", "again"} /\ Len(kept) < MaxSamples
    /\ sample' = [sample EXCEPT ![r] = [ts |-> today, dirty |-> dirty, pressure |-> pressure]]
    /\ recAt' = [recAt EXCEPT ![r] = IF recAt[r] = "first" THEN "write" ELSE "reload"]
    /\ UNCHANGED <<result, held, today, kept, shipVars>>

_reload(r) ==
    /\ recAt[r] = "reload" /\ recAt' = [recAt EXCEPT ![r] = "write"]
    /\ held' = [held EXCEPT ![r] = _load_or_init]
    /\ UNCHANGED <<result, sample, today, kept, shipVars>>

\* The whole result under a name of its own, then renamed.
_atomic_write(r, once) ==
    /\ recAt[r] = "write"
    /\ result' = [held[r] EXCEPT !.samples = Append(@, sample[r])]
    /\ kept' = Append(kept, sample[r])
    /\ recAt' = [recAt EXCEPT ![r] = IF once THEN "idle" ELSE "sleep"]
    /\ UNCHANGED <<held, sample, today, shipVars>>

_sleep(r) == /\ recAt[r] = "sleep" /\ recAt' = [recAt EXCEPT ![r] = "again"]
             /\ UNCHANGED <<result, held, sample, today, kept, shipVars>>

\* Ctrl-C, TERM, a reboot.
Interrupt(r) == /\ recAt[r] # "idle" /\ recAt' = [recAt EXCEPT ![r] = "idle"]
                /\ UNCHANGED <<result, held, sample, today, kept, shipVars>>

---------------------------------------------------------------------------
\* What a result says: the days from its start to its last sample, and whether
\* every sample is clean and every critical one has a later one that is not.

Last(samples) == samples[Len(samples)]
DaysOf(res) == IF res.samples = <<>> THEN 0 ELSE Last(res.samples).ts - res.started
Clean(res) == \A i \in 1..Len(res.samples) :
    /\ ~res.samples[i].dirty
    /\ res.samples[i].pressure = "critical" => \E j \in i + 1..Len(res.samples) : res.samples[j].pressure = "normal"

---------------------------------------------------------------------------
\* The ship bar.  A manifest is what its gates ask of it and find of it.
Manifests == [handler : BOOLEAN, secrets : BOOLEAN, services : {"none", "probed", "unprobed"},
              sink : BOOLEAN, pages : {"few", "many"}]

overall(statuses) == IF "red" \in statuses THEN "red" ELSE IF "amber" \in statuses THEN "amber" ELSE "green"

gate_install_uninstall(m) == IF m.handler THEN "green" ELSE "red"
\* No default is known, so no secret looks like one.
gate_secrets(m) == IF m.secrets THEN "green" ELSE "red"
\* Every heal action is taken for wired.
gate_self_heal(m) == CASE m.services = "unprobed" -> "red" [] m.services = "probed" -> "amber" [] OTHER -> "green"
gate_alert_hygiene(m) == IF ~m.sink THEN "red" ELSE IF m.pages = "many" THEN "amber" ELSE "green"
gate_docs_demo(docs, demo) == IF docs /\ demo THEN "green" ELSE IF docs \/ demo THEN "amber" ELSE "red"

\* The gates before the soak, and the soak's days; no result is a red soak.
evaluate(m) ==
    /\ gateAt = "idle"
    /\ earlier' = overall({gate_install_uninstall(m), gate_secrets(m), gate_self_heal(m), gate_alert_hygiene(m)})
    /\ days' = DaysOf(result) /\ counted' = Len(kept)
    /\ gateAt' = IF result.there THEN "clean" ELSE "docs"
    /\ soaked' = "red" /\ exit' = "none"
    /\ UNCHANGED <<result, recorderVars, today, kept>>

\* Whether it is clean is read from the file again, after the days.
gate_soak ==
    /\ gateAt = "clean" /\ gateAt' = "docs"
    /\ soaked' = IF ~Clean(result) THEN "red" ELSE IF days < min_days THEN "amber" ELSE "green"
    /\ UNCHANGED <<result, recorderVars, today, kept, earlier, days, exit, counted>>

Verdict(docs, demo) == overall({earlier, soaked', gate_docs_demo(docs, demo)})

\* (mutant) the days are read after the file was found clean
DaysReadLast(docs, demo, allow_amber) ==
    /\ gateAt = "docs" /\ gateAt' = "idle"
    /\ days' = DaysOf(result) /\ counted' = Len(kept)
    /\ soaked' = IF soaked = "red" THEN "red" ELSE IF days' < min_days THEN "amber" ELSE "green"
    /\ LET v == Verdict(docs, demo)
       IN exit' = IF v = "green" \/ (v = "amber" /\ allow_amber) THEN v ELSE "not ready"
    /\ UNCHANGED <<result, recorderVars, today, kept, earlier>>

\* The docs, the demo (which may run a while), the verdict and the exit code.
render(docs, demo, allow_amber) ==
    /\ gateAt = "docs" /\ gateAt' = "idle" /\ UNCHANGED soaked
    /\ LET v == Verdict(docs, demo)
       IN exit' = IF v = "green" \/ (v = "amber" /\ allow_amber) THEN v ELSE "not ready"
    /\ UNCHANGED <<result, recorderVars, today, kept, earlier, days, counted>>

SoakNext ==
    \/ Day \/ gate_soak
    \/ \E m \in Manifests : evaluate(m)
    \/ \E docs, demo, allow_amber \in BOOLEAN : render(docs, demo, allow_amber)
    \/ \E r \in Recorders :
         \/ run_soak(r) \/ _reload(r) \/ _sleep(r) \/ Interrupt(r)
         \/ \E dirty \in BOOLEAN, pressure \in {"critical", "normal"} : _collect_sample(r, dirty, pressure)
         \/ \E once \in BOOLEAN : _atomic_write(r, once)

---------------------------------------------------------------------------
\* "clean 7d soak": a module ships green only after min_days of which every
\* sample ever written, by a recorder that was stopped and started again at any
\* point, was clean or recovered from; whatever was written while the bar was
\* being read.  (With one recorder at a time.)
ShipsWhatSoaked ==
    [][exit' = "green" /\ exit # "green" =>
         /\ days' >= min_days
         /\ \A i \in 1..counted' :
              /\ ~kept[i].dirty
              /\ kept[i].pressure = "critical" => \E j \in i + 1..Len(kept) : kept[j].pressure = "normal"
       ]_soakVars
=============================================================================
