----------------------------- MODULE Toolchain -----------------------------
(* sanctum upgrade: a plan of what every manager says, applied one tool at a  *)
(* time and read back; sanctum update: the CLI alone, behind the self-test.   *)
(* (commands/{upgrade,update}.py)                                             *)
(*                                                                            *)
(* Versions are numbers, 0 for none.  Any call to a manager may fail, and     *)
(* other hands release, install and pin between two calls.                    *)
EXTENDS Naturals, Sequences

CONSTANTS BrewTools, NpmTools, PipTools,
          MaxVersion,   \* newest release (bound)
          MaxRounds     \* commands (bound)

ASSUME ToolAssumption == MaxVersion \in Nat \ {0} /\ MaxRounds \in Nat

Tools == BrewTools \cup NpmTools \cup PipTools
Calls == {"list", "latest", "pins", "npm ls", "npm view", "pip show", "pip index"}

VARIABLES have, newest, pinned,  \* the machine and the registries
          todo, results,         \* rows left to apply; what applying said
          gate, verdict, rounds
toolVars == <<have, newest, pinned, todo, results, gate, verdict, rounds>>

ToolInit ==
    /\ have \in [Tools -> {0, 1}] /\ newest = [t \in Tools |-> 1] /\ pinned = {}
    /\ todo = {} /\ results = {} /\ gate = FALSE /\ verdict = "nothing" /\ rounds = 0

Row(t, state, cur, new) == [tool |-> t, state |-> state, installed |-> cur, latest |-> new]

\* What brew says: a listing that failed shows nothing installed, an outdated
\* list that failed nothing outdated, a pin list that failed no pins.
brew_state(t, mute) ==
    CASE "list" \in mute /\ ("latest" \in mute \/ have[t] = newest[t]) -> Row(t, "absent", 0, 0)
      [] have[t] = 0 -> Row(t, "absent", 0, 0)
      [] have[t] # 0 /\ t \in pinned /\ "pins" \notin mute -> Row(t, "hold", have[t], newest[t])
      [] OTHER -> IF "latest" \notin mute /\ have[t] # newest[t]
                    THEN Row(t, "upgrade", have[t], newest[t]) ELSE Row(t, "ok", have[t], have[t])

npm_state(t, mute) ==
    CASE have[t] = 0 \/ "npm ls" \in mute -> Row(t, "absent", 0, 0)
      [] have[t] # 0 /\ "npm ls" \notin mute /\ "npm view" \in mute -> Row(t, "unknown", have[t], 0)
      [] OTHER -> Row(t, IF have[t] = newest[t] THEN "ok" ELSE "upgrade", have[t], newest[t])

pip_venv_state(t, mute) ==
    CASE have[t] = 0 \/ "pip show" \in mute -> Row(t, "absent", 0, 0)
      [] have[t] # 0 /\ "pip show" \notin mute /\ "pip index" \in mute -> Row(t, "ok", have[t], have[t])
      [] OTHER -> Row(t, IF have[t] = newest[t] THEN "ok" ELSE "upgrade", have[t], newest[t])

build_plan(only, mute) ==
    {brew_state(t, mute) : t \in only \cap BrewTools}
      \cup {npm_state(t, mute) : t \in only \cap NpmTools}
      \cup {pip_venv_state(t, mute) : t \in only \cap PipTools}

\* (mutant) a row that only has a newer version is taken, held or not
HeldTaken(apply, only, mute) ==
    /\ rounds < MaxRounds /\ rounds' = rounds + 1 /\ todo = {} /\ results' = {}
    /\ LET rows == {r \in build_plan(only, mute) : r.latest > r.installed}
       IN /\ verdict' = IF rows = {} THEN "current" ELSE IF apply THEN "applying" ELSE "available"
          /\ todo' = IF apply THEN rows ELSE {}
    /\ gate' = FALSE
    /\ UNCHANGED <<have, newest, pinned>>

\* The plan; without --apply, or with nothing to take, that is all.
upgrade_command(apply, only, mute) ==
    /\ rounds < MaxRounds /\ rounds' = rounds + 1 /\ todo = {} /\ results' = {}
    /\ LET rows == {r \in build_plan(only, mute) : r.state = "upgrade"}
       IN /\ verdict' = IF rows = {} THEN "current" ELSE IF apply THEN "applying" ELSE "available"
          /\ todo' = IF apply THEN rows ELSE {}
    /\ gate' = FALSE
    /\ UNCHANGED <<have, newest, pinned>>

\* A pinned formula is brew's to refuse.  A command that fails, or runs out of
\* time, may have installed all the same.
upgrade_command_for(row, worked) == worked /\ row.tool \notin pinned
Installs(row, moved) == IF row.tool \in pinned THEN have[row.tool] ELSE moved

\* (mutant) what was asked for is reported as what is there
ReportedAsAsked(row, worked, moved, read, post) ==
    /\ row \in todo /\ todo' = todo \ {row}
    /\ LET ran == upgrade_command_for(row, worked)
       IN /\ have' = [have EXCEPT ![row.tool] = Installs(row, moved)]
          /\ results' = results \cup {[tool |-> row.tool, ok |-> ran /\ post, now |-> row.latest]}
    /\ UNCHANGED <<newest, pinned, gate, verdict, rounds>>

\* One row: the command, the version read back (0 when it could not be), the
\* tool's own check.  A command that worked may have moved nothing, or past
\* what the plan had seen; after one that failed the plan's version is reported.
apply_row(row, worked, moved, read, post) ==
    /\ row \in todo /\ todo' = todo \ {row}
    /\ LET ran == upgrade_command_for(row, worked)
           there == Installs(row, moved)
           now == IF ~ran THEN row.installed ELSE IF read THEN there ELSE 0
           stuck == now = row.installed /\ now # row.latest
       IN /\ have' = [have EXCEPT ![row.tool] = there]
          /\ results' = results \cup {[tool |-> row.tool, ok |-> ran /\ ~stuck /\ post, now |-> now]}
    /\ UNCHANGED <<newest, pinned, gate, verdict, rounds>>

\* Every row done: the self-test is the gate, unless it was skipped.
_gate(ok, skip) ==
    /\ todo = {} /\ verdict = "applying" /\ gate' = (ok \/ skip)
    /\ verdict' = IF (ok \/ skip) /\ \A r \in results : r.ok THEN "done" ELSE "failed"
    /\ UNCHANGED <<have, newest, pinned, todo, results, rounds>>

\* sanctum update.
update_command(t, updated, upgraded, selfTest, skip) ==
    /\ rounds < MaxRounds /\ rounds' = rounds + 1 /\ todo = {} /\ results' = {}
    /\ have' = IF updated /\ upgraded /\ t \notin pinned THEN [have EXCEPT ![t] = newest[t]] ELSE have
    /\ gate' = (updated /\ upgraded /\ (selfTest \/ skip))
    /\ verdict' = IF gate' THEN "updated" ELSE "failed"
    /\ UNCHANGED <<newest, pinned, todo>>

\* Other hands.
Release(t) == /\ newest[t] < MaxVersion /\ newest' = [newest EXCEPT ![t] = @ + 1]
              /\ verdict' = IF verdict = "current" THEN "stale" ELSE verdict
              /\ UNCHANGED <<have, pinned, todo, results, gate, rounds>>
Pin(t) == /\ pinned' = pinned \cup {t}
          /\ UNCHANGED <<have, newest, todo, results, gate, verdict, rounds>>

ToolNext ==
    \/ \E a \in BOOLEAN, only \in {Tools, BrewTools}, m \in {{}, Calls} \cup {{c} : c \in Calls} :
         upgrade_command(a, only, m)
    \/ \E row \in todo, w, r, p \in BOOLEAN :
         \E v \in have[row.tool]..newest[row.tool] : apply_row(row, w, v, r, p)
    \/ \E ok, skip \in BOOLEAN : _gate(ok, skip)
    \/ \E t \in BrewTools, u, g, s, k \in BOOLEAN : update_command(t, u, g, s, k)
    \/ \E t \in Tools : Release(t)
    \/ \E t \in BrewTools : Pin(t)

---------------------------------------------------------------------------
ToolTypeOK ==
    /\ have \in [Tools -> 0..MaxVersion] /\ newest \in [Tools -> 1..MaxVersion]
    /\ pinned \subseteq BrewTools /\ \A r \in todo : r.tool \in Tools /\ r.state = "upgrade"
    /\ verdict \in {"nothing", "current", "stale", "applying", "available", "done", "failed", "updated"}

\* A row reported as taken shows the version that is there, and has moved, though
\* the manager exited 0 having done nothing; what could not be read is left blank.
\* A row that failed shows what is there, what the plan had seen, or nothing.
OkIsReRead ==
    [][\A r \in results' \ results, row \in todo \ todo' : row.tool = r.tool =>
          /\ r.now \in {0, have'[r.tool]} \cup (IF r.ok THEN {} ELSE {row.installed})
          /\ r.ok => r.now # row.installed]_toolVars

\* "the number in the now column is re-read from the machine, never assumed"
\* (upgrade): a version that is shown is there.
NowIsReRead == [][\A r \in results' \ results : r.now # 0 => r.now = have'[r.tool]]_toolVars

\* "0 when the toolchain is current": nothing installed is behind.
CurrentIsCurrent ==
    verdict = "current" => \A t \in Tools \ pinned : have[t] \in {0, newest[t]}
=============================================================================
