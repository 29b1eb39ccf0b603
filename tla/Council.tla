------------------------------ MODULE Council ------------------------------
(* sanctum brainstorm: seats asked in parallel across lanes and one at a time *)
(* on the box, each through its retries and the flagged fallback; who really  *)
(* answered; the serial re-polls and the verdict. (commands/brainstorm.py)    *)
(*                                                                            *)
(* A model stands for its proxyd entry.  A seat's budget is ample while a     *)
(* retry is worth starting, scant until it is spent, then gone.               *)
EXTENDS Naturals, FiniteSets

CONSTANTS Seats, Fallback,   \* the seats' models; FALLBACK_MODEL
          OnBox,             \* models of the on-box lanes, which share one lock
          Family, Foreign,   \* the family designed for each model; one of no seat here
          Shared,            \* families a seat's weights are also reported as
          MaxRounds          \* --repoll (bound)

Models == Seats \cup {Fallback}

ASSUME CouncilAssumption ==
    /\ "free" \notin Seats /\ Fallback \in OnBox /\ OnBox \subseteq Models /\ MaxRounds \in Nat
    /\ Shared \in [Models -> SUBSET {Family[m] : m \in Models}]
    /\ \A m \in Models : Family[m] \notin {"hosted", "unlisted", "silent", Foreign}
    /\ Foreign \notin {"hosted", "unlisted", "silent"}

VARIABLES points, attests, names,  \* the weights behind each entry; proxyd says who answered; bodies name them
          strict, concurrency,     \* no --allow-fallback; seats in flight, 0 unlimited
          healthy,                 \* what /health said to this round
          at, step, used, left,    \* where a seat is, its request, its retries spent, its budget
          lock, todo, results,     \* the on-box lock; seats of the round not asked; a result per seat
          round, verdict
world == <<points, attests, names, strict, concurrency>>
seat == <<at, step, used, left>>
councilVars == <<world, healthy, seat, lock, todo, results, round, verdict>>

\* A result, with the seat's own voice or without it.
Without(why) == [outcome |-> why, by |-> "nobody", weights |-> "nothing", family |-> "absent"]

CouncilInit ==
    /\ \/ points = Family /\ names \in BOOLEAN /\ concurrency \in {0, 1}
       \/ /\ points \in {[Family EXCEPT ![s] = w] : s \in Seats, w \in {"hosted", "unlisted", Foreign}}
          /\ names = TRUE /\ concurrency = 0
    /\ attests \in BOOLEAN /\ strict \in BOOLEAN /\ (strict => attests)  \* an older proxyd ignores it
    /\ healthy \in {Seats, {}}
    /\ at = [s \in Seats |-> "queued"] /\ step = [s \in Seats |-> "home"] /\ used = [s \in Seats |-> {}]
    /\ left = [s \in Seats |-> "ample"]
    /\ lock = "free" /\ todo = {} /\ results = [s \in Seats |-> Without("none")] /\ round = 0 /\ verdict = "open"

\* The fallback's request, after one that failed or after one that timed out.
Fallbacks == {"fallback", "late"}
Target(s) == IF step[s] \in Fallbacks THEN Fallback ELSE s
Asking == {s \in Seats : at[s] \in {"lane", "asking", "health", "fallback"}}
Less(l) == CASE l = "ample" -> {"ample", "scant", "gone"} [] l = "scant" -> {"scant", "gone"} [] OTHER -> {"gone"}

---------------------------------------------------------------------------
\* Whose voice it was.  told is the family the body names, "silent" if it names
\* no model, "hosted" or "unlisted" if it names one of no family the table knows;
\* by is the entry that answered, which proxyd tells or not.

Real(told) == told \notin {"hosted", "unlisted", "silent"}

\* (mutant) proxyd's word is enough
HeaderAlone(model, by, told) == IF by = model THEN "match" ELSE "diverted"

_attested_provenance(model, by, told) ==
    IF /\ by = model /\ ~(told = "hosted" /\ model \in OnBox)
       /\ Real(told) => told \in {Family[model]} \cup Shared[model]
    THEN "match" ELSE "diverted"

_provenance(model, by, told) ==
    CASE attests -> _attested_provenance(model, by, told)
      [] ~attests /\ told = "silent" -> IF model \in healthy THEN "unreported" ELSE "diverted"
      [] ~attests /\ told = Family[model] -> "match"
      [] ~attests /\ told = "unlisted" -> "unrecognized"
      [] ~attests /\ told \in Shared[model] -> IF model \in healthy THEN "ambiguous" ELSE "diverted"
      [] OTHER -> "diverted"

\* A stand-in of proxyd's or of the client's is kept as such.
_result(s, by, told) ==
    IF _provenance(Target(s), by, told) = "diverted" THEN Without("diverted")
    ELSE IF step[s] \in Fallbacks THEN Without("fallback")
    ELSE [outcome |-> "answered", by |-> by, weights |-> points[by], family |-> Family[s]]

\* What the body names: the weights behind the entry, its own under a name they
\* share or one the table lacks.
Named(by) == IF ~names THEN {"silent"}
             ELSE {points[by]} \cup (IF points[by] = Family[by] THEN Shared[by] \cup {"unlisted"} ELSE {})

---------------------------------------------------------------------------
\* The scheduler.

\* A seat takes a place, if there is one, then its lane's lock.
_one(s) ==
    /\ at[s] = "queued" /\ (concurrency > 0 => Cardinality(Asking) < concurrency)
    /\ at' = [at EXCEPT ![s] = "lane"]
    /\ UNCHANGED <<world, healthy, step, used, left, lock, todo, results, round, verdict>>

_lane(s) ==
    /\ at[s] = "lane" /\ (s \in OnBox => lock = "free")
    /\ lock' = IF s \in OnBox THEN s ELSE lock
    /\ at' = [at EXCEPT ![s] = "asking"] /\ step' = [step EXCEPT ![s] = "home"]
    /\ left' = [left EXCEPT ![s] = "ample"] /\ used' = [used EXCEPT ![s] = {}]
    /\ UNCHANGED <<world, healthy, todo, results, round, verdict>>

_rank(r) == CASE r.outcome = "answered" -> 3 [] r.outcome \in {"fallback", "diverted"} -> 2
              [] r.outcome = "truncated" -> 1 [] OTHER -> 0

_prefer(old, new) == IF _rank(new) >= _rank(old) THEN new ELSE old

\* (mutant) the lock taken for the fallback is not given back
FallbackKeepsLock(s, r) ==
    /\ results' = [results EXCEPT ![s] = _prefer(@, r)]
    /\ at' = [at EXCEPT ![s] = "done"] /\ lock' = IF lock = s /\ s \in OnBox THEN "free" ELSE lock
    /\ step' = [step EXCEPT ![s] = "home"] /\ used' = [used EXCEPT ![s] = {}] /\ left' = [left EXCEPT ![s] = "ample"]

\* A seat reports; what it held is given up.
Report(s, r) ==
    /\ results' = [results EXCEPT ![s] = _prefer(@, r)]
    /\ at' = [at EXCEPT ![s] = "done"] /\ lock' = IF lock = s THEN "free" ELSE lock
    /\ step' = [step EXCEPT ![s] = "home"] /\ used' = [used EXCEPT ![s] = {}] /\ left' = [left EXCEPT ![s] = "ample"]

---------------------------------------------------------------------------
\* One request and what comes after it.  why, of an attempt without an answer:
\* "truncated", "starved", "timeout", "dropped" (or never connected), "ladder" (a
\* ladder that tried the fallback too), "failed" (a status, an empty text, an error).

Ask(s, kind, l) == /\ step' = [step EXCEPT ![s] = kind] /\ used' = [used EXCEPT ![s] = {}]
                   /\ left' = [left EXCEPT ![s] = l] /\ at' = [at EXCEPT ![s] = "asking"]
                   /\ UNCHANGED <<lock, results>>

Wait(s, kind, l) == /\ at' = [at EXCEPT ![s] = "fallback"] /\ step' = [step EXCEPT ![s] = kind]
                    /\ left' = [left EXCEPT ![s] = l] /\ UNCHANGED <<used, lock, results>>

\* (mutant) the fallback is asked without a lock
AskedAtOnce(s, kind, l) == Ask(s, kind, l)

\* The fallback, which is on the box: its lock first, unless it is held already.
_fallback(s, kind, l) == IF s \in OnBox THEN Ask(s, kind, l) ELSE Wait(s, kind, l)

\* No answer: the same model again after a starvation, with more room after a
\* truncation off the box, then the fallback, then no voice: what its own model's
\* last request came to, whatever the fallback's did.
_ask(s, why, l) ==
    CASE why = "starved" /\ step[s] = "home" /\ l # "gone" -> Ask(s, "escalated", l)
      [] why = "truncated" /\ step[s] \in {"home", "escalated"} /\ s \notin OnBox /\ l = "ample" -> Ask(s, "longer", l)
      [] /\ why \in {"failed", "timeout"} \/ (why = "starved" /\ step[s] = "escalated")
         /\ step[s] \in {"home", "escalated"} /\ s # Fallback /\ l = "ample"
           -> _fallback(s, IF why = "timeout" THEN "late" ELSE "fallback", l)
      [] OTHER -> Report(s, Without(CASE step[s] = "longer" -> "truncated"
                                     [] step[s] = "late" -> "timeout"
                                     [] step[s] # "fallback" /\ why \in {"truncated", "timeout", "dropped"} -> why
                                     [] OTHER -> "failed"))

\* The budget went before the request or with it, or the request could not be
\* sent in time: the server may still work on it.
_timeout(s, l) ==
    /\ at[s] = "asking" /\ _ask(s, "timeout", l)
    /\ UNCHANGED <<world, healthy, todo, round, verdict>>

\* A complete text, from the entry asked or, without strictness or from a proxyd
\* that does not know it, from a rung of its ladder.
_answered(s, by, told) ==
    /\ at[s] = "asking" /\ left[s] # "gone" /\ (strict => by = Target(s))
    /\ Report(s, _result(s, by, told))
    /\ UNCHANGED <<world, healthy, todo, round, verdict>>

\* A status worth one retry (a strict seat's own 503 is not: it has failed), or
\* an empty text from a model known for them.
_again(s, why) ==
    /\ at[s] = "asking" /\ left[s] # "gone" /\ why \notin used[s]
    /\ why = "empty" => Family[Target(s)] = "codestral"
    /\ used' = [used EXCEPT ![s] = @ \cup {why}]
    /\ UNCHANGED <<world, healthy, at, step, left, lock, todo, results, round, verdict>>

_failed(s, why, l) ==
    /\ at[s] = "asking" /\ left[s] # "gone" /\ _ask(s, why, l)
    /\ UNCHANGED <<world, healthy, todo, round, verdict>>

\* The connection died: once, /health is waited for (not for a bad certificate).
_dropped(s) ==
    /\ at[s] = "asking" /\ left[s] # "gone"
    /\ IF "drop" \notin used[s]
         THEN /\ at' = [at EXCEPT ![s] = "health"] /\ used' = [used EXCEPT ![s] = @ \cup {"drop"}]
              /\ UNCHANGED <<step, left, lock, results>>
         ELSE _ask(s, "dropped", left[s])
    /\ UNCHANGED <<world, healthy, todo, round, verdict>>

\* It was down, or never reached, and came back: the request again, on a fresh
\* budget.  It answered at once: the server closed it.  It did not answer.
_await_health(s, answered, was_down, l) ==
    /\ at[s] = "health" /\ (answered \/ was_down)
    /\ IF answered /\ was_down
         THEN /\ at' = [at EXCEPT ![s] = "asking"] /\ left' = [left EXCEPT ![s] = "ample"]
              /\ UNCHANGED <<step, used, lock, results>>
         ELSE _ask(s, IF answered THEN "failed" ELSE "dropped", l)
    /\ UNCHANGED <<world, healthy, todo, round, verdict>>

\* The lock came, or the wait for it was cut short.
_fallback_lock(s) ==
    /\ at[s] = "fallback" /\ lock = "free" /\ lock' = s
    /\ at' = [at EXCEPT ![s] = "asking"] /\ used' = [used EXCEPT ![s] = {}]
    /\ UNCHANGED <<world, healthy, step, left, todo, results, round, verdict>>

_busy(s) ==
    /\ at[s] = "fallback" /\ lock # "free" /\ Report(s, Without(IF step[s] = "late" THEN "timeout" ELSE "failed"))
    /\ UNCHANGED <<world, healthy, todo, round, verdict>>

---------------------------------------------------------------------------
\* The rounds.

Pending == {s \in Seats : results[s].outcome # "answered"}
Quiet == \A s \in Seats : at[s] = "done"

\* A model that failed and is reported unhealthy is not asked again.
_repoll_plan(s, well) == results[s].outcome \in {"diverted", "fallback", "failed"} => s \in well

\* A timed-out seat whose budget is at the cap is left out as well.
_repoll(well, capped) ==
    /\ Quiet /\ todo = {} /\ verdict = "open" /\ round < MaxRounds /\ Pending # {}
    /\ \A s \in capped : s \in Pending /\ results[s].outcome = "timeout"
    /\ healthy' = well /\ todo' = {s \in Pending : _repoll_plan(s, well)} \ capped
    /\ round' = IF todo' = {} THEN MaxRounds ELSE round + 1
    /\ UNCHANGED <<world, seat, lock, results, verdict>>

\* One seat at a time, with a summon of its own.
_reask(s, well) ==
    /\ Quiet /\ s \in todo /\ todo' = todo \ {s} /\ healthy' = well
    /\ at' = [at EXCEPT ![s] = "queued"]
    /\ UNCHANGED <<world, step, used, left, lock, results, round, verdict>>

_assess_diversity == {results[s].family : s \in {t \in Seats : results[t].outcome = "answered"}}

\* The exit: a voice at all, then the floor, then every seat.
brainstorm_command(floor, requireAll) ==
    /\ Quiet /\ todo = {} /\ verdict = "open" /\ (round = MaxRounds \/ Pending = {})
    /\ verdict' = CASE Pending = Seats -> "no voice"
                    [] Pending # Seats /\ Cardinality(_assess_diversity) < floor -> "homogenized"
                    [] OTHER -> IF requireAll /\ Pending # {} THEN "missing" ELSE "convened"
    /\ UNCHANGED <<world, healthy, seat, lock, todo, results, round>>

Request(s) ==
    \/ _one(s) \/ _lane(s) \/ _dropped(s) \/ _fallback_lock(s) \/ _busy(s)
    \/ \E by \in Models : \E told \in Named(by) : _answered(s, by, told)
    \/ \E why \in {"transient", "empty"} : _again(s, why)
    \/ \E l \in Less(left[s]) :
         \/ _timeout(s, l)
         \/ \E why \in {"truncated", "starved", "failed", "ladder", "dropped"} : _failed(s, why, l)
         \/ \E a, d \in BOOLEAN : _await_health(s, a, d, l)

Chair ==
    \/ \E well \in {Seats, {}} :
         \/ \E capped \in SUBSET Seats : _repoll(well, capped)
         \/ \E s \in Seats : _reask(s, well)
    \/ \E floor \in 1..2, all \in BOOLEAN : brainstorm_command(floor, all)

CouncilNext == Chair \/ \E s \in Seats : Request(s)

---------------------------------------------------------------------------
CouncilTypeOK ==
    /\ at \in [Seats -> {"queued", "lane", "asking", "health", "fallback", "done"}]
    /\ step \in [Seats -> {"home", "escalated", "longer"} \cup Fallbacks]
    /\ left \in [Seats -> {"ample", "scant", "gone"}] /\ lock \in Seats \cup {"free"}
    /\ todo \subseteq Seats /\ round \in 0..MaxRounds

\* Where proxyd says who answered and bodies name their model, a seat counts as
\* answered only with its own entry's text, never with another known family's
\* weights behind it, nor on the box with hosted ones.
NoOtherFamilysVoice ==
    attests /\ names =>
        \A s \in Seats : results[s].outcome = "answered" =>
            /\ results[s].by = s
            /\ Real(results[s].weights) => results[s].weights \in {Family[s]} \cup Shared[s]
            /\ s \in OnBox => results[s].weights # "hosted"

\* ANSWERED is "the seat's own family, complete - the only real answer": the weights
\* behind a seat that counts are its own, whatever name they go by.
OwnVoiceIsOwn ==
    attests /\ names =>
        \A s \in Seats : results[s].outcome = "answered" =>
            results[s].weights \in {Family[s]} \cup Shared[s]

\* "the client never has two of its own requests in flight there", a remote
\* seat's fallback included.
OneOnBox == Cardinality({s \in Seats : at[s] \in {"asking", "health"} /\ Target(s) \in OnBox}) <= 1
=============================================================================
