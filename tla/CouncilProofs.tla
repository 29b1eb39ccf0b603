---------------------------- MODULE CouncilProofs ----------------------------
(* The theorems of the council.  Council: the box serves one request of ours  *)
(* at a time, and no seat answers in another known family's voice; for any    *)
(* seats, on the box or off it, any fallback and any number of re-polls.      *)
(* Chamber: every tool result is audited, and a failing tool ends its turn.   *)
EXTENDS Council, Chamber, FiniteSetTheorems, TLAPS

---------------------------------------------------------------------------
\* Council: seats, lanes and the box.

CouncilSpec == CouncilInit /\ [][CouncilNext]_councilVars

\* Whoever has a request on the box holds the lock, the seats at home there and
\* the remote ones at their fallback alike.
LockHeld ==
    \A s \in Seats : at[s] \in {"asking", "health"} /\ (s \in OnBox \/ step[s] \in Fallbacks) => lock = s

\* A seat on the box never waits for a lock it has.
FallbackWaitsOffBox == \A s \in Seats : at[s] = "fallback" => s \notin OnBox

VoicesKept == NoOtherFamilysVoice /\ DOMAIN results = Seats

CouncilInv == CouncilTypeOK /\ LockHeld /\ FallbackWaitsOffBox

---------------------------------------------------------------------------
\* What a request without an answer leads to: another one under what its seat
\* holds, the wait for the fallback's lock, or a report.
LEMMA AskLeadsTo ==
  ASSUME NEW s, NEW why, NEW l, _ask(s, why, l)
  PROVE  \/ \E k \in {"escalated", "longer"} : Ask(s, k, l)
         \/ s \in OnBox /\ \E k \in Fallbacks : Ask(s, k, l)
         \/ s \notin OnBox /\ \E k \in Fallbacks : Wait(s, k, l)
         \/ \E r : Report(s, r)
  BY DEF _ask, _fallback, Fallbacks

LEMMA ReportKeeps ==
  ASSUME CouncilInv, NEW s \in Seats, NEW r, Report(s, r), UNCHANGED <<todo, round>>
  PROVE  CouncilInv'
  BY CouncilAssumption DEF CouncilInv, CouncilTypeOK, LockHeld, FallbackWaitsOffBox, Fallbacks, Report

LEMMA AskKeeps ==
  ASSUME CouncilInv, NEW s \in Seats, at[s] \in {"asking", "health"}, NEW why,
         NEW l \in {"ample", "scant", "gone"}, _ask(s, why, l), UNCHANGED <<todo, round>>
  PROVE  CouncilInv'
<1> USE DEF CouncilInv, CouncilTypeOK, LockHeld, FallbackWaitsOffBox, Fallbacks
<1>1. ASSUME NEW k \in {"escalated", "longer"}, Ask(s, k, l) PROVE CouncilInv'
  BY <1>1 DEF Ask
<1>2. CASE s \in OnBox /\ \E k \in Fallbacks : Ask(s, k, l)
  BY <1>2 DEF Ask
<1>3. CASE s \notin OnBox /\ \E k \in Fallbacks : Wait(s, k, l)
  BY <1>3 DEF Wait
<1>4. ASSUME NEW r, Report(s, r) PROVE CouncilInv'
  BY <1>4, ReportKeeps
<1> QED BY <1>1, <1>2, <1>3, <1>4, AskLeadsTo

LEMMA LessIsBudget ==
  ASSUME NEW l \in {"ample", "scant", "gone"} PROVE Less(l) \subseteq {"ample", "scant", "gone"}
  BY DEF Less

LEMMA RequestKeeps ==
  ASSUME CouncilInv, NEW s \in Seats, Request(s)
  PROVE  CouncilInv'
<1> USE DEF CouncilInv, CouncilTypeOK, LockHeld, FallbackWaitsOffBox, Fallbacks
<1>1. CASE _one(s)
  BY <1>1 DEF _one
<1>2. CASE _lane(s)
  BY <1>2, CouncilAssumption DEF _lane
<1>3. CASE _dropped(s)
  <2>1. CASE "drop" \notin used[s]
    BY <1>3, <2>1 DEF _dropped
  <2>2. CASE "drop" \in used[s]
    BY <1>3, <2>2, AskKeeps DEF _dropped
  <2> QED BY <2>1, <2>2
<1>4. CASE _fallback_lock(s)
  BY <1>4, CouncilAssumption DEF _fallback_lock
<1>5. CASE _busy(s)
  BY <1>5, ReportKeeps DEF _busy
<1>6. ASSUME NEW by, NEW told, _answered(s, by, told) PROVE CouncilInv'
  BY <1>6, ReportKeeps DEF _answered
<1>7. ASSUME NEW why, _again(s, why) PROVE CouncilInv'
  BY <1>7 DEF _again
<1>8. ASSUME NEW l \in Less(left[s]), _timeout(s, l) PROVE CouncilInv'
  BY <1>8, AskKeeps, LessIsBudget DEF _timeout
<1>9. ASSUME NEW l \in Less(left[s]), NEW why, _failed(s, why, l) PROVE CouncilInv'
  BY <1>9, AskKeeps, LessIsBudget DEF _failed
<1>10. ASSUME NEW l \in Less(left[s]), NEW a \in BOOLEAN, NEW d \in BOOLEAN, _await_health(s, a, d, l)
       PROVE CouncilInv'
  <2>1. CASE a /\ d
    BY <1>10, <2>1 DEF _await_health
  <2>2. CASE ~(a /\ d)
    BY <1>10, <2>2, AskKeeps, LessIsBudget DEF _await_health
  <2> QED BY <2>1, <2>2
<1> QED BY <1>1, <1>2, <1>3, <1>4, <1>5, <1>6, <1>7, <1>8, <1>9, <1>10 DEF Request

LEMMA ChairKeeps ==
  ASSUME CouncilInv, Chair
  PROVE  CouncilInv'
<1> USE DEF CouncilInv, CouncilTypeOK, LockHeld, FallbackWaitsOffBox, Fallbacks
<1>1. ASSUME NEW well, NEW capped, _repoll(well, capped) PROVE CouncilInv'
  BY <1>1, CouncilAssumption DEF _repoll, seat, Pending
<1>2. ASSUME NEW well, NEW s \in Seats, _reask(s, well) PROVE CouncilInv'
  BY <1>2 DEF _reask
<1>3. ASSUME NEW floor, NEW all, brainstorm_command(floor, all) PROVE CouncilInv'
  BY <1>3 DEF brainstorm_command, seat
<1> QED BY <1>1, <1>2, <1>3 DEF Chair

LEMMA CouncilInitial == CouncilInit => CouncilInv
  BY CouncilAssumption DEF CouncilInit, CouncilInv, CouncilTypeOK, LockHeld, FallbackWaitsOffBox

LEMMA CouncilStep == CouncilInv /\ [CouncilNext]_councilVars => CouncilInv'
<1>1. CouncilInv /\ UNCHANGED councilVars => CouncilInv'
  BY DEF councilVars, seat, CouncilInv, CouncilTypeOK, LockHeld, FallbackWaitsOffBox
<1> QED BY <1>1, RequestKeeps, ChairKeeps DEF CouncilNext

\* Types: where every seat is, its request, its budget, the lock and the rounds.
\* (commands/brainstorm.py)
THEOREM CouncilTypes == CouncilSpec => []CouncilTypeOK
<1>1. CouncilInv => CouncilTypeOK
  BY DEF CouncilInv
<1> QED BY CouncilInitial, CouncilStep, <1>1, PTL DEF CouncilSpec

\* The client never has two requests of its own on the box, whichever seats are
\* at home there and whoever falls back to it. (_lane, _fallback, their lock)
THEOREM BoxServesOne == CouncilSpec => []OneOnBox
<1>1. CouncilInv => OneOnBox
  <2> SUFFICES ASSUME CouncilInv PROVE OneOnBox
    OBVIOUS
  <2> DEFINE S == {s \in Seats : at[s] \in {"asking", "health"} /\ Target(s) \in OnBox}
  <2>1. S \subseteq {lock}
    BY DEF CouncilInv, LockHeld, Target
  <2>2. S = {} \/ S = {lock}
    BY <2>1
  <2>3. Cardinality({}) = 0 /\ Cardinality({lock}) = 1
    BY FS_EmptySet, FS_Singleton
  <2> QED BY <2>2, <2>3 DEF OneOnBox
<1> QED BY CouncilInitial, CouncilStep, <1>1, PTL DEF CouncilSpec

---------------------------------------------------------------------------
\* A result with a voice comes from the entry that was asked, at home, with
\* weights the body's name vouches for.
LEMMA ResultIsOwn ==
  ASSUME attests, names, NEW s \in Seats, NEW by \in Models, NEW told \in Named(by),
         _result(s, by, told).outcome = "answered"
  PROVE  /\ _result(s, by, told).by = s
         /\ Real(_result(s, by, told).weights) => _result(s, by, told).weights \in {Family[s]} \cup Shared[s]
         /\ s \in OnBox => _result(s, by, told).weights # "hosted"
<1>1. _provenance(Target(s), by, told) # "diverted" /\ step[s] \notin Fallbacks
  BY DEF _result, Without
<1>2. _result(s, by, told) = [outcome |-> "answered", by |-> by, weights |-> points[by], family |-> Family[s]]
  BY <1>1 DEF _result
<1>3. _attested_provenance(s, by, told) = "match"
  BY <1>1 DEF Target, _provenance, _attested_provenance
<1>4. /\ by = s /\ ~(told = "hosted" /\ s \in OnBox)
      /\ Real(told) => told \in {Family[s]} \cup Shared[s]
  BY <1>3 DEF _attested_provenance
<1>5. CASE told = points[s]
  BY <1>2, <1>4, <1>5
<1>6. CASE told # points[s]
  <2>1. points[s] = Family[s] /\ Family[s] # "hosted"
    BY <1>4, <1>6, CouncilAssumption DEF Named, Models
  <2> QED BY <1>2, <1>4, <2>1
<1> QED BY <1>5, <1>6

LEMMA ReportVoices ==
  ASSUME VoicesKept, UNCHANGED world, NEW s \in Seats, NEW r, Report(s, r),
         attests /\ names /\ r.outcome = "answered" =>
            /\ r.by = s /\ (Real(r.weights) => r.weights \in {Family[s]} \cup Shared[s])
            /\ (s \in OnBox => r.weights # "hosted")
  PROVE  VoicesKept'
<1>1. results' = [results EXCEPT ![s] = IF _rank(r) >= _rank(results[s]) THEN r ELSE results[s]]
  BY DEF Report, _prefer
<1>2. results'[s] \in {r, results[s]} /\ \A t \in Seats \ {s} : results'[t] = results[t]
  BY <1>1 DEF VoicesKept
<1>3. DOMAIN results' = Seats
  BY <1>1 DEF VoicesKept
<1> QED BY <1>2, <1>3 DEF VoicesKept, NoOtherFamilysVoice, world, Real

\* A report without a voice.
LEMMA SilentReport ==
  ASSUME VoicesKept, UNCHANGED world, NEW s \in Seats, NEW why, why # "answered", Report(s, Without(why))
  PROVE  VoicesKept'
<1>1. Without(why).outcome # "answered"
  BY DEF Without
<1> QED BY <1>1, ReportVoices

LEMMA AskVoices ==
  ASSUME VoicesKept, UNCHANGED world, NEW s \in Seats, NEW why, NEW l, _ask(s, why, l)
  PROVE  VoicesKept'
<1>1. CASE UNCHANGED results
  BY <1>1 DEF VoicesKept, NoOtherFamilysVoice, world, Real
<1>2. ASSUME NEW w \in {"truncated", "timeout", "dropped", "failed"}, Report(s, Without(w)) PROVE VoicesKept'
  BY <1>2, SilentReport
<1>3. UNCHANGED results \/ \E w \in {"truncated", "timeout", "dropped", "failed"} : Report(s, Without(w))
  BY DEF _ask, _fallback, Ask, Wait
<1> QED BY <1>1, <1>2, <1>3

LEMMA VoicesStep == VoicesKept /\ [CouncilNext]_councilVars => VoicesKept'
<1> SUFFICES ASSUME VoicesKept, [CouncilNext]_councilVars PROVE VoicesKept'
  OBVIOUS
<1>1. CASE UNCHANGED <<world, results>>
  BY <1>1 DEF VoicesKept, NoOtherFamilysVoice, world, Real
<1>2. ASSUME NEW s \in Seats, Request(s) PROVE VoicesKept'
  <2>1. UNCHANGED world
    BY <1>2 DEF Request, _one, _lane, _dropped, _fallback_lock, _busy, _answered, _again, _timeout, _failed, _await_health
  <2>2. ASSUME NEW by \in Models, NEW told \in Named(by), _answered(s, by, told) PROVE VoicesKept'
    <3>1. Report(s, _result(s, by, told))
      BY <2>2 DEF _answered
    <3> QED BY <2>1, <3>1, ResultIsOwn, ReportVoices
  <2>3. ASSUME NEW why, NEW l, _ask(s, why, l) PROVE VoicesKept'
    BY <2>1, <2>3, AskVoices
  <2>4. CASE _busy(s)
    BY <2>1, <2>4, SilentReport DEF _busy
  <2>5. CASE _one(s) \/ _lane(s) \/ _fallback_lock(s) \/ (\E why \in {"transient", "empty"} : _again(s, why))
    BY <1>1, <2>5 DEF _one, _lane, _fallback_lock, _again
  <2>6. CASE _dropped(s)
    BY <1>1, <2>1, <2>3, <2>6 DEF _dropped
  <2>7. ASSUME NEW l \in Less(left[s]),
               \/ _timeout(s, l) \/ (\E why \in {"truncated", "starved", "failed", "ladder", "dropped"} : _failed(s, why, l))
               \/ (\E a, d \in BOOLEAN : _await_health(s, a, d, l))
        PROVE  VoicesKept'
    BY <1>1, <2>1, <2>3, <2>7 DEF _timeout, _failed, _await_health
  <2> QED BY <1>2, <2>2, <2>4, <2>5, <2>6, <2>7 DEF Request
<1>3. CASE Chair
  BY <1>1, <1>3 DEF Chair, _repoll, _reask, brainstorm_command
<1>4. CASE UNCHANGED councilVars
  BY <1>1, <1>4 DEF councilVars
<1> QED BY <1>2, <1>3, <1>4 DEF CouncilNext

\* Where proxyd says who answered and bodies name their model, a seat counts as
\* answered only with its own entry's text, never with another known family's
\* weights behind it, nor on the box with hosted ones, through retries, fallbacks
\* and re-polls. (_attested_provenance, _prefer)
THEOREM NoOtherVoiceCounts == CouncilSpec => []NoOtherFamilysVoice
<1>1. CouncilInit => VoicesKept
  BY DEF CouncilInit, VoicesKept, NoOtherFamilysVoice, Without
<1>2. VoicesKept => NoOtherFamilysVoice
  BY DEF VoicesKept
<1> QED BY <1>1, VoicesStep, <1>2, PTL DEF CouncilSpec

---------------------------------------------------------------------------
\* Chamber: the tool loop.

ChamberSpec == ChamberInit /\ [][ChamberNext]_chamberVars

Lines == {"ok", "error", "malformed"}

ChamberTypes ==
    /\ ledger \in Seq(Lines) /\ exchanges \in Seq(Lines)
    /\ posts \in Nat /\ fed \in Nat /\ consecutive_errors \in 0..2

\* The tail of the ledger is what the breaker counted.
ErrorsCounted ==
    /\ consecutive_errors <= Len(ledger)
    /\ Len(ledger) > consecutive_errors => ledger[Len(ledger) - consecutive_errors] = "ok"

\* A block that is echoed is answered for, mid-reply as well.
EchoedIsFed == fed = echoed

ChamberInv == ChamberTypes /\ ErrorsCounted /\ EchoedIsFed /\ CallsAudited /\ BreakerTrips

LEMMA CallsTyped ==
  ASSUME NEW l, NEW i \in Nat
  PROVE  Calls(l, i) \in Nat
<1>1. IsFiniteSet(1..i)
  BY FS_Interval
<1>2. IsFiniteSet({j \in 1..i : l[j] # "malformed"})
  BY <1>1, FS_Subset
<1> QED BY <1>2, FS_CardinalityType DEF Calls

\* A line more leaves the calls up to an earlier one, and adds at most itself.
LEMMA CallsAppended ==
  ASSUME ledger \in Seq(Lines), NEW line \in Lines, ledger' = Append(ledger, line)
  PROVE  /\ ledger' \in Seq(Lines) /\ Len(ledger) \in Nat /\ Len(ledger') = Len(ledger) + 1 /\ ledger'[Len(ledger')] = line
         /\ \A i \in 1..Len(ledger) : ledger'[i] = ledger[i] /\ Calls(ledger', i) = Calls(ledger, i)
         /\ line = "malformed" => Calls(ledger', Len(ledger')) = Calls(ledger, Len(ledger))
         /\ line # "malformed" => Calls(ledger', Len(ledger')) = Calls(ledger, Len(ledger)) + 1
<1>1. /\ ledger' \in Seq(Lines) /\ Len(ledger) \in Nat /\ Len(ledger') = Len(ledger) + 1 /\ ledger'[Len(ledger')] = line
      /\ \A i \in 1..Len(ledger) : ledger'[i] = ledger[i]
  OBVIOUS
<1>2. ASSUME NEW i \in 1..Len(ledger)
      PROVE  Calls(ledger', i) = Calls(ledger, i)
  <2>1. \A j \in 1..i : ledger'[j] = ledger[j]
    BY <1>1
  <2>2. {j \in 1..i : ledger'[j] # "malformed"} = {j \in 1..i : ledger[j] # "malformed"}
    BY <2>1
  <2> QED BY <2>2 DEF Calls
<1> DEFINE S == {j \in 1..Len(ledger) : ledger[j] # "malformed"}
           T == {j \in 1..Len(ledger') : ledger'[j] # "malformed"}
<1>3. IsFiniteSet(S)
  <2>1. IsFiniteSet(1..Len(ledger))
    BY <1>1, FS_Interval
  <2>2. S \subseteq 1..Len(ledger)
    OBVIOUS
  <2> QED BY <2>1, <2>2, FS_Subset
<1>4. CASE line = "malformed"
  <2>1. T = S
    BY <1>1, <1>4
  <2> QED BY <1>1, <1>2, <1>4, <2>1 DEF Calls
<1>5. CASE line # "malformed"
  <2>1. T = S \cup {Len(ledger')} /\ Len(ledger') \notin S
    BY <1>1, <1>5
  <2>2. Cardinality(T) = Cardinality(S) + 1
    BY <1>3, <2>1, FS_AddElement
  <2> QED BY <1>1, <1>2, <1>5, <2>2 DEF Calls
<1> QED BY <1>4, <1>5

LEMMA CallsBounded ==
  ASSUME NEW l \in Seq(Lines), NEW i \in 1..Len(l), l[i] # "malformed"
  PROVE  Calls(l, i) \in 1..Calls(l, Len(l))
<1> DEFINE S == {j \in 1..i : l[j] # "malformed"}
           T == {j \in 1..Len(l) : l[j] # "malformed"}
<1>1. Len(l) \in Nat /\ i \in Nat
  OBVIOUS
<1>2. IsFiniteSet(T)
  <2>1. IsFiniteSet(1..Len(l))
    BY <1>1, FS_Interval
  <2>2. T \subseteq 1..Len(l)
    OBVIOUS
  <2> QED BY <2>1, <2>2, FS_Subset
<1>3. S \subseteq T /\ i \in S
  BY <1>1
<1>4. IsFiniteSet(S) /\ Cardinality(S) <= Cardinality(T)
  BY <1>2, <1>3, FS_Subset
<1>5. Cardinality(S) # 0
  BY <1>3, <1>4, FS_EmptySet
<1>6. Cardinality(S) \in Nat /\ Cardinality(T) \in Nat
  BY <1>2, <1>4, FS_CardinalityType
<1> QED BY <1>4, <1>5, <1>6 DEF Calls

LEMMA ChamberInitial == ChamberInit => ChamberInv
<1> SUFFICES ASSUME ChamberInit PROVE ChamberInv
  OBVIOUS
<1>1. Calls(ledger, 0) = 0
  <2>1. {j \in 1..0 : ledger[j] # "malformed"} = {}
    OBVIOUS
  <2> QED BY <2>1, FS_EmptySet DEF Calls
<1> QED BY <1>1 DEF ChamberInit, ChamberInv, ChamberTypes, ErrorsCounted, EchoedIsFed, CallsAudited, BreakerTrips

\* An audited attempt.
LEMMA AuditKeeps ==
  ASSUME ChamberInv, NEW line \in Lines, ledger' = Append(ledger, line),
         line = "malformed" => exchanges' = exchanges,
         line # "malformed" => exchanges' = Append(exchanges, line),
         ~Broken,
         line = "ok" => consecutive_errors' = 0,
         line # "ok" => consecutive_errors' = consecutive_errors + 1,
         turn' = "blocks", posts' = posts,
         fed' \in {fed, fed + 1}, fed' - fed = echoed' - echoed, echoed' \in {echoed, echoed + 1}
  PROVE  ChamberInv'
<1>a. ledger \in Seq(Lines) /\ exchanges \in Seq(Lines)
  BY DEF ChamberInv, ChamberTypes
<1>0. /\ ledger' \in Seq(Lines) /\ Len(ledger) \in Nat /\ Len(ledger') = Len(ledger) + 1
      /\ ledger'[Len(ledger')] = line
      /\ \A i \in 1..Len(ledger) : ledger'[i] = ledger[i] /\ Calls(ledger', i) = Calls(ledger, i)
      /\ line = "malformed" => Calls(ledger', Len(ledger')) = Calls(ledger, Len(ledger))
      /\ line # "malformed" => Calls(ledger', Len(ledger')) = Calls(ledger, Len(ledger)) + 1
  BY <1>a, CallsAppended
<1> USE DEF ChamberInv, ChamberTypes
<1> DEFINE n == Len(ledger)
           e == consecutive_errors
<1>1. /\ ledger' \in Seq(Lines) /\ n \in Nat /\ Len(ledger') = n + 1 /\ ledger'[n + 1] = line
      /\ \A i \in 1..n : ledger'[i] = ledger[i] /\ Calls(ledger', i) = Calls(ledger, i)
      /\ line = "malformed" => Calls(ledger', n + 1) = Calls(ledger, n)
      /\ line # "malformed" => Calls(ledger', n + 1) = Calls(ledger, n) + 1
  BY <1>0
<1>2. e \in 0..1
  BY DEF Broken
<1>3. ChamberTypes'
  <2>1. consecutive_errors' \in 0..2
    BY <1>2
  <2>2. exchanges' \in Seq(Lines)
    <3>1. Append(exchanges, line) \in Seq(Lines)
      BY <1>a
    <3> QED BY <1>a, <3>1
  <2> QED BY <1>1, <2>1, <2>2
<1>4. ErrorsCounted'
  <2>0. e <= n /\ (n > e => ledger[n - e] = "ok")
    BY DEF ErrorsCounted
  <2>1. CASE line = "ok"
    BY <1>1, <2>1 DEF ErrorsCounted
  <2>2. CASE line # "ok"
    <3>1. n + 1 > e + 1 => n - e \in 1..n /\ (n + 1) - (e + 1) = n - e
      BY <1>1, <1>2
    <3>2. n + 1 > e + 1 => ledger'[(n + 1) - (e + 1)] = "ok"
      BY <1>1, <1>2, <2>0, <3>1
    <3> QED BY <1>1, <1>2, <2>0, <2>2, <3>2 DEF ErrorsCounted
  <2> QED BY <2>1, <2>2
<1>5. EchoedIsFed'
  BY DEF EchoedIsFed
<1>6. CallsAudited'
  <2>0. /\ Len(exchanges) = Calls(ledger, n)
        /\ \A i \in 1..n : ledger[i] # "malformed" => exchanges[Calls(ledger, i)] = ledger[i]
    BY DEF CallsAudited
  <2>1. CASE line = "malformed"
    <3>1. exchanges' = exchanges
      BY <2>1
    <3>2. Calls(ledger', n + 1) = Calls(ledger, n)
      BY <1>1, <2>1, CallsTyped
    <3>3. ASSUME NEW i \in 1..n + 1, ledger'[i] # "malformed"
          PROVE  exchanges'[Calls(ledger', i)] = ledger'[i]
      <4>1. i \in 1..n
        BY <1>1, <2>1, <3>3
      <4> QED BY <1>1, <2>0, <3>1, <3>3, <4>1
    <3> QED BY <1>1, <2>0, <3>1, <3>2, <3>3 DEF CallsAudited
  <2>2. CASE line # "malformed"
    <3>1. exchanges' = Append(exchanges, line)
      BY <2>2
    <3>2. Calls(ledger', n + 1) = Len(exchanges) + 1
      BY <1>1, <2>0, <2>2
    <3>3. ASSUME NEW i \in 1..n + 1, ledger'[i] # "malformed"
          PROVE  exchanges'[Calls(ledger', i)] = ledger'[i]
      <4>1. CASE i = n + 1
        BY <1>1, <3>1, <3>2, <4>1
      <4>2. CASE i \in 1..n
        <5>1. ledger[i] # "malformed" /\ ledger \in Seq(Lines)
          BY <1>1, <3>3, <4>2
        <5>2. Calls(ledger, i) \in 1..Len(exchanges)
          BY <2>0, <4>2, <5>1, CallsBounded
        <5>3. exchanges'[Calls(ledger, i)] = exchanges[Calls(ledger, i)]
          BY <3>1, <5>2
        <5> QED BY <1>1, <2>0, <4>2, <5>1, <5>3
      <4> QED BY <1>1, <4>1, <4>2
    <3>4. Len(exchanges') = Len(exchanges) + 1
      BY <3>1
    <3> QED BY <1>1, <3>2, <3>3, <3>4 DEF CallsAudited
  <2> QED BY <2>1, <2>2
<1>7. BreakerTrips'
  <2> SUFFICES ASSUME NEW i \in 1..(n + 1) - 2
               PROVE  \E j \in i..i + 2 : ledger'[j] = "ok"
    BY <1>1 DEF BreakerTrips
  <2>1. CASE i \in 1..n - 2
    <3>1. PICK j \in i..i + 2 : ledger[j] = "ok"
      BY <2>1 DEF BreakerTrips
    <3>2. j \in 1..n
      BY <1>1, <2>1
    <3> QED BY <1>1, <3>1, <3>2
  <2>2. CASE i = n - 1
    <3>1. CASE line = "ok"
      BY <1>1, <2>2, <3>1
    <3>2. CASE line # "ok"
      <4>1. n > e /\ n - e \in i..i + 2 /\ n - e \in 1..n
        BY <1>1, <1>2, <2>2
      <4>2. ledger[n - e] = "ok"
        BY <4>1 DEF ErrorsCounted
      <4> QED BY <1>1, <4>1, <4>2
    <3> QED BY <3>1, <3>2
  <2> QED BY <1>1, <2>1, <2>2
<1> QED BY <1>3, <1>4, <1>5, <1>6, <1>7

\* A turn's loop moves on, with nothing attempted.
LEMMA LoopStays ==
  ASSUME ChamberInv, UNCHANGED <<ledger, exchanges, consecutive_errors>>,
         posts' \in Nat, fed' \in Nat, fed' = echoed',
         turn' = "post" => posts' = 0 \/ fed' > 0
  PROVE  ChamberInv'
<1>1. ChamberTypes' /\ ErrorsCounted' /\ EchoedIsFed' /\ BreakerTrips'
  BY DEF ChamberInv, ChamberTypes, ErrorsCounted, EchoedIsFed, BreakerTrips
<1>2. CallsAudited'
  BY DEF ChamberInv, ChamberTypes, CallsAudited, Calls
<1> QED BY <1>1, <1>2 DEF ChamberInv

LEMMA ChamberStep == ChamberInv /\ [ChamberNext]_chamberVars => ChamberInv'
<1> SUFFICES ASSUME ChamberInv, [ChamberNext]_chamberVars PROVE ChamberInv'
  OBVIOUS
<1>0. /\ posts \in Nat /\ fed \in Nat /\ fed = echoed
      /\ turn = "post" => posts = 0 \/ fed > 0
  BY DEF ChamberInv, ChamberTypes, EchoedIsFed, CallsAudited
<1> USE DEF loop
<1>1. CASE UNCHANGED chamberVars
  BY <1>0, <1>1, LoopStays DEF chamberVars
<1>2. CASE \E k \in Seating : _say_turn(k)
  <2>1. ledger' = <<>> /\ exchanges' = <<>> /\ posts' = 0 /\ fed' = 0 /\ echoed' = 0 /\ consecutive_errors' = 0
    BY <1>2 DEF _say_turn
  <2>2. Calls(ledger', 0) = 0
    <3>1. {j \in 1..0 : ledger'[j] # "malformed"} = {}
      OBVIOUS
    <3> QED BY <3>1, FS_EmptySet DEF Calls
  <2> QED BY <2>1, <2>2 DEF ChamberInv, ChamberTypes, ErrorsCounted, EchoedIsFed, CallsAudited, BreakerTrips
<1>3. CASE Transcript_clear \/ _stream_and_print \/ _budget_hit
  BY <1>0, <1>3, LoopStays DEF Transcript_clear, _stream_and_print, _budget_hit, Answer, Loop_ends
<1>4. CASE _run_tool_loop
  BY <1>0, <1>4, LoopStays DEF _run_tool_loop, Loop_ends, Answer
<1>5. CASE \E reply \in {"text", "rejected", "error"} : _post_with_tools(reply)
  <2>1. turn' # "post" /\ posts' \in Nat /\ UNCHANGED <<ledger, exchanges, consecutive_errors, fed, echoed>>
    BY <1>0, <1>5 DEF _post_with_tools, Loop_ends, Answer
  <2> QED BY <1>0, <2>1, LoopStays
<1>6. CASE \E n \in 1..2 : \E batch \in [1..n -> Block] : _reply_with_blocks(batch)
  <2>1. turn' # "post" /\ posts' \in Nat /\ fed' = 0 /\ echoed' = 0
        /\ UNCHANGED <<ledger, exchanges, consecutive_errors>>
    BY <1>0, <1>6 DEF _reply_with_blocks
  <2> QED BY <1>0, <2>1, LoopStays
<1>7. ASSUME NEW audited \in BOOLEAN, _malformed(audited)
      PROVE  ChamberInv'
  <2>1. CASE audited
    <3>1. /\ ledger' = Append(ledger, "malformed") /\ exchanges' = exchanges /\ ~Broken
          /\ consecutive_errors' = consecutive_errors + 1 /\ turn' = "blocks" /\ UNCHANGED posts
          /\ fed' \in {fed, fed + 1} /\ echoed' \in {echoed, echoed + 1} /\ fed' - fed = echoed' - echoed
      BY <1>0, <1>7, <2>1 DEF _malformed
    <3>2. "malformed" \in Lines
      BY DEF Lines
    <3> QED BY <3>1, <3>2, AuditKeeps
  <2>2. CASE ~audited
    BY <1>0, <1>7, <2>2, LoopStays DEF _malformed, Answer
  <2> QED BY <2>1, <2>2
<1>8. ASSUME NEW audited \in BOOLEAN, NEW outcome \in {"ok", "error"}, run_tool(outcome, audited)
      PROVE  ChamberInv'
  <2>1. CASE audited
    <3>1. /\ ledger' = Append(ledger, outcome) /\ exchanges' = Append(exchanges, outcome) /\ ~Broken
          /\ (outcome = "ok" => consecutive_errors' = 0)
          /\ (outcome # "ok" => consecutive_errors' = consecutive_errors + 1)
          /\ turn' = "blocks" /\ posts' = posts
          /\ fed' \in {fed, fed + 1} /\ echoed' \in {echoed, echoed + 1} /\ fed' - fed = echoed' - echoed
      BY <1>0, <1>8, <2>1 DEF run_tool
    <3>2. outcome \in Lines /\ outcome # "malformed"
      BY DEF Lines
    <3> QED BY <3>1, <3>2, AuditKeeps
  <2>2. CASE ~audited
    BY <1>0, <1>8, <2>2, LoopStays DEF run_tool, Answer
  <2> QED BY <2>1, <2>2
<1> QED BY <1>1, <1>2, <1>3, <1>4, <1>5, <1>6, <1>7, <1>8 DEF ChamberNext

\* Every result a request or the voice carries is in the ledger, in its order, and
\* nothing nobody asked for is. (_run_tool_loop)
THEOREM AllAudited == ChamberSpec => []CallsAudited
<1>1. ChamberInv => CallsAudited
  BY DEF ChamberInv
<1> QED BY <1>1, ChamberInitial, ChamberStep, PTL DEF ChamberSpec

\* Of any three attempts in a row one went well: two failures end the turn, across
\* the replies of a turn and malformed blocks included. (_run_tool_loop)
THEOREM BreakerHolds == ChamberSpec => []BreakerTrips
<1>1. ChamberInv => BreakerTrips
  BY DEF ChamberInv
<1> QED BY <1>1, ChamberInitial, ChamberStep, PTL DEF ChamberSpec
==============================================================================
