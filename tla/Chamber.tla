------------------------------ MODULE Chamber ------------------------------
(* sanctum council: a chamber where one seat answers at a time, an armed seat *)
(* through a loop of tool calls, each audited, under a cap and a breaker; and  *)
(* the transcript they share. (commands/{council,council_tools}.py)           *)
EXTENDS Naturals, Sequences, FiniteSets

CONSTANTS TOOL_CALL_CAP,  \* tool calls of a turn
          MaxTurns,       \* turns the transcript keeps
          MaxSaid         \* turns typed (bound)

ASSUME ChamberAssumption == TOOL_CALL_CAP \in Nat /\ MaxTurns \in Nat \ {0} /\ MaxSaid \in Nat

MAX_TOOL_LOOP_ITERATIONS == TOOL_CALL_CAP * 2

\* A block of a reply: a call; one that is malformed but named; one without a name.
Block == {"call", "malformed", "nameless"}
Seating == {"two-stage", "single", "unarmed"}

VARIABLES transcript, typed,    \* roles in the conversation; turns typed
          turn, kind,           \* where the turn is; how its seat is armed
          blocks,               \* the reply's blocks not yet met
          posts, calls, consecutive_errors,
          echoed, fed,          \* blocks and results the next request will carry
          exchanges, ledger     \* tools that ran, and every attempt audited, this turn
loop == <<blocks, posts, calls, consecutive_errors, echoed, fed, exchanges, ledger>>
chamberVars == <<transcript, typed, turn, kind, loop>>

ChamberInit ==
    /\ transcript = <<>> /\ typed = 0 /\ turn = "idle" /\ kind = "unarmed" /\ blocks = <<>>
    /\ posts = 0 /\ calls = 0 /\ consecutive_errors = 0 /\ echoed = 0 /\ fed = 0
    /\ exchanges = <<>> /\ ledger = <<>>

Transcript_add(role) ==
    LET all == Append(transcript, role)
        keep == MaxTurns * 2
    IN transcript' = IF Len(all) > keep THEN SubSeq(all, Len(all) - keep + 1, Len(all)) ELSE all

\* What the operator types: to a seat, or /new.
_say_turn(k) ==
    /\ turn = "idle" /\ typed < MaxSaid /\ typed' = typed + 1 /\ kind' = k
    /\ Transcript_add("user") /\ turn' = IF k = "unarmed" THEN "voice" ELSE "post"
    /\ blocks' = <<>> /\ posts' = 0 /\ calls' = 0 /\ consecutive_errors' = 0 /\ echoed' = 0 /\ fed' = 0
    /\ exchanges' = <<>> /\ ledger' = <<>>

Transcript_clear ==
    /\ turn = "idle" /\ transcript # <<>> /\ transcript' = <<>> /\ UNCHANGED <<typed, turn, kind, loop>>

\* A seat's answer, an abort or "(seat unavailable)".
Answer == Transcript_add("assistant") /\ turn' = "idle"

\* The loop is over: one seat answers with what it has, the other is voiced.
Loop_ends == IF kind = "single" THEN Answer ELSE turn' = "voice" /\ UNCHANGED transcript

\* Past the bound, no request.  A first one refused is a chat without tools; a
\* later one, an error or an abort ends the turn.
_post_with_tools(reply) ==
    /\ turn = "post" /\ posts' = posts + 1
    /\ IF posts' > MAX_TOOL_LOOP_ITERATIONS \/ reply = "text" THEN Loop_ends
       ELSE IF reply = "rejected" /\ posts = 0 THEN turn' = "voice" /\ UNCHANGED transcript ELSE Answer
    /\ UNCHANGED <<typed, kind, blocks, calls, consecutive_errors, echoed, fed, exchanges, ledger>>

_reply_with_blocks(batch) ==
    /\ turn = "post" /\ posts < MAX_TOOL_LOOP_ITERATIONS
    /\ posts' = posts + 1 /\ turn' = "blocks" /\ blocks' = batch /\ echoed' = 0 /\ fed' = 0
    /\ UNCHANGED <<transcript, typed, kind, calls, consecutive_errors, exchanges, ledger>>

\* The breaker, before every block.
Broken == consecutive_errors >= 2

\* (mutant) a malformed block is told to the model and not counted
UncountedMalformed(audited) ==
    /\ turn = "blocks" /\ blocks # <<>> /\ ~Broken /\ Head(blocks) # "call" /\ audited
    /\ blocks' = Tail(blocks) /\ ledger' = Append(ledger, "malformed")
    /\ LET kept == IF Head(blocks) = "nameless" THEN 0 ELSE 1
       IN echoed' = echoed + kept /\ fed' = fed + kept
    /\ UNCHANGED <<transcript, typed, turn, kind, posts, calls, consecutive_errors, exchanges>>

\* Audited, or the turn fails; counted; and fed back with its error, except one
\* that has no name.
_malformed(audited) ==
    /\ turn = "blocks" /\ blocks # <<>> /\ ~Broken /\ Head(blocks) # "call"
    /\ blocks' = Tail(blocks)
    /\ IF audited
         THEN LET kept == IF Head(blocks) = "nameless" THEN 0 ELSE 1
              IN /\ ledger' = Append(ledger, "malformed") /\ consecutive_errors' = consecutive_errors + 1
                 /\ echoed' = echoed + kept /\ fed' = fed + kept /\ UNCHANGED <<transcript, turn>>
         ELSE Answer /\ UNCHANGED <<ledger, consecutive_errors, echoed, fed>>
    /\ UNCHANGED <<typed, kind, posts, calls, exchanges>>

\* (mutant) a call that could not be audited is used all the same
AuditedIfItCan(outcome, audited) ==
    /\ turn = "blocks" /\ blocks # <<>> /\ ~Broken /\ Head(blocks) = "call" /\ calls < TOOL_CALL_CAP
    /\ blocks' = Tail(blocks) /\ calls' = calls + 1 /\ echoed' = echoed + 1 /\ fed' = fed + 1
    /\ ledger' = IF audited THEN Append(ledger, outcome) ELSE ledger
    /\ exchanges' = Append(exchanges, outcome)
    /\ consecutive_errors' = IF outcome = "error" THEN consecutive_errors + 1 ELSE 0
    /\ UNCHANGED <<transcript, typed, turn, kind, posts>>

\* A call: run, audited, fed back.  An audit that fails fails the turn, with
\* the tool's work done.
run_tool(outcome, audited) ==
    /\ turn = "blocks" /\ blocks # <<>> /\ ~Broken /\ Head(blocks) = "call" /\ calls < TOOL_CALL_CAP
    /\ blocks' = Tail(blocks) /\ calls' = calls + 1
    /\ IF audited
         THEN /\ ledger' = Append(ledger, outcome) /\ exchanges' = Append(exchanges, outcome)
              /\ consecutive_errors' = IF outcome = "error" THEN consecutive_errors + 1 ELSE 0
              /\ echoed' = echoed + 1 /\ fed' = fed + 1 /\ UNCHANGED <<transcript, turn>>
         ELSE Answer /\ UNCHANGED <<ledger, exchanges, consecutive_errors, echoed, fed>>
    /\ UNCHANGED <<typed, kind, posts>>

\* The breaker or the cap, with a block to go.
_budget_hit ==
    /\ turn = "blocks" /\ blocks # <<>> /\ (Broken \/ (Head(blocks) = "call" /\ calls = TOOL_CALL_CAP))
    /\ Loop_ends /\ UNCHANGED <<typed, kind, loop>>

\* Every block met: back with their results, unless there is none.
_run_tool_loop ==
    /\ turn = "blocks" /\ blocks = <<>>
    /\ IF fed = 0 THEN Loop_ends ELSE turn' = "post" /\ UNCHANGED transcript
    /\ UNCHANGED <<typed, kind, loop>>

\* The voice, without tools: it answers, fails or is aborted, and answers for it.
_stream_and_print == turn = "voice" /\ Answer /\ UNCHANGED <<typed, kind, loop>>

ChamberNext ==
    \/ \E k \in Seating : _say_turn(k)
    \/ Transcript_clear \/ _budget_hit \/ _run_tool_loop \/ _stream_and_print
    \/ \E reply \in {"text", "rejected", "error"} : _post_with_tools(reply)
    \/ \E n \in 1..2 : \E batch \in [1..n -> Block] : _reply_with_blocks(batch)
    \/ \E audited \in BOOLEAN : _malformed(audited) \/ \E outcome \in {"ok", "error"} : run_tool(outcome, audited)

---------------------------------------------------------------------------
\* "an unaudited result must never reach a model", nor one nobody asked for:
\* the results a request or the voice carries are the ledger's, in order, and
\* a request that goes back carries a result for every block it echoes.
Calls(l, i) == Cardinality({j \in 1..i : l[j] # "malformed"})
CallsAudited ==
    /\ Len(exchanges) = Calls(ledger, Len(ledger))
    /\ \A i \in 1..Len(ledger) : ledger[i] # "malformed" => exchanges[Calls(ledger, i)] = ledger[i]
    /\ turn = "post" /\ posts > 0 => fed > 0 /\ fed = echoed

\* "an all-error stream (a failing tool OR a malformed block) can never loop":
\* no third attempt after two that failed, across the replies of a turn.
BreakerTrips ==
    \A i \in 1..Len(ledger) - 2 : \E j \in i..i + 2 : ledger[j] = "ok"

\* "capped to the last N turns": a request never opens with an answer whose
\* question is gone.
WholeTurns == transcript # <<>> => Head(transcript) = "user"
=============================================================================
