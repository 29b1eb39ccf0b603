------------------------------ MODULE NetProofs ------------------------------
(* The theorems of what a node does to its own network.  NetHeal: a heal      *)
(* strands no node, and flapping is capped.  LinkGuard: a dead window is never*)
(* smoothed over, and no portable node is pinned unasked.  TailnetAcl: types,   *)
(* and what is pushed was validated.  Parcel: one receive at a time saves the *)
(* signed bytes.  Each for any networks, logs, policies, chunks and bounds.   *)
EXTENDS NetHeal, LinkGuard, TailnetAcl, Parcel, FiniteSetTheorems, SequenceTheorems, TLAPS

---------------------------------------------------------------------------
\* NetHeal: the heal and its wrapper.

\* What a run that met an answering router keeps of it until it has ended, as
\* long as nothing else touches the network: the router, then a way back to it.
WayBack(r) ==
    /\ r.pc # "record" => ~r.stuck
    /\ r.pc \in {"idle", "snapshot"} => ~r.had
    /\ r.pc = "act" /\ r.had => GatewayAnswers /\ r.snap = cfg.net
    /\ r.pc \in {"verify", "revert"} /\ r.had =>
          route = "wired" \/ (r.snap = here /\ here # NoNet /\ gwUp)
    /\ r.pc = "record" /\ r.had /\ ~r.stuck => GatewayAnswers
WaysBack == \A p \in Procs : WayBack(run[p])

\* The same of a run that a change of the interface moves on.
WayBackNext(r) ==
    /\ r.pc \in {"verify", "revert", "record"}
    /\ r.pc # "record" => ~r.stuck
    /\ r.pc \in {"verify", "revert"} /\ r.had =>
          route' = "wired" \/ (r.snap = here' /\ here' # NoNet /\ gwUp')
    /\ r.pc = "record" /\ r.had /\ ~r.stuck => GatewayAnswers'

\* A change the daemon made is followed by an attempt it counts, and it only
\* starts under the cap.
Counted ==
    /\ flaps <= attempts
         \/ (run[Daemon].pc \in {"verify", "revert", "record"} /\ flaps <= attempts + 1)
    /\ run[Daemon].pc # "idle" => attempts < MaxAttempts

\* Under the kill-switch a cycle that is past it has its one change left.
Switched ==
    /\ ~disabled => offActs = 0
    /\ run[Daemon].pc \in {"snapshot", "act"} => offActs = 0

HealInv == HealTypeOK /\ WaysBack /\ Counted /\ Switched /\ OffActsBounded

RunType == [pc : Step, action : Action, snap : Nets \cup {NoNet}, tries : 0 .. VerifyTries,
            token : Token, had : BOOLEAN, stuck : BOOLEAN]

---------------------------------------------------------------------------
LEMMA ProcFacts == Daemon \in Procs /\ Operator \in Procs /\ Daemon # Operator
  BY ProcAssumption DEF Procs

LEMMA IdleType == Idle \in RunType /\ Idle.pc = "idle" /\ ~Idle.had /\ ~Idle.stuck
  BY HealNatAssumption DEF Idle, RunType, Step, Action, Token

LEMMA ActionType == \A d \in DOMAIN ActionOf : ActionOf[d] \in Action
  BY DEF ActionOf, Action

LEMMA Diagnosed == \A p : diagnose_posture(p) \in DOMAIN ActionOf
  BY DEF diagnose_posture, ActionOf

LEMMA HealInitial == HealInit => HealInv
<1> SUFFICES ASSUME HealInit PROVE HealInv
  OBVIOUS
<1> USE HealNatAssumption, ProcFacts, IdleType DEF HealInit
<1>1. run \in [Procs -> RunType] /\ \A p \in Procs : run[p] = Idle
  OBVIOUS
<1>2. HealTypeOK
  <2>1. /\ here \in Nets \cup {NoNet} /\ route \in {"wifi", "wired"} /\ beat \in Beat
        /\ cfg \in [method : {"DHCP", "Manual"}, net : Nets \cup {NoNet}]
    BY DEF Beat
  <2>2. moves \in 0 .. MaxMoves /\ attempts \in 0 .. MaxAttempts /\ flaps \in Nat /\ offActs \in Nat
    OBVIOUS
  <2> QED BY <1>1, <2>1, <2>2 DEF HealTypeOK, RunType
<1>3. WaysBack /\ Counted /\ Switched /\ OffActsBounded
  BY <1>1 DEF WaysBack, WayBack, Counted, Switched, OffActsBounded
<1> QED BY <1>2, <1>3 DEF HealInv

\* Ending the ghost of other runs leaves everything else of them alone.
LEMMA DisturbedFacts ==
  ASSUME NEW r \in [Procs -> RunType], NEW S
  PROVE  /\ Disturbed(r, S) \in [Procs -> RunType]
         /\ \A p \in Procs : /\ p \in S => Disturbed(r, S)[p] = r[p]
                             /\ p \notin S => Disturbed(r, S)[p] = [r[p] EXCEPT !.had = FALSE]
                             /\ Disturbed(r, S)[p].pc = r[p].pc
  BY DEF Disturbed, RunType

\* A reading that shows an address and an answering router shows the truth.
LEMMA ReadingFacts ==
  ASSUME HealTypeOK, NEW p \in Readings
  PROVE  /\ LeasedAndReachable(p) => GatewayAnswers
         /\ Spends(p) => moves' \in 0 .. MaxMoves
  <1>1. LeasedAndReachable(p) => GatewayAnswers
    BY DEF Readings, Misread, Unread, Posture, Truth, LeasedAndReachable
  <1>2. Spends(p) => moves' \in 0 .. MaxMoves
    BY HealNatAssumption DEF Readings, Spends, HealTypeOK
  <1> QED BY <1>1, <1>2

\* A command that may do nothing: one more move at most.
LEMMA TookFacts ==
  ASSUME HealTypeOK, NEW took \in Took, Fails(took)
  PROVE  took \in BOOLEAN /\ moves' \in 0 .. MaxMoves
<1>1. took = TRUE \/ (took = FALSE /\ moves < MaxMoves)
  BY DEF Took
<1>2. moves \in 0 .. MaxMoves /\ MaxMoves \in Nat
  BY HealNatAssumption DEF HealTypeOK
<1>3. CASE took = TRUE
  BY <1>2, <1>3 DEF Fails
<1>4. CASE took = FALSE /\ moves < MaxMoves
  <2>1. moves' = moves + 1
    BY <1>4 DEF Fails
  <2>2. moves + 1 \in 0 .. MaxMoves
    BY <1>2, <1>4
  <2> QED BY <1>4, <2>1, <2>2
<1> QED BY <1>1, <1>3, <1>4

---------------------------------------------------------------------------
\* The world.
LEMMA WorldTypes ==
  ASSUME HealTypeOK, Nature \/ Lapse \/ KillSwitch
  PROVE  HealTypeOK'
<1> USE DEF HealTypeOK, Nature, Lapse, KillSwitch, wifi
<1>1. here' \in Nets \cup {NoNet} /\ gwUp' \in BOOLEAN /\ dhcpUp' \in BOOLEAN /\ spine' \in BOOLEAN
  OBVIOUS
<1>2. route' \in {"wifi", "wired"} /\ fresh' \in BOOLEAN /\ disabled' \in BOOLEAN /\ loaded' \in BOOLEAN
  OBVIOUS
<1>3. cfg' \in [method : {"DHCP", "Manual"}, net : Nets \cup {NoNet}] /\ beat' \in Beat
  OBVIOUS
<1>4. moves' \in 0 .. MaxMoves /\ attempts' \in 0 .. MaxAttempts /\ flaps' \in Nat /\ offActs' \in Nat
  BY HealNatAssumption
<1>5. run' \in [Procs -> RunType]
  BY DisturbedFacts DEF RunType
<1> QED BY <1>1, <1>2, <1>3, <1>4, <1>5 DEF RunType

LEMMA WorldKeeps ==
  ASSUME HealInv, Nature \/ Lapse \/ KillSwitch
  PROVE  HealInv'
<1> USE ProcFacts DEF HealInv, wifi
<1>1. HealTypeOK'
  BY WorldTypes
<1>2. \A p \in Procs : run'[p].pc = run[p].pc /\ (run'[p] = run[p] \/ ~run'[p].had)
  BY DEF Nature, Lapse, KillSwitch, Disturbed, HealTypeOK
<1>3. WaysBack'
  <2>1. CASE Nature
    BY <2>1 DEF Nature, Disturbed, HealTypeOK, WaysBack, WayBack
  <2>2. CASE Lapse \/ KillSwitch
    BY <2>2 DEF Lapse, KillSwitch, GatewayAnswers, WaysBack, WayBack
  <2> QED BY <2>1, <2>2
<1>4. Counted'
  BY <1>2 DEF Counted, Nature, Lapse, KillSwitch
<1>5. Switched' /\ OffActsBounded'
  BY <1>2 DEF Switched, OffActsBounded, Nature, Lapse, KillSwitch
<1> QED BY <1>1, <1>3, <1>4, <1>5

\* A restart or an install, of any runs that include the daemon's.
LEMMA KilledKeeps ==
  ASSUME HealInv, NEW ps \in SUBSET Procs, Daemon \in ps, Killed(ps), moves < MaxMoves,
         moves' = moves + 1, loaded' \in BOOLEAN
  PROVE  HealInv'
<1> USE HealNatAssumption, ProcFacts, IdleType DEF HealInv, Killed, wifi
<1>1. run' \in [Procs -> RunType] /\ run'[Daemon].pc = "idle"
  BY DEF HealTypeOK, RunType
<1>2. HealTypeOK'
  BY <1>1 DEF HealTypeOK, RunType
<1>3. WaysBack'
  BY DEF WaysBack, WayBack, GatewayAnswers
<1>4. Counted'
  <2>1. attempts' \in 0 .. MaxAttempts /\ flaps' = 0
    BY DEF HealTypeOK
  <2>2. flaps' <= attempts'
    BY ONLY <2>1, HealNatAssumption
  <2> QED BY ONLY <1>1, <2>2 DEF Counted
<1>5. Switched' /\ OffActsBounded'
  BY <1>1 DEF Switched, OffActsBounded
<1> QED BY <1>2, <1>3, <1>4, <1>5

---------------------------------------------------------------------------
\* A step that moves one run on and nothing else that matters.
LEMMA GoKeeps ==
  ASSUME HealInv, NEW p \in Procs, NEW r \in RunType, Goto(p, r), moves' \in 0 .. MaxMoves,
         UNCHANGED <<wifi, cfg, job, flaps, offActs>>, WayBack(r),
         p = Daemon => /\ attempts < MaxAttempts
                       /\ run[p].pc \in {"verify", "revert", "record"} => r.pc \in {"verify", "revert", "record"}
                       /\ r.pc \in {"snapshot", "act"} => offActs = 0
  PROVE  HealInv'
<1> USE HealNatAssumption, ProcFacts DEF HealInv, Goto, wifi, job
<1>1. /\ run' \in [Procs -> RunType] /\ run'[p] = r
      /\ \A q \in Procs : q # p => run'[q] = run[q]
  BY DEF HealTypeOK, RunType
<1>2. HealTypeOK'
  BY <1>1 DEF HealTypeOK, RunType
<1>3. WaysBack'
  BY <1>1 DEF WaysBack, WayBack, GatewayAnswers
<1>4. Counted'
  BY <1>1 DEF Counted, HealTypeOK
<1>5. Switched' /\ OffActsBounded'
  BY <1>1 DEF Switched, OffActsBounded
<1> QED BY <1>2, <1>3, <1>4, <1>5

\* A step that changes the interface and moves on the run that does.
LEMMA ChangeKeeps ==
  ASSUME HealInv, NEW p \in Procs, NEW r \in RunType, Changes(p, cfg', r),
         cfg' \in [method : {"DHCP", "Manual"}, net : Nets \cup {NoNet}],
         UNCHANGED <<wifi, job>>, moves' \in 0 .. MaxMoves, flaps' \in Nat, offActs' \in Nat,
         WayBackNext(r), Counted', Switched', OffActsBounded'
  PROVE  HealInv'
<1> USE ProcFacts DEF HealInv, Changes, wifi, job
<1>1. run \in [Procs -> RunType]
  BY DEF HealTypeOK, RunType
<1>2. Disturbed(run, {p}) \in [Procs -> RunType]
  BY <1>1, DisturbedFacts
<1>3. /\ run' \in [Procs -> RunType] /\ run'[p] = r
      /\ \A q \in Procs : q # p => /\ run'[q].pc = run[q].pc /\ ~run'[q].had
                                   /\ run'[q].stuck = run[q].stuck
  BY <1>2 DEF Disturbed, RunType
<1>4. HealTypeOK'
  BY <1>3 DEF HealTypeOK, RunType
<1>5. WaysBack'
  <2>1. WayBack(run[p])'
    BY <1>3 DEF WayBack, WayBackNext
  <2>2. \A q \in Procs : q # p => WayBack(run[q])'
    BY <1>3 DEF WayBack, WaysBack
  <2> QED BY <2>1, <2>2 DEF WaysBack
<1> QED BY <1>4, <1>5

LEMMA ProbeKeeps ==
  ASSUME HealInv, NEW p \in Procs, Probe(p), UNCHANGED <<wifi, cfg, job, flaps, offActs>>,
         p = Daemon => attempts < MaxAttempts /\ ~disabled /\ run[p].pc = "idle"
  PROVE  HealInv'
<1>1. PICK posture \in Readings :
         /\ Spends(posture)
         /\ Goto(p, IF plan_heal(posture)
                    THEN [Idle EXCEPT !.pc = "snapshot",
                                      !.action = ActionOf[diagnose_posture(posture)]]
                    ELSE [Idle EXCEPT !.pc = "record", !.token = "noop"])
  BY DEF Probe
<1>2. moves' \in 0 .. MaxMoves
  BY <1>1, ReadingFacts DEF HealInv
<1>3. CASE plan_heal(posture)
  <2> DEFINE r == [Idle EXCEPT !.pc = "snapshot", !.action = ActionOf[diagnose_posture(posture)]]
  <2>1. r \in RunType
    BY IdleType, ActionType, Diagnosed DEF RunType, Step
  <2>2. r.pc = "snapshot" /\ ~r.had /\ ~r.stuck
    BY IdleType DEF RunType
  <2>3. WayBack(r)
    BY <2>2 DEF WayBack
  <2>4. p = Daemon => offActs = 0
    BY DEF HealInv, Switched
  <2>5. Goto(p, r)
    BY <1>1, <1>3
  <2> HIDE DEF r
  <2> QED BY <1>2, <2>1, <2>2, <2>3, <2>4, <2>5, GoKeeps
<1>4. CASE ~plan_heal(posture)
  <2> DEFINE r == [Idle EXCEPT !.pc = "record", !.token = "noop"]
  <2>1. r \in RunType
    BY IdleType DEF RunType, Step, Token
  <2>2. r.pc = "record" /\ ~r.had
    BY IdleType DEF RunType
  <2>3. WayBack(r)
    BY <2>2 DEF WayBack
  <2>5. Goto(p, r)
    BY <1>1, <1>4
  <2> HIDE DEF r
  <2> QED BY <1>2, <2>1, <2>2, <2>3, <2>5, GoKeeps
<1> QED BY <1>3, <1>4

LEMMA SnapshotKeeps ==
  ASSUME HealInv, NEW p \in Procs, Snapshot(p)
  PROVE  HealInv'
<1>1. run[p] \in RunType /\ run[p].pc = "snapshot" /\ ~run[p].had /\ ~run[p].stuck
  BY DEF HealInv, HealTypeOK, WaysBack, WayBack, Snapshot, RunType
<1>2. p = Daemon => attempts < MaxAttempts /\ offActs = 0
  BY <1>1 DEF HealInv, Counted, Switched
<1>3. moves' \in 0 .. MaxMoves
  BY HealNatAssumption DEF HealInv, HealTypeOK, Snapshot
<1>4. CASE Goto(p, [run[p] EXCEPT !.pc = "act", !.snap = cfg.net, !.had = GatewayAnswers])
  <2> DEFINE r == [run[p] EXCEPT !.pc = "act", !.snap = cfg.net, !.had = GatewayAnswers]
  <2>0. GatewayAnswers \in BOOLEAN
    BY DEF GatewayAnswers
  <2>1. r \in RunType
    BY <1>1, <2>0 DEF RunType, Step, HealInv, HealTypeOK
  <2>2. r.pc = "act" /\ ~r.stuck /\ r.snap = cfg.net /\ r.had = GatewayAnswers
    BY <1>1 DEF RunType
  <2>3. WayBack(r)
    BY <2>2 DEF WayBack
  <2> HIDE DEF r
  <2>4. Goto(p, r)
    BY <1>4 DEF r
  <2> QED BY <1>1, <1>2, <1>3, <2>1, <2>2, <2>3, <2>4, GoKeeps DEF Snapshot
<1>5. CASE Goto(p, [run[p] EXCEPT !.pc = "record", !.token = "noop"])
  <2> DEFINE r == [run[p] EXCEPT !.pc = "record", !.token = "noop"]
  <2>1. r \in RunType
    BY <1>1 DEF RunType, Step, Token
  <2>2. r.pc = "record" /\ ~r.had
    BY <1>1 DEF RunType
  <2>3. WayBack(r)
    BY <2>2 DEF WayBack
  <2> HIDE DEF r
  <2>4. Goto(p, r)
    BY <1>5 DEF r
  <2> QED BY <1>1, <1>2, <1>3, <2>1, <2>2, <2>3, <2>4, GoKeeps DEF Snapshot
<1> QED BY <1>4, <1>5 DEF Snapshot

\* Whoever changes the interface, the other run is where it was.
LEMMA OthersStay ==
  ASSUME HealTypeOK, NEW p \in Procs, NEW c, NEW r \in RunType, Changes(p, c, r)
  PROVE  run'[p] = r /\ \A q \in Procs : q # p => run'[q].pc = run[q].pc
<1>1. run \in [Procs -> RunType]
  BY DEF HealTypeOK, RunType
<1>2. Disturbed(run, {p}) \in [Procs -> RunType]
  BY <1>1, DisturbedFacts
<1>3. run' = [Disturbed(run, {p}) EXCEPT ![p] = r]
  BY DEF Changes
<1>4. run'[p] = r
  BY <1>2, <1>3
<1>5. ASSUME NEW q \in Procs, q # p PROVE run'[q].pc = run[q].pc
  <2>1. run'[q] = Disturbed(run, {p})[q]
    BY <1>2, <1>3, <1>5
  <2>2. Disturbed(run, {p})[q].pc = run[q].pc
    BY <1>1, <1>5 DEF Disturbed, RunType
  <2> QED BY <2>1, <2>2
<1> QED BY <1>4, <1>5

LEMMA ActKeeps ==
  ASSUME HealInv, NEW p \in Procs, Act(p)
  PROVE  HealInv'
<1>1. /\ run[p] \in RunType /\ run[p].pc = "act" /\ ~run[p].stuck
      /\ run[p].had => GatewayAnswers /\ run[p].snap = cfg.net
  BY DEF HealInv, HealTypeOK, WaysBack, WayBack, Act, RunType
<1>2. p = Daemon => attempts < MaxAttempts /\ offActs = 0 /\ flaps <= attempts
  BY <1>1 DEF HealInv, Counted, Switched
<1>3. UNCHANGED <<wifi, job>>
  BY DEF Act
<1>4. CASE run[p].action = "none"
  <2> DEFINE r == [run[p] EXCEPT !.pc = "record"]
  <2>1. r \in RunType /\ r.pc = "record" /\ r.had = run[p].had
    BY <1>1 DEF RunType, Step
  <2>2. WayBack(r)
    BY <1>1, <2>1 DEF WayBack
  <2>3. Goto(p, r) /\ UNCHANGED <<cfg, moves, flaps, offActs>>
    BY <1>4 DEF Act
  <2>4. moves' \in 0 .. MaxMoves
    BY <2>3 DEF HealInv, HealTypeOK
  <2> HIDE DEF r
  <2> QED BY <1>1, <1>2, <1>3, <2>1, <2>2, <2>3, <2>4, GoKeeps
<1>5. CASE run[p].action # "none"
  <2> DEFINE r == [run[p] EXCEPT !.pc = "verify"]
  <2>1. /\ r \in RunType /\ r.pc = "verify" /\ ~r.stuck
        /\ r.had = run[p].had /\ r.snap = run[p].snap
    BY <1>1 DEF RunType, Step
  <2>2. PICK took \in Took : Fails(took) /\ Changes(p, IF took THEN Lease ELSE cfg, r)
    BY <1>5 DEF Act
  <2> DEFINE c == IF took THEN Lease ELSE cfg
  <2>9. /\ flaps' = IF p = Daemon THEN flaps + 1 ELSE flaps
        /\ offActs' = IF p = Daemon /\ disabled THEN offActs + 1 ELSE offActs
    BY <1>5 DEF Act
  <2> HIDE DEF r
  <2>3. cfg' = c /\ c \in [method : {"DHCP", "Manual"}, net : Nets \cup {NoNet}]
    BY <2>2 DEF Changes, Lease, HealInv, HealTypeOK
  <2>4. flaps' \in Nat /\ offActs' \in Nat
    BY <2>9 DEF HealInv, HealTypeOK
  <2>5. WayBackNext(r)
    BY <1>1, <1>3, <2>1 DEF WayBackNext, GatewayAnswers, wifi
  <2>10. moves' \in 0 .. MaxMoves
    BY <2>2, TookFacts DEF HealInv
  <2>11. Changes(p, cfg', r)
    BY <2>2, <2>3
  <2> HIDE DEF c
  <2>6. run'[p] = r /\ \A q \in Procs : q # p => run'[q].pc = run[q].pc
    BY <2>1, <2>2, OthersStay DEF HealInv
  <2>7. Counted'
    <3>1. CASE p = Daemon
      BY <1>2, <1>3, <2>1, <2>9, <2>6, <3>1 DEF Counted, job, HealInv, HealTypeOK
    <3>2. CASE p # Daemon
      BY <1>3, <2>9, <2>6, <3>2, ProcFacts DEF Counted, job, HealInv
    <3> QED BY <3>1, <3>2
  <2>8. Switched' /\ OffActsBounded'
    <3>1. CASE p = Daemon
      BY <1>2, <1>3, <2>1, <2>9, <2>6, <3>1 DEF Switched, OffActsBounded, job, HealInv
    <3>2. CASE p # Daemon
      BY <1>3, <2>9, <2>6, <3>2, ProcFacts DEF Switched, OffActsBounded, job, HealInv
    <3> QED BY <3>1, <3>2
  <2> QED BY <1>3, <2>1, <2>3, <2>4, <2>5, <2>7, <2>8, <2>10, <2>11, ChangeKeeps
<1> QED BY <1>4, <1>5

LEMMA VerifyKeeps ==
  ASSUME HealInv, NEW p \in Procs, Verify(p)
  PROVE  HealInv'
<1>1. /\ run[p] \in RunType /\ run[p].pc = "verify" /\ ~run[p].stuck
      /\ run[p].had => route = "wired" \/ (run[p].snap = here /\ here # NoNet /\ gwUp)
  BY DEF HealInv, HealTypeOK, WaysBack, WayBack, Verify, RunType
<1>2. p = Daemon => attempts < MaxAttempts
  BY <1>1 DEF HealInv, Counted
<1>3. PICK posture \in Readings :
        /\ Spends(posture)
        /\ Goto(p, IF LeasedAndReachable(posture)
                   THEN [run[p] EXCEPT !.pc = "record", !.token = "healed"]
                   ELSE IF run[p].tries < VerifyTries
                   THEN [run[p] EXCEPT !.tries = @ + 1]
                   ELSE [run[p] EXCEPT !.pc = "revert"])
  BY DEF Verify
<1>4. moves' \in 0 .. MaxMoves /\ (LeasedAndReachable(posture) => GatewayAnswers)
  BY <1>3, ReadingFacts DEF HealInv
<1>5. UNCHANGED <<wifi, cfg, job, flaps, offActs>>
  BY DEF Verify
<1>6. CASE LeasedAndReachable(posture)
  <2> DEFINE r == [run[p] EXCEPT !.pc = "record", !.token = "healed"]
  <2>1. r \in RunType /\ r.pc = "record"
    BY <1>1 DEF RunType, Step, Token
  <2>2. WayBack(r)
    BY <1>4, <1>6, <2>1 DEF WayBack
  <2>3. Goto(p, r)
    BY <1>3, <1>6
  <2> HIDE DEF r
  <2> QED BY <1>2, <1>4, <1>5, <2>1, <2>2, <2>3, GoKeeps
<1>7. CASE ~LeasedAndReachable(posture) /\ run[p].tries < VerifyTries
  <2> DEFINE r == [run[p] EXCEPT !.tries = @ + 1]
  <2>1. /\ r \in RunType /\ r.pc = "verify" /\ ~r.stuck
        /\ r.had = run[p].had /\ r.snap = run[p].snap
    BY <1>1, <1>7, HealNatAssumption DEF RunType
  <2>2. WayBack(r)
    BY <1>1, <2>1 DEF WayBack
  <2>3. Goto(p, r)
    BY <1>3, <1>7
  <2> HIDE DEF r
  <2> QED BY <1>2, <1>4, <1>5, <2>1, <2>2, <2>3, GoKeeps
<1>8. CASE ~LeasedAndReachable(posture) /\ ~(run[p].tries < VerifyTries)
  <2> DEFINE r == [run[p] EXCEPT !.pc = "revert"]
  <2>1. /\ r \in RunType /\ r.pc = "revert" /\ ~r.stuck
        /\ r.had = run[p].had /\ r.snap = run[p].snap
    BY <1>1 DEF RunType, Step
  <2>2. WayBack(r)
    BY <1>1, <2>1 DEF WayBack
  <2>3. Goto(p, r)
    BY <1>3, <1>8
  <2> HIDE DEF r
  <2> QED BY <1>2, <1>4, <1>5, <2>1, <2>2, <2>3, GoKeeps
<1> QED BY <1>6, <1>7, <1>8

\* The snapshot leads back: it is the address the router had answered at.
LEMMA RevertKeeps ==
  ASSUME HealInv, NEW p \in Procs, Revert(p)
  PROVE  HealInv'
<1>1. /\ run[p] \in RunType /\ run[p].pc = "revert"
      /\ run[p].had => route = "wired" \/ (run[p].snap = here /\ here # NoNet /\ gwUp)
  BY DEF HealInv, HealTypeOK, WaysBack, WayBack, Revert, RunType
<1>2. p = Daemon => attempts < MaxAttempts
  BY <1>1 DEF HealInv, Counted
<1>3. PICK took \in Took :
        /\ Fails(took)
        /\ Changes(p, IF took THEN [method |-> "Manual", net |-> run[p].snap] ELSE cfg,
                   [run[p] EXCEPT !.pc = "record", !.token = "reverted", !.stuck = ~took])
  BY DEF Revert
<1>4. took \in BOOLEAN /\ moves' \in 0 .. MaxMoves
  BY <1>3, TookFacts DEF HealInv
<1> DEFINE r == [run[p] EXCEPT !.pc = "record", !.token = "reverted", !.stuck = ~took]
           c == IF took THEN [method |-> "Manual", net |-> run[p].snap] ELSE cfg
<1>5. r \in RunType /\ r.pc = "record" /\ r.had = run[p].had /\ r.stuck = ~took
  BY <1>1, <1>4 DEF RunType, Step, Token
<1>6. /\ c \in [method : {"DHCP", "Manual"}, net : Nets \cup {NoNet}]
      /\ took => c.net = run[p].snap
  BY <1>1, <1>4 DEF RunType, HealInv, HealTypeOK
<1>7. Changes(p, c, r) /\ UNCHANGED <<wifi, job, flaps, offActs>>
  BY <1>3 DEF Revert
<1> HIDE DEF r, c
<1>8. cfg' = c /\ Changes(p, cfg', r)
  BY <1>7 DEF Changes
<1>9. WayBackNext(r)
  BY <1>1, <1>4, <1>5, <1>6, <1>7, <1>8 DEF WayBackNext, GatewayAnswers, wifi
<1>10. run'[p] = r /\ \A q \in Procs : q # p => run'[q].pc = run[q].pc
  BY <1>5, <1>7, OthersStay DEF HealInv
<1>11. Counted' /\ Switched' /\ OffActsBounded'
  BY <1>1, <1>2, <1>5, <1>7, <1>10, ProcFacts DEF Counted, Switched, OffActsBounded, job, HealInv
<1>12. flaps' \in Nat /\ offActs' \in Nat
  BY <1>7 DEF HealInv, HealTypeOK
<1> QED BY <1>4, <1>5, <1>6, <1>7, <1>8, <1>9, <1>11, <1>12, ChangeKeeps

---------------------------------------------------------------------------
\* The wrapper.
LEMMA WrapperStopsKeeps ==
  ASSUME HealInv, WrapperStops
  PROVE  HealInv'
<1> USE DEF HealInv, WrapperStops, Beats, wifi
<1>1. HealTypeOK'
  <2>1. moves' \in 0 .. MaxMoves
    BY HealNatAssumption DEF HealTypeOK
  <2>2. beat' \in Beat /\ fresh' \in BOOLEAN
    BY DEF Beat
  <2> QED BY <2>1, <2>2 DEF HealTypeOK
<1>2. WaysBack'
  BY DEF WaysBack, WayBack, GatewayAnswers
<1>3. Counted' /\ Switched' /\ OffActsBounded'
  BY DEF Counted, Switched, OffActsBounded
<1> QED BY <1>1, <1>2, <1>3

LEMMA RecordKeeps ==
  ASSUME HealInv, Record
  PROVE  HealInv'
<1>1. run[Daemon].pc = "record" /\ attempts < MaxAttempts /\ run \in [Procs -> RunType]
  BY DEF HealInv, HealTypeOK, Counted, Record, RunType
<1>2. /\ run' \in [Procs -> RunType] /\ run'[Daemon] = Idle
      /\ \A q \in Procs : q # Daemon => run'[q] = run[q]
  BY <1>1, IdleType, ProcFacts DEF Record, Goto
<1>3. UNCHANGED <<wifi, cfg, moves, loaded, disabled, offActs>>
  BY DEF Record
<1>4. /\ attempts' \in 0 .. MaxAttempts /\ flaps' \in Nat /\ flaps' <= attempts'
      /\ beat' \in Beat /\ fresh' \in BOOLEAN
  BY <1>1, HealNatAssumption DEF Record, HealInv, HealTypeOK, Counted, Beats, Beat
<1>5. HealTypeOK'
  BY <1>2, <1>3, <1>4 DEF HealInv, HealTypeOK, RunType, wifi
<1>6. WaysBack'
  BY <1>2, <1>3, IdleType DEF HealInv, WaysBack, WayBack, GatewayAnswers, wifi
<1>7. Counted' /\ Switched' /\ OffActsBounded'
  BY <1>2, <1>3, <1>4, IdleType DEF HealInv, Counted, Switched, OffActsBounded
<1> QED BY <1>5, <1>6, <1>7 DEF HealInv

LEMMA OperatorDoneKeeps ==
  ASSUME HealInv, OperatorDone
  PROVE  HealInv'
<1>1. WayBack(Idle)
  BY IdleType DEF WayBack
<1>2. moves' \in 0 .. MaxMoves /\ UNCHANGED <<wifi, cfg, job, flaps, offActs>> /\ Goto(Operator, Idle)
  BY DEF OperatorDone, HealInv, HealTypeOK
<1> QED BY <1>1, <1>2, IdleType, ProcFacts, GoKeeps

LEMMA HealStep == HealInv /\ [HealNext]_healVars => HealInv'
<1> SUFFICES ASSUME HealInv, [HealNext]_healVars PROVE HealInv'
  OBVIOUS
<1>1. ASSUME NEW p \in Procs, Heal(p) PROVE HealInv'
  BY <1>1, SnapshotKeeps, ActKeeps, VerifyKeeps, RevertKeeps DEF Heal
<1>2. CASE Fire
  <2>1. CASE WrapperStops
    BY <2>1, WrapperStopsKeeps
  <2>2. CASE WrapperRuns
    BY <1>2, <2>2, ProcFacts, ProbeKeeps DEF Fire, WrapperRuns
  <2> QED BY <1>2, <2>1, <2>2 DEF Fire
<1>3. CASE OperatorHeals
  BY <1>3, ProcFacts, ProbeKeeps DEF OperatorHeals
<1>4. CASE Restart \/ InstallDaemon
  <2>1. CASE Restart
    BY <2>1, ProcFacts, KilledKeeps DEF Restart, HealInv, HealTypeOK
  <2>2. CASE InstallDaemon
    BY <2>2, ProcFacts, KilledKeeps DEF InstallDaemon
  <2> QED BY <1>4, <2>1, <2>2
<1>5. CASE UNCHANGED healVars
  BY <1>5 DEF healVars, HealInv, HealTypeOK, WaysBack, WayBack, GatewayAnswers, Counted, Switched,
              OffActsBounded
<1> QED BY <1>1, <1>2, <1>3, <1>4, <1>5, RecordKeeps, OperatorDoneKeeps, WorldKeeps, ProcFacts
        DEF HealNext, DaemonStep, OperatorStep

---------------------------------------------------------------------------
LEMMA HealInvariance == HealSpec => []HealInv
<1> QED BY HealInitial, HealStep, PTL DEF HealSpec

\* Types: the network, the wrapper's files, the runs. (net/heal.py, commands/net.py)
THEOREM HealTypes == HealSpec => []HealTypeOK
<1>1. HealInv => HealTypeOK
  BY DEF HealInv
<1> QED BY HealInvariance, <1>1, PTL

\* When a heal has ended and nothing else touched the network meanwhile, a node
\* that reached its router still does: healed on a reading of it, or back at the
\* snapshot's address. (net_heal, _heal_snapshot)
THEOREM NoneStranded == HealSpec => []NeverStranded
<1>1. HealInv => NeverStranded
  BY DEF HealInv, WaysBack, WayBack, NeverStranded
<1> QED BY HealInvariance, <1>1, PTL

\* The cap holds: no more changes without a verified heal than attempts are
\* allowed, whatever becomes of each. (HEAL_WRAPPER)
THEOREM FlapsCapped == HealSpec => []FlapsBounded
<1>1. HealInv => FlapsBounded
  BY HealNatAssumption DEF HealInv, HealTypeOK, Counted, FlapsBounded
<1> QED BY HealInvariance, <1>1, PTL

\* Once the kill-switch is put, the daemon changes the interface at most once
\* more. (HEAL_WRAPPER)
THEOREM SwitchHolds == HealSpec => []OffActsBounded
<1>1. HealInv => OffActsBounded
  BY DEF HealInv
<1> QED BY HealInvariance, <1>1, PTL

---------------------------------------------------------------------------
\* LinkGuard: the link and the identity it pins.

LinkSpec == LinkInit /\ [][LinkNext]_linkVars

Line == [ssid : WifiNets \cup {Nothing}, kind : LineKinds]

LinkTypes ==
    /\ net \in WifiNets \cup {Nothing} /\ mac \in {"hw", "private"} /\ arp \in {"TRUE", "FALSE", "NA"}
    /\ log \in Seq(Line) /\ Len(log) <= LogCap
    /\ opt \in {"idle", "signals", "wifi"}
    /\ seen \in [verdict : Probes, ssid : WifiNets \cup {Nothing}, enc : {"WPA2", "WPA3"}]
    /\ klass \in {"SERVER", "ROAMER", "UNKNOWN"}
    /\ profile # NoProfile => profile.ssid \in WifiNets /\ profile.enc \in {"WPA2", "WPA3"}

\* A node is taken for a server when its model was read, and says so.
ServerIsFixed == opt = "wifi" /\ klass = "SERVER" => ~portable

LinkInv == LinkTypes /\ ServerIsFixed

LEMMA LinkInitial == LinkInit => LinkInv
  BY LinkAssumption DEF LinkInit, LinkInv, LinkTypes, ServerIsFixed, Probes, Line

LEMMA SampleKeeps ==
  ASSUME LinkInv, NEW k \in LineKinds, Sample(k)
  PROVE  LinkInv'
<1>1. log \in Seq(Line) /\ Len(log) <= LogCap /\ LogCap \in Nat /\ LogCap # 0
  BY LinkAssumption DEF LinkInv, LinkTypes
<1>2. [ssid |-> net, kind |-> k] \in Line
  BY DEF LinkInv, LinkTypes, Line
<1>3. PICK all : /\ all = Append(log, [ssid |-> net, kind |-> k])
                 /\ log' = IF Len(all) > LogCap THEN Tail(all) ELSE all
  BY DEF Sample
<1>4. all \in Seq(Line) /\ Len(all) = Len(log) + 1 /\ Len(log) \in Nat
  BY <1>1, <1>2, <1>3
<1>5. log' \in Seq(Line) /\ Len(log') <= LogCap
  <2>1. CASE Len(all) > LogCap
    <3>1. log' = Tail(all) /\ all # <<>>
      BY <1>1, <1>3, <1>4, <2>1
    <3>2. Tail(all) \in Seq(Line) /\ Len(Tail(all)) = Len(all) - 1
      BY <1>4, <3>1
    <3> QED BY <1>1, <1>4, <3>1, <3>2
  <2>2. CASE ~(Len(all) > LogCap)
    BY <1>1, <1>3, <1>4, <2>2
  <2> QED BY <2>1, <2>2
<1> QED BY <1>5 DEF Sample, LinkInv, LinkTypes, ServerIsFixed, linkNode, optimize

LEMMA WorldKeepsLink ==
  ASSUME LinkInv,
         \/ \E n \in WifiNets \cup {Nothing}, t \in {"TRUE", "FALSE"} : Join(n, t)
         \/ Approve \/ link_status \/ _render_verify
         \/ \E w \in {{}, {"script"}, {"script", "plist"}}, b \in BOOLEAN : link_install(w, b)
  PROVE  LinkInv'
<1> USE DEF LinkInv, LinkTypes, ServerIsFixed, linkNode, sentinel, optimize
<1>1. CASE \E n \in WifiNets \cup {Nothing}, t \in {"TRUE", "FALSE"} : Join(n, t)
  BY <1>1 DEF Join
<1>2. CASE Approve
  BY <1>2 DEF Approve
<1>3. CASE link_status \/ _render_verify
  BY <1>3 DEF link_status, _render_verify
<1>4. CASE \E w \in {{}, {"script"}, {"script", "plist"}}, b \in BOOLEAN : link_install(w, b)
  BY <1>4 DEF link_install
<1> QED BY <1>1, <1>2, <1>3, <1>4

LEMMA OptimizeKeeps ==
  ASSUME LinkInv,
         \/ \E f \in BOOLEAN : link_optimize(f) \/ _write_profile(f)
         \/ \E m \in SUBSET {"model", "uptime", "address", "log"} : _signals(m)
  PROVE  LinkInv'
<1> USE DEF LinkInv, LinkTypes, ServerIsFixed, linkNode, sentinel, optimize
<1>1. CASE \E f \in BOOLEAN : link_optimize(f)
  <2>1. probe_identity \in [verdict : Probes, ssid : WifiNets \cup {Nothing}, enc : {"WPA2", "WPA3"}]
    BY DEF probe_identity, diagnose_identity, Probes, _enc_from_security
  <2> QED BY <1>1, <2>1 DEF link_optimize
<1>2. CASE \E f \in BOOLEAN : _write_profile(f)
  <2>1. PICK f \in BOOLEAN : _write_profile(f)
    BY <1>2
  <2>2. CASE profile' = profile
    BY <2>1, <2>2 DEF _write_profile
  <2>3. CASE profile' # profile
    <3>1. profile' = [ssid |-> net, enc |-> seen.enc] /\ net \in WifiNets
      BY <2>1, <2>3 DEF _write_profile
    <3> QED BY <2>1, <3>1 DEF _write_profile
  <2> QED BY <2>2, <2>3
<1>3. CASE \E m \in SUBSET {"model", "uptime", "address", "log"} : _signals(m)
  <2>1. PICK m : _signals(m)
    BY <1>3
  <2>2. klass' \in {"SERVER", "ROAMER", "UNKNOWN"}
    BY <2>1 DEF _signals, classify_node
  <2>3. klass' = "SERVER" => ~portable
    <3>1. CASE portable
      <4>1. _node_signals(m).is_portable
        BY <3>1 DEF _node_signals
      <4> QED BY <2>1, <4>1 DEF _signals, classify_node
    <3> QED BY <3>1
  <2> QED BY <2>1, <2>2, <2>3 DEF _signals
<1> QED BY <1>1, <1>2, <1>3

LEMMA LinkStep == LinkInv /\ [LinkNext]_linkVars => LinkInv'
<1> SUFFICES ASSUME LinkInv, [LinkNext]_linkVars PROVE LinkInv'
  OBVIOUS
<1>1. CASE UNCHANGED linkVars
  BY <1>1 DEF linkVars, LinkInv, LinkTypes, ServerIsFixed, linkNode, sentinel, optimize
<1>2. CASE LinkNext
  BY <1>2, SampleKeeps, WorldKeepsLink, OptimizeKeeps DEF LinkNext
<1> QED BY <1>1, <1>2

LEMMA UpTo ==
  ASSUME NEW n \in Nat, 1 <= n
  PROVE  IsFiniteSet(1..n) /\ Cardinality(1..n) = n
<1>1. 1 \in Int /\ n \in Int /\ ~(1 > n)
  OBVIOUS
<1>2. IsFiniteSet(1..n)
  BY <1>1, FS_Interval
<1>3. Cardinality(1..n) = n - 1 + 1
  BY <1>1, FS_Interval
<1> QED BY <1>2, <1>3

\* One window in which nothing came back outweighs the noise floor of the 98
\* others the log may hold.
LEMMA DeadIsRadio ==
  ASSUME log \in Seq(Line), Len(log) < 100, NEW i \in DOMAIN log, log[i].kind \in {"dead", "unread"}
  PROVE  classify(parse_log(log)) = "RADIO"
<1> DEFINE s == parse_log(log)
           D == {j \in DOMAIN s : s[j] \in {"dead", "unread"}}
           Y == {j \in DOMAIN s : s[j] \in {"stray"}}
           n == Cardinality(DOMAIN s)
<1>1. DOMAIN s = {j \in DOMAIN log : log[j].kind \notin {"NO_GATEWAY"}} /\ DOMAIN log = 1..Len(log)
      /\ Len(log) \in Nat
  BY DEF parse_log, Kept
<1>2. i \in DOMAIN s /\ s[i] \in {"dead", "unread"}
  BY DEF parse_log, Kept
<1> HIDE DEF s
<1>3. IsFiniteSet(DOMAIN log) /\ Cardinality(DOMAIN log) = Len(log)
  <2>1. 1 <= Len(log)
    BY <1>1
  <2> QED BY <1>1, <2>1, UpTo
<1>4. DOMAIN s \subseteq DOMAIN log
  BY <1>1
<1>5. IsFiniteSet(DOMAIN s) /\ n \in Nat /\ n <= Len(log)
  BY <1>3, <1>4, FS_Subset, FS_CardinalityType
<1>6. D \subseteq DOMAIN s /\ Y \subseteq DOMAIN s /\ i \in D
  BY <1>2
<1>7. Cardinality(D) \in Nat /\ Cardinality(Y) \in Nat /\ Cardinality(D) # 0
  <2>1. IsFiniteSet(D) /\ IsFiniteSet(Y)
    BY <1>5, <1>6, FS_Subset
  <2> QED BY <1>6, <2>1, FS_CardinalityType, FS_EmptySet
<1>8. n # 0
  BY <1>2, <1>5, FS_EmptySet
<1>9. Loss(s) = 100 * Cardinality(D) + 5 * Cardinality(Y)
  BY DEF Loss, Count
<1>10. n > 0 /\ Loss(s) > n
  BY <1>1, <1>5, <1>7, <1>8, <1>9
<1>11. ~(n = 0) /\ ~(n > 0 /\ Loss(s) <= n /\ 5 * Cardinality({j \in DOMAIN s : Degraded(s[j])}) < n)
  BY <1>5, <1>7, <1>8, <1>9, <1>10
<1>12. classify(s) = "RADIO"
  BY ONLY <1>10, <1>11 DEF classify
<1> QED BY <1>12 DEF s

\* Types: the log, what this run has read of the interface, and its profile.
\* (net/link.py, commands/link.py)
THEOREM LinkTyped == LinkSpec => []LinkTypeOK
<1>1. LinkInv => LinkTypeOK
  <2> SUFFICES ASSUME LinkInv PROVE LinkTypeOK
    OBVIOUS
  <2>1. \A i \in DOMAIN log : log[i].kind \in LineKinds
    <3>1. log \in Seq(Line)
      BY DEF LinkInv, LinkTypes
    <3>2. \A i \in DOMAIN log : log[i] \in Line
      BY <3>1
    <3> QED BY <3>2 DEF Line
  <2> QED BY <2>1 DEF LinkInv, LinkTypes, LinkTypeOK
<1> QED BY <1>1, LinkInitial, LinkStep, PTL DEF LinkSpec

\* A log with a window in which nothing came back is never called healthy, busy or
\* empty, whatever else it holds and however its lines fell out. (parse_log,
\* classify)
THEOREM DeadIsNeverHealthy == LinkSpec => []DeadLinkIsNeverHealthy
<1>1. LinkInv => DeadLinkIsNeverHealthy
  BY DeadIsRadio DEF LinkInv, LinkTypes, DeadLinkIsNeverHealthy
<1> QED BY <1>1, LinkInitial, LinkStep, PTL DEF LinkSpec

\* A portable node is pinned only by its owner's --force, whatever could be read
\* of its signals and whenever they changed. (link_optimize, classify_node)
THEOREM PortableAsked == LinkSpec => PortableIsAsked
<1>1. ASSUME LinkInv, [LinkNext]_linkVars
      PROVE  [profile' # profile => (ask \/ ~portable)]_linkVars
  <2> SUFFICES ASSUME LinkNext, profile' # profile PROVE ask \/ ~portable
    BY <1>1
  <2>1. PICK f \in BOOLEAN : _write_profile(f)
    BY DEF LinkNext, Join, Approve, link_status, _render_verify, Sample, link_install, link_optimize, _signals
  <2>2. Enrolls /\ opt = "wifi"
    BY <2>1 DEF _write_profile
  <2> QED BY <1>1, <2>2 DEF Enrolls, LinkInv, ServerIsFixed
<1> QED BY <1>1, LinkInitial, LinkStep, PTL DEF LinkSpec, PortableIsAsked

---------------------------------------------------------------------------
\* TailnetAcl: credentials and the policy.

TailnetSpec == TailnetInit /\ [][TailnetNext]_tailnetVars

\* A command under way holds the client it was proved with, and a pushed body is
\* one the server took for valid.
HeldIsProved ==
    /\ cmd # "idle" => held.token \in Clients
    /\ cmd \in {"backup", "push", "verify"} => held.body # "bad"

TailnetInv == TailnetTypeOK /\ HeldIsProved /\ PushIsValidated

LEMMA TailnetInitial == TailnetInit => TailnetInv
<1> SUFFICES ASSUME TailnetInit PROVE TailnetInv
  OBVIOUS
<1>1. held = [token |-> NoId, body |-> "bad", go |-> FALSE]
  BY DEF TailnetInit, AtRest
<1>2. held \in [token : Clients \cup {NoId}, body : Policies, go : BOOLEAN]
  BY <1>1, TailnetAssumption
<1>3. kc \in [id : Clients \cup {NoId}, secret : Clients \cup {NoId}]
  BY DEF TailnetInit
<1> QED BY <1>2, <1>3 DEF TailnetInit, TailnetInv, TailnetTypeOK, HeldIsProved, PushIsValidated

\* A validated body is a valid one.
LEMMA GrantedIsValid ==
  ASSUME NEW c, NEW scope, NEW body, 200 \in Codes(c, scope, body # "bad")
  PROVE  body # "bad"
<1> SUFFICES ASSUME body = "bad" PROVE FALSE
  OBVIOUS
<1>1. Code(c, scope, body # "bad") \in {403, 400}
  BY DEF Code
<1> QED BY <1>1 DEF Codes, Lost

\* A command that ends holds nothing.
LEMMA FailKeeps ==
  ASSUME TailnetInv, NEW why, Fail(why), row' \in BOOLEAN, live' \in Policies \ {"bad"},
         local' \in Policies, backup' \subseteq Policies,
         kc' \in [id : Clients \cup {NoId}, secret : Clients \cup {NoId}]
  PROVE  TailnetInv'
  BY TailnetAssumption DEF Fail, AtRest, TailnetInv, TailnetTypeOK, HeldIsProved, PushIsValidated

LEMMA TailnetWorld ==
  ASSUME TailnetInv, NEW p \in Policies, EditLive(p) \/ EditLocal(p)
  PROVE  TailnetInv'
<1> USE DEF TailnetInv, TailnetTypeOK, HeldIsProved, PushIsValidated, command, custody, acl
<1>1. CASE EditLive(p)
  BY <1>1 DEF EditLive
<1>2. CASE EditLocal(p)
  BY <1>2 DEF EditLocal
<1> QED BY <1>1, <1>2

\* apply: what is pushed was validated.
LEMMA ApplyKeeps ==
  ASSUME TailnetInv,
         \/ \E go \in BOOLEAN : tailnet_apply(go)
         \/ \E code : _validate(code) \/ _verify(code)
         \/ \E code, b : _back_up(code, b) \/ _push(b, code)
  PROVE  TailnetInv'
<1> USE TailnetAssumption DEF TailnetInv, TailnetTypeOK, HeldIsProved, PushIsValidated, command, custody, acl
<1>1. ASSUME NEW go \in BOOLEAN, tailnet_apply(go) PROVE TailnetInv'
  <2>1. CASE _resolve_token = NoId
    BY <1>1, <2>1, FailKeeps DEF tailnet_apply
  <2>2. CASE _resolve_token # NoId
    <3>1. _resolve_token \in Clients
      BY <2>2 DEF _resolve_token
    <3> QED BY <1>1, <2>2, <3>1 DEF tailnet_apply
  <2> QED BY <2>1, <2>2
<1>2. ASSUME NEW code, _validate(code) PROVE TailnetInv'
  <2>1. CASE code # 200 \/ ~held.go
    <3>1. \E why : Fail(why)
      BY <1>2, <2>1 DEF _validate
    <3> QED BY <1>2, <3>1, FailKeeps DEF _validate
  <2>2. CASE code = 200 /\ held.go
    <3>1. 200 \in Codes(held.token, "acl", held.body # "bad")
      BY <1>2, <2>2 DEF _validate
    <3>2. held.body # "bad"
      BY <3>1, GrantedIsValid
    <3> QED BY <1>2, <2>2, <3>2 DEF _validate
  <2> QED BY <2>1, <2>2
<1>3. ASSUME NEW code, _verify(code) PROVE TailnetInv'
  BY <1>3, FailKeeps DEF _verify
<1>4. ASSUME NEW code, NEW b, _back_up(code, b) PROVE TailnetInv'
  BY <1>4 DEF _back_up
<1>5. ASSUME NEW code, NEW b, _push(b, code) PROVE TailnetInv'
  <2>1. live' \in Policies \ {"bad"}
    BY <1>5 DEF _push
  <2>2. CASE code = 200
    BY <1>5, <2>1, <2>2 DEF _push
  <2>3. CASE code # 200
    BY <1>5, <2>1, <2>3, FailKeeps DEF _push
  <2> QED BY <2>2, <2>3
<1> QED BY <1>1, <1>2, <1>3, <1>4, <1>5

\* creds: what is stored is the client that was proved.
LEMMA CredsKeep ==
  ASSUME TailnetInv,
         \/ \E c \in Clients : tailnet_creds(c)
         \/ \E n, m : _scopes(n, m)
         \/ \E ok \in BOOLEAN : _store_creds(ok)
  PROVE  TailnetInv'
<1> USE TailnetAssumption DEF TailnetInv, TailnetTypeOK, HeldIsProved, PushIsValidated, command, custody, acl
<1>1. ASSUME NEW c \in Clients, tailnet_creds(c) PROVE TailnetInv'
  <2>1. CASE grants[c] = {}
    BY <1>1, <2>1, FailKeeps DEF tailnet_creds
  <2>2. CASE grants[c] # {}
    BY <1>1, <2>2 DEF tailnet_creds, AtRest
  <2> QED BY <2>1, <2>2
<1>2. ASSUME NEW n, NEW m, _scopes(n, m) PROVE TailnetInv'
  <2>1. CASE n = 200 /\ m = 200
    BY <1>2, <2>1 DEF _scopes
  <2>2. CASE ~(n = 200 /\ m = 200)
    BY <1>2, <2>2, FailKeeps DEF _scopes
  <2> QED BY <2>1, <2>2
<1>3. ASSUME NEW ok \in BOOLEAN, _store_creds(ok) PROVE TailnetInv'
  <2>1. row' \in BOOLEAN /\ UNCHANGED <<acl, grants, backup>>
    BY <1>3 DEF _store_creds
  <2>2. CASE cmd = "store id"
    <3>1. CASE ok
      BY <1>3, <2>1, <2>2, <3>1 DEF _store_creds
    <3>2. CASE ~ok
      BY <1>3, <2>1, <2>2, <3>2, FailKeeps DEF _store_creds
    <3> QED BY <3>1, <3>2
  <2>3. CASE cmd = "store secret"
    <3>1. kc' \in [id : Clients \cup {NoId}, secret : Clients \cup {NoId}]
      BY <1>3, <2>3 DEF _store_creds
    <3>2. \E why : Fail(why)
      BY <1>3, <2>3 DEF _store_creds
    <3> QED BY <2>1, <3>1, <3>2, FailKeeps
  <2> QED BY <1>3, <2>2, <2>3 DEF _store_creds
<1> QED BY <1>1, <1>2, <1>3

LEMMA TailnetStep == TailnetInv /\ [TailnetNext]_tailnetVars => TailnetInv'
<1> SUFFICES ASSUME TailnetInv, [TailnetNext]_tailnetVars PROVE TailnetInv'
  OBVIOUS
<1> USE DEF TailnetInv, TailnetTypeOK, HeldIsProved, PushIsValidated, command, custody, acl
<1>1. ASSUME NEW c, NEW s, Regrant(c, s) PROVE TailnetInv'
  BY <1>1 DEF Regrant
<1>2. ASSUME NEW u, NEW h, NEW n, tailnet_doctor(u, h, n) PROVE TailnetInv'
  BY <1>2 DEF tailnet_doctor
<1>3. ASSUME NEW a, NEW b, tailnet_ssh(a, b) PROVE TailnetInv'
  BY <1>3 DEF tailnet_ssh
<1>4. CASE UNCHANGED tailnetVars
  BY <1>4 DEF tailnetVars
<1> HIDE DEF TailnetInv, TailnetTypeOK, HeldIsProved, PushIsValidated, command, custody, acl
<1> QED BY <1>1, <1>2, <1>3, <1>4, TailnetWorld, ApplyKeeps, CredsKeep DEF TailnetNext

\* Types: the Keychain's credential, the policy the server holds, the client and
\* the body of the command under way. (commands/tailnet.py, net/tailnet.py)
THEOREM TailnetTypes == TailnetSpec => []TailnetTypeOK
<1>1. TailnetInv => TailnetTypeOK
  BY DEF TailnetInv
<1> QED BY TailnetInitial, TailnetStep, <1>1, PTL DEF TailnetSpec

\* What the server holds passed its validation, whatever was edited between the
\* validation and the push: the body is the one read once. (tailnet_apply)
THEOREM PushesAreValidated == TailnetSpec => []PushIsValidated
<1>1. TailnetInv => PushIsValidated
  BY DEF TailnetInv
<1> QED BY TailnetInitial, TailnetStep, <1>1, PTL DEF TailnetSpec


---------------------------------------------------------------------------
\* Parcel: receives.

ParcelSpec == ParcelInit /\ [][ParcelNext]_parcelVars

\* No two receives at work at once: the assumption under which the theorem holds.
OneAtATime == \A r, q \in Receivers : r = q

ParcelTypes ==
    /\ stage \in [Receivers -> {"idle", "next", "body", "rename", "saved", "failed"}]
    /\ ticket \in [Receivers -> [signed : Seq(Chunks), urls : 0..2]]
    /\ got \in [Receivers -> Seq(Chunks)]
    /\ handle \in [Receivers -> Nat] /\ partial \in {NoFile} \cup Inodes /\ saved \in {NoFile} \cup Inodes
    /\ opened \in Nat /\ pasted \in 0..MaxReceives /\ DOMAIN bytes = Inodes

\* There is a file number left for every address a receive may still open.
RoomOnDisk == \A r \in Receivers :
    opened + (IF stage[r] \in {"next", "body"} THEN ticket[r].urls ELSE 0) <= 2 * pasted

\* What a receive has summed is what the partial file holds.
SummedIsWritten == \A r \in Receivers :
    stage[r] \in {"body", "rename"} => partial # NoFile /\ bytes[partial] = got[r]
OpenIsPartial == \A r \in Receivers : stage[r] = "body" => handle[r] = partial
RenamedIsSigned == \A r \in Receivers : stage[r] = "rename" => got[r] = ticket[r].signed

ParcelInv == ParcelTypes /\ RoomOnDisk /\ SummedIsWritten /\ OpenIsPartial /\ RenamedIsSigned

---------------------------------------------------------------------------
LEMMA ParcelInitial == ParcelInit => ParcelInv
<1> SUFFICES ASSUME ParcelInit PROVE ParcelInv
  OBVIOUS
<1> USE ParcelAssumption DEF ParcelInit, NoFile
<1>1. <<>> \in Seq(Chunks) /\ [signed |-> <<>>, urls |-> 0] \in [signed : Seq(Chunks), urls : 0..2]
  OBVIOUS
<1>2. ParcelTypes
  BY <1>1 DEF ParcelTypes
<1>3. RoomOnDisk /\ SummedIsWritten /\ OpenIsPartial /\ RenamedIsSigned
  BY DEF RoomOnDisk, SummedIsWritten, OpenIsPartial, RenamedIsSigned
<1> QED BY <1>2, <1>3 DEF ParcelInv

\* A write at the end of a file appends.
LEMMA WrittenAtEnd ==
  ASSUME NEW file \in Seq(Chunks), NEW chunk \in Chunks
  PROVE  Written(file, Len(file), chunk) = Append(file, chunk)
<1> DEFINE long == [i \in 1..(Len(file) + 1) |-> IF i = Len(file) + 1 THEN chunk ELSE file[i]]
<1>1. Len(file) \in Nat /\ DOMAIN file = 1..Len(file) /\ \A i \in 1..Len(file) : file[i] \in Chunks
  BY LenProperties
<1>2. Written(file, Len(file), chunk) = long
  BY <1>1 DEF Written
<1>3. long \in [1..(Len(file) + 1) -> Chunks]
  BY <1>1
<1>4. long \in Seq(Chunks) /\ Len(long) = Len(file) + 1
  BY <1>1, <1>3
<1>5. \A i \in 1..Len(long) : long[i] = Append(file, chunk)[i]
  BY <1>1, <1>4, AppendProperties
<1>6. long = Append(file, chunk)
  <2> HIDE DEF long
  <2>1. Append(file, chunk) \in Seq(Chunks) /\ Len(Append(file, chunk)) = Len(file) + 1
    BY AppendProperties
  <2> QED BY <1>4, <1>5, <2>1, SeqEqual
<1> QED BY <1>2, <1>6

LEMMA TicketsTyped == Tickets \subseteq [signed : Seq(Chunks), urls : 1..2]
<1>1. <<"x">> \in Seq(Chunks) /\ <<"y", "y">> \in Seq(Chunks)
  BY DEF Chunks
<1> QED BY <1>1 DEF Tickets, Contents

LEMMA PasteKeeps ==
  ASSUME OneAtATime, ParcelInv, NEW r \in Receivers, NEW t \in Tickets, receive_parcel(r, t)
  PROVE  ParcelInv'
<1> USE ParcelAssumption, TicketsTyped DEF OneAtATime, ParcelInv, ParcelTypes
<1>1. t \in [signed : Seq(Chunks), urls : 0..2]
  OBVIOUS
<1>2. ParcelTypes'
  BY <1>1 DEF receive_parcel
<1>3. RoomOnDisk'
  BY <1>1 DEF receive_parcel, RoomOnDisk
<1>4. SummedIsWritten' /\ OpenIsPartial' /\ RenamedIsSigned'
  BY DEF receive_parcel, SummedIsWritten, OpenIsPartial, RenamedIsSigned
<1> QED BY <1>2, <1>3, <1>4

\* The next address: the partial file is empty, and so is what was summed.
LEMMA OpenKeeps ==
  ASSUME OneAtATime, ParcelInv, NEW r \in Receivers, _open(r)
  PROVE  ParcelInv'
<1> USE ParcelAssumption DEF OneAtATime, ParcelInv, ParcelTypes
<1>1. ticket[r].urls \in 1..2 /\ opened + ticket[r].urls <= 2 * pasted /\ pasted \in 0..MaxReceives
  BY DEF _open, RoomOnDisk
<1>2. opened' \in {opened, opened + 1} /\ opened' \in Nat /\ partial' \in Inodes
  BY <1>1 DEF _open, Inodes, NoFile
<1>3. ticket' = [ticket EXCEPT ![r].urls = @ - 1] /\ ticket' \in [Receivers -> [signed : Seq(Chunks), urls : 0..2]]
  <2>1. ticket' = [ticket EXCEPT ![r].urls = @ - 1] BY DEF _open
  <2>2. ticket[r].urls - 1 \in 0..2 BY <1>1
  <2> QED BY ONLY <2>1, <2>2, ticket \in [Receivers -> [signed : Seq(Chunks), urls : 0..2]], r \in Receivers
<1>4. /\ stage' = [stage EXCEPT ![r] = "body"] /\ got' = [got EXCEPT ![r] = <<>>]
      /\ handle' = [handle EXCEPT ![r] = partial'] /\ bytes' = [bytes EXCEPT ![partial'] = <<>>]
      /\ UNCHANGED <<saved, pasted>>
  BY DEF _open
<1>5. ParcelTypes'
  BY <1>2, <1>3, <1>4 DEF Inodes
<1>6. RoomOnDisk'
  BY <1>1, <1>2, <1>3, <1>4 DEF RoomOnDisk
<1>7. SummedIsWritten' /\ OpenIsPartial' /\ RenamedIsSigned'
  BY <1>2, <1>4 DEF SummedIsWritten, OpenIsPartial, RenamedIsSigned, Inodes, NoFile
<1> QED BY <1>5, <1>6, <1>7

\* A chunk: written where the partial file ends.
LEMMA ChunkKeeps ==
  ASSUME OneAtATime, ParcelInv, NEW r \in Receivers, NEW chunk \in Chunks, _chunk(r, chunk)
  PROVE  ParcelInv'
<1> USE DEF OneAtATime, ParcelInv, ParcelTypes
<1>1. stage[r] = "body" /\ UNCHANGED <<ticket, partial, saved, opened, pasted>>
  BY DEF _chunk
<1>2. CASE Len(got[r]) = Len(ticket[r].signed)
  <2>1. /\ stage' = [stage EXCEPT ![r] = "next"] /\ handle' = [handle EXCEPT ![r] = NoFile]
        /\ UNCHANGED <<got, bytes>>
    BY <1>2 DEF _chunk
  <2> QED BY <1>1, <2>1 DEF RoomOnDisk, SummedIsWritten, OpenIsPartial, RenamedIsSigned, NoFile
<1>3. CASE Len(got[r]) # Len(ticket[r].signed)
  <2>1. /\ got' = [got EXCEPT ![r] = Append(@, chunk)]
        /\ bytes' = [bytes EXCEPT ![handle[r]] = Written(@, Len(got[r]), chunk)]
        /\ UNCHANGED <<stage, handle>>
    BY <1>3 DEF _chunk
  <2>2. handle[r] = partial /\ partial \in Inodes /\ bytes[partial] = got[r]
    BY <1>1 DEF OpenIsPartial, SummedIsWritten
  <2>3. bytes'[partial] = Append(got[r], chunk)
    BY <2>1, <2>2, WrittenAtEnd
  <2>4. ParcelTypes'
    <3>1. Append(got[r], chunk) \in Seq(Chunks)
      OBVIOUS
    <3> QED BY <1>1, <2>1, <3>1
  <2>5. RoomOnDisk' /\ OpenIsPartial' /\ RenamedIsSigned'
    BY <1>1, <2>1 DEF RoomOnDisk, OpenIsPartial, RenamedIsSigned
  <2>6. SummedIsWritten'
    BY <1>1, <2>1, <2>2, <2>3 DEF SummedIsWritten
  <2> QED BY <2>4, <2>5, <2>6
<1> QED BY <1>2, <1>3

LEMMA OthersKeep ==
  ASSUME OneAtATime, ParcelInv, NEW r \in Receivers,
         \/ _refused(r) \/ _replace(r) \/ Stop(r) \/ MoveAside
         \/ \E broken \in BOOLEAN : _fetch_ends(r, broken)
  PROVE  ParcelInv'
<1> USE ParcelAssumption DEF OneAtATime, ParcelInv, ParcelTypes
<1> USE DEF RoomOnDisk, SummedIsWritten, OpenIsPartial, RenamedIsSigned, NoFile
<1>1. CASE _refused(r)
  <2>1. CASE ticket[r].urls > 0
    <3>1. ticket' = [ticket EXCEPT ![r].urls = @ - 1] /\ stage[r] = "next"
          /\ UNCHANGED <<stage, handle, got, bytes, partial, saved, opened, pasted>>
      BY <1>1, <2>1 DEF _refused
    <3>2. ticket' \in [Receivers -> [signed : Seq(Chunks), urls : 0..2]]
      BY <2>1, <3>1
    <3>3. RoomOnDisk'
      BY <2>1, <3>1
    <3> QED BY <3>1, <3>2, <3>3
  <2>2. CASE ~(ticket[r].urls > 0)
    BY <1>1, <2>2 DEF _refused
  <2> QED BY <2>1, <2>2
<1>2. CASE _replace(r)
  <2>1. ParcelTypes'
    <3>1. UNCHANGED <<ticket, handle, got, bytes, opened, pasted>> /\ partial' = NoFile
      BY <1>2 DEF _replace
    <3>2. stage' \in [Receivers -> {"idle", "next", "body", "rename", "saved", "failed"}]
      BY <1>2 DEF _replace
    <3>3. saved' \in {NoFile} \cup Inodes
      BY <1>2 DEF _replace
    <3> QED BY <3>1, <3>2, <3>3
  <2>2. RoomOnDisk' BY <1>2 DEF _replace
  <2>3. SummedIsWritten' /\ OpenIsPartial' /\ RenamedIsSigned' BY <1>2 DEF _replace
  <2> QED BY <2>1, <2>2, <2>3
<1>3. CASE Stop(r)
  <2>1. ParcelTypes' BY <1>3 DEF Stop
  <2>2. RoomOnDisk'
    <3>1. /\ stage' = [stage EXCEPT ![r] = "failed"]
          /\ UNCHANGED <<ticket, opened, pasted>>
      BY <1>3 DEF Stop
    <3> QED BY <3>1
  <2>3. SummedIsWritten' /\ OpenIsPartial' /\ RenamedIsSigned' BY <1>3 DEF Stop
  <2> QED BY <2>1, <2>2, <2>3
<1>4. CASE MoveAside
  BY <1>4 DEF MoveAside
<1>5. ASSUME NEW broken \in BOOLEAN, _fetch_ends(r, broken) PROVE ParcelInv'
  <2>1. ParcelTypes' BY <1>5 DEF _fetch_ends
  <2>2. RoomOnDisk' BY <1>5 DEF _fetch_ends
  <2>3. SummedIsWritten' /\ OpenIsPartial' /\ RenamedIsSigned' BY <1>5 DEF _fetch_ends
  <2> QED BY <2>1, <2>2, <2>3
<1> QED BY <1>1, <1>2, <1>3, <1>4, <1>5

LEMMA ParcelStep == OneAtATime /\ ParcelInv /\ [ParcelNext]_parcelVars => ParcelInv'
<1> SUFFICES ASSUME OneAtATime, ParcelInv, [ParcelNext]_parcelVars PROVE ParcelInv'
  OBVIOUS
<1>1. CASE UNCHANGED parcelVars
  BY <1>1 DEF parcelVars, ParcelInv, ParcelTypes, RoomOnDisk, SummedIsWritten, OpenIsPartial, RenamedIsSigned
<1>2. CASE MoveAside
  BY <1>2 DEF MoveAside, ParcelInv, ParcelTypes, RoomOnDisk, SummedIsWritten, OpenIsPartial, RenamedIsSigned, NoFile
<1> QED BY <1>1, <1>2, PasteKeeps, OpenKeeps, ChunkKeeps, OthersKeep DEF ParcelNext

\* One receive at a time saves the bytes that were signed: whatever an address
\* serves, and whatever earlier fetches left in the partial file, past the signed
\* size or interrupted. (receive_parcel, _fetch)
THEOREM SavedAsSigned == OneAtATime /\ ParcelSpec => SavedIsSigned
<1> SUFFICES ASSUME OneAtATime PROVE ParcelSpec => SavedIsSigned
  OBVIOUS
<1>1. ASSUME ParcelInv, [ParcelNext]_parcelVars
      PROVE  [\A r \in Receivers : stage[r] = "rename" /\ stage'[r] = "saved" =>
                 bytes'[saved'] = ticket[r].signed]_parcelVars
  <2> SUFFICES ASSUME ParcelNext, NEW r \in Receivers, stage[r] = "rename", stage'[r] = "saved"
               PROVE  bytes'[saved'] = ticket[r].signed
    BY <1>1
  <2>1. _replace(r)
    BY <1>1 DEF OneAtATime, ParcelInv, ParcelTypes, ParcelNext, MoveAside, _open, _refused, Stop, receive_parcel, _chunk,
                _fetch_ends
  <2>2. saved' = partial /\ bytes' = bytes
    BY <1>1, <2>1 DEF _replace, ParcelInv, ParcelTypes
  <2>3. bytes[partial] = got[r] /\ got[r] = ticket[r].signed
    BY <1>1 DEF ParcelInv, SummedIsWritten, RenamedIsSigned
  <2> QED BY <2>2, <2>3
<1> QED BY ParcelInitial, ParcelStep, <1>1, PTL DEF ParcelSpec, SavedIsSigned
==============================================================================
