-------------------------------- MODULE Mesh --------------------------------
(***************************************************************************)
(* One machine on the mesh: the mesh commands its operator runs from any   *)
(* number of terminals (commands/mesh.py), over the machine's own files    *)
(* (the identity, instance.yaml, the artifact store), its sandbox VM, and  *)
(* the tracker that other nodes talk to as well.  A request may fail, be answered, or be    *)
(* carried out although its sender has given up on the answer, at once or  *)
(* later.  The tracker may restart and then knows nothing.  A process may  *)
(* die between any two steps.                                              *)
(***************************************************************************)
EXTENDS TrackerRegistry

CONSTANTS Terminals, OwnKey, Peer,  \* keys this machine may mint; other nodes' keys
          Here,                     \* this machine's tailnet address
          Skew, ClockError,         \* the freshness window; how far off a node's clock is
          MaxClock, MaxCommands, MaxOthers

ASSUME KeyAssumption == OwnKey \subseteq Key /\ Peer \subseteq Key /\ OwnKey \cap Peer = {}
ASSUME AddrAssumption == Here \in Addr
ASSUME ClockAssumption == Skew \in Nat /\ ClockError \subseteq Int /\ MaxClock \in Nat
ASSUME BoundAssumption == MaxCommands \in Nat /\ MaxOthers \in Nat

VARIABLES
    \* the tracker
    clock,      \* its clock
    registry,   \* its memory
    late,       \* requests their senders gave up on, still to be carried out
    challenges, \* community challenges signed so far, by anyone
    \* the machine
    identity,   \* identity.json: absent, truncated, or a key
    conf,       \* instance.yaml
    vm,         \* the champion in the sandbox VM's one directory
    \* the commands
    pc, cmd, loc,
    commands,   \* commands started so far
    others,     \* requests made by other nodes so far
    \* what can be observed
    heard,      \* manifests the tracker has stored since it started
    acked,      \* this machine's requests it has acknowledged since then
    vended,     \* the challenge the last invite was given for
    cleared     \* hashes that went through all the gates of one pull

remote == <<clock, registry, late, challenges, heard, acked, vended, others>>
machine == <<identity, conf, vm, cleared>>
vars == <<clock, registry, late, challenges, identity, conf, vm, pc, cmd, loc,
          commands, others, heard, acked, vended, cleared>>

Bytes == {"absent", "good", "bad"}
Challenge == [key : Key, ts : Int]
Request == [op : {"register"}, key : Key, addr : Addr]
             \cup [op : {"announce"}, manifest : Manifest, addr : Addr]
Conf == [rest : BOOLEAN, champion : Hash \cup {"none"}, label : BOOLEAN]

\* What yaml.safe_load(...) or {} makes of a file that is missing, empty or broken.
EmptyConf == [rest |-> FALSE, champion |-> "none", label |-> FALSE]

GateName == {"hash", "signature", "eval", "sandbox"}

\* A command's locals: the identity it loaded, the hash it pulls or seeds,
\* whether the manifest it found is signed, the gates its pull has passed, the
\* settings it has read, the challenge's time, and the contributor hint.
Local == [key : OwnKey \cup {"none"}, hash : Hash \cup {"none"}, signed : BOOLEAN,
          passed : SUBSET GateName, raw : Conf, ts : Int, hint : BOOLEAN]
Blank == [key |-> "none", hash |-> "none", signed |-> FALSE, passed |-> {},
          raw |-> EmptyConf, ts |-> 0, hint |-> FALSE]

Command == {"join", "tribe", "status", "seed", "pull", "community"}
Step == {"idle", "ensure", "mint", "mint_write", "register", "peers", "catalog",
         "status_catalog", "status_peers", "gate", "announce", "find", "hash",
         "signature", "eval", "sandbox", "probe", "promote", "read", "truncate", "write",
         "sign", "ask"}

TypeOK ==
    /\ clock \in Nat
    /\ registry \in Registry
    /\ WellFormed(registry)
    /\ late \subseteq Request
    /\ challenges \subseteq Challenge
    /\ identity \in OwnKey \cup {"absent", "truncated"}
    /\ conf \in Conf
    /\ vm \in Hash \cup {"none"}
    /\ pc \in [Terminals -> Step]
    /\ cmd \in [Terminals -> Command \cup {"none"}]
    /\ loc \in [Terminals -> Local]
    /\ commands \in 0..MaxCommands
    /\ others \in 0..MaxOthers
    /\ heard \subseteq Manifest
    /\ acked \subseteq Request
    /\ vended \subseteq Challenge
    /\ cleared \subseteq Hash

Init ==
    /\ clock = 0
    /\ \E invite \in BOOLEAN : registry = EmptyRegistry(invite)
    /\ late = {} /\ challenges = {} /\ heard = {} /\ acked = {}
    /\ identity = "absent"
    /\ conf = [EmptyConf EXCEPT !.rest = TRUE]
    /\ vm = "none"
    /\ pc = [t \in Terminals |-> "idle"]
    /\ cmd = [t \in Terminals |-> "none"]
    /\ loc = [t \in Terminals |-> Blank]
    /\ commands = 0 /\ others = 0
    /\ vended = {} /\ cleared = {}

-----------------------------------------------------------------------------
(* The tracker.                                                            *)

Carry(r) ==
    IF r.op = "register"
    THEN registry' = Register(registry, r.key, r.addr) /\ UNCHANGED heard
    ELSE /\ registry' = Announce(registry, r.manifest, r.addr)
         /\ heard' = heard \cup {r.manifest}

\* The tracker answers the holder of a challenge, or whoever replays it.
Answer(c) ==
    /\ vended' = IF Community(registry, c.key, TRUE, ChallengeIsStale(c.ts, clock, Skew)) = "ok"
                 THEN {c} ELSE vended
    /\ UNCHANGED <<clock, registry, late, heard, acked>>

\* A request its sender gave up on is carried out after all.
LateArrives ==
    /\ \E r \in late : Carry(r) /\ late' = late \ {r}
    /\ UNCHANGED <<clock, challenges, acked, vended, others, machine, pc, cmd, loc, commands>>

\* The registry lives in memory: a restarted tracker is empty, and what was
\* on its way to the old one is gone.
Restart ==
    /\ registry # EmptyRegistry(registry.signal_invite)
    /\ registry' = EmptyRegistry(registry.signal_invite)
    /\ late' = {} /\ heard' = {} /\ acked' = {}
    /\ UNCHANGED <<clock, challenges, vended, others, machine, pc, cmd, loc, commands>>

Tick ==
    /\ clock < MaxClock
    /\ clock' = clock + 1
    /\ UNCHANGED <<registry, late, challenges, heard, acked, vended, others, machine,
                   pc, cmd, loc, commands>>

\* The keys another node can have heard of.
Known == Peer \cup {registry.identities[a] : a \in DOMAIN registry.identities}
              \cup {registry.catalog[h].producer_pubkey : h \in DOMAIN registry.catalog}

\* Another node registers, announces (a champion of its own, or a manifest
\* that does not verify, naming anyone as its producer), or asks.
OtherNode ==
    /\ others < MaxOthers
    /\ others' = others + 1
    /\ \E k \in Peer, a \in Addr \ {Here} :
         \/ Carry([op |-> "register", key |-> k, addr |-> a]) /\ UNCHANGED <<challenges, vended>>
         \/ /\ \E m \in Manifest :
                 /\ IF m.signed THEN m.producer_pubkey = k ELSE m.producer_pubkey \in Known
                 /\ Carry([op |-> "announce", manifest |-> m, addr |-> a])
            /\ UNCHANGED <<challenges, vended>>
         \/ /\ \E e \in ClockError : challenges' = challenges \cup {[key |-> k, ts |-> clock + e]}
            /\ UNCHANGED <<registry, heard, vended>>
    /\ UNCHANGED <<clock, late, acked, machine, pc, cmd, loc, commands>>

\* A challenge reaches the tracker late, or again.
Replay ==
    /\ \E c \in challenges : Answer(c)
    /\ UNCHANGED <<challenges, others, machine, pc, cmd, loc, commands>>

-----------------------------------------------------------------------------
(* Steps of a command.                                                     *)

Goto(t, step) == pc' = [pc EXCEPT ![t] = step]
Keep(t, l) == loc' = [loc EXCEPT ![t] = l]
End(t) ==
    /\ pc' = [pc EXCEPT ![t] = "idle"]
    /\ cmd' = [cmd EXCEPT ![t] = "none"]
    /\ loc' = [loc EXCEPT ![t] = Blank]
Continue == UNCHANGED cmd

\* A request r: answered, in which case the sender does Then; or failed with
\* its sender none the wiser, carried out or not, and then Else.
Send(r, Then, Else) ==
    /\ \/ Carry(r) /\ acked' = acked \cup {r} /\ late' = late /\ Then
       \/ Carry(r) /\ UNCHANGED <<acked, late>> /\ Else
       \/ late' = late \cup {r} /\ UNCHANGED <<registry, heard, acked>> /\ Else
       \/ UNCHANGED <<registry, heard, acked, late>> /\ Else
    /\ UNCHANGED <<clock, challenges, vended, others>>

\* A question: answered by the tracker, or failed.
Query(Then, Else) ==
    /\ Then \/ Else
    /\ UNCHANGED remote

\* The command starts.  pull resolves its seams and asks the tracker; a tribe
\* join is refused on a haus node or when tailscale up fails; status loads the
\* identity only when there is one.
Begin(t) ==
    /\ pc[t] = "idle"
    /\ commands < MaxCommands
    /\ commands' = commands + 1
    /\ \E c \in Command, h \in Hash :
         /\ cmd' = [cmd EXCEPT ![t] = c]
         /\ Goto(t, IF c = "pull" THEN "find"
                    ELSE IF c = "status" /\ identity = "absent" THEN "status_catalog"
                    ELSE "ensure")
         /\ Keep(t, IF c \in {"pull", "seed"} THEN [Blank EXCEPT !.hash = h] ELSE Blank)
    /\ UNCHANGED <<remote, machine>>

\* A tribe join that never gets to its identity.
TribeRefused(t) ==
    /\ pc[t] = "ensure" /\ cmd[t] = "tribe"
    /\ End(t)
    /\ UNCHANGED <<remote, machine, commands>>

\* After the identity: join registers when the tailnet is up and the node has
\* an address, and goes on to save its label when not.
AfterEnsure(t) ==
    \/ cmd[t] \in {"join", "tribe"} /\ (Goto(t, "register") \/ Goto(t, "read"))
    \/ cmd[t] = "status" /\ Goto(t, "status_catalog")
    \/ cmd[t] = "seed" /\ Goto(t, "gate")
    \/ cmd[t] = "community" /\ Goto(t, "sign")

\* MeshIdentityStore.ensure: load the identity, or go and mint one.  A file
\* caught between its truncation and its write does not parse.
Ensure(t) ==
    /\ pc[t] = "ensure"
    /\ \/ identity \in OwnKey /\ AfterEnsure(t) /\ Keep(t, [loc[t] EXCEPT !.key = identity]) /\ Continue
       \/ identity = "absent" /\ Goto(t, "mint") /\ Continue /\ UNCHANGED loc
       \/ identity = "truncated" /\ End(t)
    /\ UNCHANGED <<remote, machine, commands>>

\* A new keypair, and the file opened for it with O_TRUNC.
Mint(t) ==
    /\ pc[t] = "mint"
    /\ \E k \in OwnKey \ {loc[u].key : u \in Terminals} : Keep(t, [loc[t] EXCEPT !.key = k])
    /\ identity' = "truncated"
    /\ Goto(t, "mint_write") /\ Continue
    /\ UNCHANGED <<remote, conf, vm, cleared, commands>>

MintWrite(t) ==
    /\ pc[t] = "mint_write"
    /\ identity' = loc[t].key
    /\ AfterEnsure(t) /\ Continue
    /\ UNCHANGED <<remote, conf, vm, cleared, loc, commands>>

\* A tracker that fails a join: a plain join fails with it, a tribe join goes
\* on unregistered.
JoinFails(t) ==
    \/ cmd[t] = "join" /\ End(t)
    \/ cmd[t] = "tribe" /\ Goto(t, "read") /\ Continue /\ UNCHANGED loc

JoinRegister(t) ==
    /\ pc[t] = "register"
    /\ Send([op |-> "register", key |-> loc[t].key, addr |-> Here],
            Goto(t, "peers") /\ Continue /\ UNCHANGED loc,
            JoinFails(t))
    /\ UNCHANGED <<machine, commands>>

JoinPeers(t) ==
    /\ pc[t] = "peers"
    /\ Query(Goto(t, "catalog") /\ Continue /\ UNCHANGED loc, JoinFails(t))
    /\ UNCHANGED <<machine, commands>>

JoinCatalog(t) ==
    /\ pc[t] = "catalog"
    /\ Query(Goto(t, "read") /\ Continue /\ UNCHANGED loc, JoinFails(t))
    /\ UNCHANGED <<machine, commands>>

\* The contributor hint: this node's key is a producer in the live catalog.
Hint(key) == \E h \in DOMAIN registry.catalog : registry.catalog[h].producer_pubkey = key

StatusCatalog(t) ==
    /\ pc[t] = "status_catalog"
    /\ Query(/\ Keep(t, [loc[t] EXCEPT !.hint = Hint(loc[t].key)])
             /\ Goto(t, "status_peers") /\ Continue,
             End(t))
    /\ UNCHANGED <<machine, commands>>

StatusPeers(t) ==
    /\ pc[t] = "status_peers"
    /\ Query(End(t), End(t))
    /\ UNCHANGED <<machine, commands>>

\* seed: bad scores, no address, a champion below the baseline, or on to the
\* manifest and its announcement.
SeedGate(t) ==
    /\ pc[t] = "gate"
    /\ \/ End(t)
       \/ Goto(t, "announce") /\ Continue /\ UNCHANGED loc
    /\ UNCHANGED <<remote, machine, commands>>

OwnManifest(t) == [content_hash |-> loc[t].hash, producer_pubkey |-> loc[t].key, signed |-> TRUE]

SeedAnnounce(t) ==
    /\ pc[t] = "announce"
    /\ Send([op |-> "announce", manifest |-> OwnManifest(t), addr |-> Here],
            End(t), End(t))
    /\ UNCHANGED <<machine, commands>>

\* community: sign a challenge at this machine's time, then ask.
CommunitySign(t) ==
    /\ pc[t] = "sign"
    /\ \E e \in ClockError :
         /\ challenges' = challenges \cup {[key |-> loc[t].key, ts |-> clock + e]}
         /\ Keep(t, [loc[t] EXCEPT !.ts = clock + e])
    /\ Goto(t, "ask") /\ Continue
    /\ UNCHANGED <<clock, registry, late, heard, acked, vended, others, machine, commands>>

CommunityAsk(t) ==
    /\ pc[t] = "ask"
    /\ \/ Answer([key |-> loc[t].key, ts |-> loc[t].ts])
       \/ UNCHANGED <<clock, registry, late, heard, acked, vended>>
    /\ End(t)
    /\ UNCHANGED <<challenges, others, machine, commands>>

-----------------------------------------------------------------------------
(* pull: find, then the gates in their order, then the pointer.  The bytes *)
(* in the artifact store may change at any time: each look at them sees    *)
(* anything.                                                               *)

Find(t) ==
    /\ pc[t] = "find"
    /\ Query(\/ /\ loc[t].hash \in DOMAIN registry.catalog
                /\ Keep(t, [loc[t] EXCEPT !.signed = registry.catalog[loc[t].hash].signed])
                /\ Goto(t, "hash") /\ Continue
             \/ loc[t].hash \notin DOMAIN registry.catalog /\ End(t),
             End(t))
    /\ UNCHANGED <<machine, commands>>

VerifyHash(bytes) == bytes = "good"
VerifySignature(signed) == signed
BeatsBaseline(beats) == beats
SilenceSuffices(probe) == ~probe.egress_attempted    \* (mutant) a probe that never completed
SandboxClears(probe) == probe.completed /\ ~probe.egress_attempted

\* A step at which the pull decides a gate: decision is what the code makes of
\* what it saw, fact whether it holds.
Gate(t, step, gate, next, decision, fact) ==
    /\ pc[t] = step
    /\ IF decision
       THEN /\ Goto(t, next) /\ Continue
            /\ Keep(t, [loc[t] EXCEPT !.passed = IF fact THEN @ \cup {gate} ELSE @])
       ELSE End(t)

HashGate(t) ==
    /\ \E bytes \in Bytes : Gate(t, "hash", "hash", "signature", VerifyHash(bytes), bytes = "good")
    /\ UNCHANGED <<remote, machine, commands>>

SignatureGate(t) ==
    /\ Gate(t, "signature", "signature", "eval", VerifySignature(loc[t].signed), loc[t].signed)
    /\ UNCHANGED <<remote, machine, commands>>

\* The eval harness scores the champion, or fails.
EvalGate(t) ==
    /\ \/ \E beats \in BOOLEAN : Gate(t, "eval", "eval", "sandbox", BeatsBaseline(beats), beats)
       \/ pc[t] = "eval" /\ End(t)
    /\ UNCHANGED <<remote, machine, commands>>

\* vm_airgap_runner: rsync --delete makes the VM's directory a copy of the
\* champion, or fails.
Ship(t) ==
    /\ pc[t] = "sandbox"
    /\ vm' \in {vm, loc[t].hash}
    /\ \/ vm' = loc[t].hash /\ Goto(t, "probe") /\ Continue /\ UNCHANGED loc
       \/ End(t)
    /\ UNCHANGED <<remote, identity, conf, cleared, commands>>

\* The probe over that directory reports, or cannot be run.
SandboxGate(t) ==
    /\ \/ \E probe \in [completed : BOOLEAN, egress_attempted : BOOLEAN] :
            Gate(t, "probe", "sandbox", "promote", SandboxClears(probe),
                 probe.completed /\ ~probe.egress_attempted)
       \/ pc[t] = "probe" /\ End(t)
    /\ UNCHANGED <<remote, machine, commands>>

\* make_promote: the bytes must still be there; then the pointer is recorded.
Promote(t) ==
    /\ pc[t] = "promote"
    /\ \/ End(t) /\ UNCHANGED cleared
       \/ /\ Goto(t, "read") /\ Continue /\ UNCHANGED loc
          /\ cleared' = IF loc[t].passed = GateName
                        THEN cleared \cup {loc[t].hash} ELSE cleared
    /\ UNCHANGED <<remote, identity, conf, vm, commands>>

-----------------------------------------------------------------------------
(* _record_champion and _persist_mesh_config: instance.yaml is read, and   *)
(* written anew with the mesh block changed.  A file that cannot be read   *)
(* or parsed counts as empty; a write that fails is not reported.          *)

Updated(t, raw) ==
    IF cmd[t] = "pull" THEN [raw EXCEPT !.champion = loc[t].hash] ELSE [raw EXCEPT !.label = TRUE]

ReadConf(t) ==
    /\ pc[t] = "read"
    /\ \E raw \in {conf, EmptyConf} : Keep(t, [loc[t] EXCEPT !.raw = raw])
    /\ Goto(t, "truncate") /\ Continue
    /\ UNCHANGED <<remote, machine, commands>>

TruncateConf(t) ==
    /\ pc[t] = "truncate"
    /\ \/ conf' = EmptyConf /\ Goto(t, "write") /\ Continue /\ UNCHANGED loc
       \/ End(t) /\ UNCHANGED conf
    /\ UNCHANGED <<remote, identity, vm, cleared, commands>>

WriteConf(t) ==
    /\ pc[t] = "write"
    /\ conf' = Updated(t, loc[t].raw) \/ UNCHANGED conf
    /\ End(t)
    /\ UNCHANGED <<remote, identity, vm, cleared, commands>>

Crash(t) ==
    /\ pc[t] # "idle"
    /\ End(t)
    /\ UNCHANGED <<remote, machine, commands>>

Process(t) ==
    \/ TribeRefused(t) \/ Ensure(t) \/ Mint(t) \/ MintWrite(t)
    \/ JoinRegister(t) \/ JoinPeers(t) \/ JoinCatalog(t)
    \/ StatusCatalog(t) \/ StatusPeers(t) \/ SeedGate(t) \/ SeedAnnounce(t)
    \/ CommunitySign(t) \/ CommunityAsk(t)
    \/ Find(t) \/ HashGate(t) \/ SignatureGate(t) \/ EvalGate(t)
    \/ Ship(t) \/ SandboxGate(t) \/ Promote(t) \/ ReadConf(t) \/ TruncateConf(t) \/ WriteConf(t)

Next ==
    \/ LateArrives \/ Restart \/ Tick \/ OtherNode \/ Replay
    \/ \E t \in Terminals : Begin(t) \/ Process(t) \/ Crash(t)

Spec == Init /\ [][Next]_vars

-----------------------------------------------------------------------------
(* Properties.                                                             *)

\* Exactly the keys that signed a manifest this tracker has stored are
\* contributors: an unsigned manifest earns nothing, whoever it names, and
\* credit outlives the manifest, which others may replace (announce).
CreditIsEarned ==
    registry.seeded_pubkeys = {m.producer_pubkey : m \in {x \in heard : x.signed}}

\* What the tracker has acknowledged to this machine stands until it
\* restarts, whatever other nodes announce since and whichever abandoned
\* request arrives late: the machine is a peer, and its champion can be
\* found, with this machine among its seeders and its key credited.
AcknowledgedStands ==
    \A r \in acked :
        /\ Here \in registry.peers
        /\ r.op = "announce" =>
              /\ r.manifest.content_hash \in DOMAIN registry.catalog
              /\ Here \in registry.seeders[r.manifest.content_hash]
              /\ HasSeeded(registry, r.manifest.producer_pubkey)

\* A refusal tells a caller nothing it has not proved a right to
\* (community's reveal-nothing order): whether a community exists shows only
\* to a contributor, and an unproven caller learns nothing of the registry.
RefusalRevealsNothing ==
    \A key \in Key, proved, stale \in BOOLEAN :
        LET answer(reg) == Community(reg, key, proved, stale)
        IN  /\ ~(proved /\ ~stale /\ HasSeeded(registry, key))
                 => answer(registry) = answer([registry EXCEPT !.signal_invite = ~@])
            /\ ~proved => answer(registry) = answer(EmptyRegistry(FALSE))

\* An invite is given only for a challenge its key's holder has signed within
\* the window of the tracker's clock, replayed or not, and only to a key that
\* has signed a champion the tracker has stored since it started.
InviteIsEarned ==
    [][\A c \in vended' \ vended :
          /\ c \in challenges
          /\ c.ts - clock \in -Skew..Skew
          /\ \E m \in heard : m.signed /\ m.producer_pubkey = c.key]_vars

\* The local champion is authoritative: whatever the mix of pulls, joins,
\* crashes and stale rewrites of instance.yaml, it only ever names a hash that
\* went through every gate of one pull (adopt).
ChampionWasGated == conf.champion # "none" => conf.champion \in cleared

\* commands/mesh.py:384-386 says the contributor hint of status "mirrors the
\* tracker's has_seeded gate".
HintMirrorsGate ==
    [][\A t \in Terminals :
          pc[t] = "status_catalog" /\ pc'[t] = "status_peers"
              => loc'[t].hint = HasSeeded(registry, loc[t].key)]_vars

\* commands/mesh.py:522 says of recording a champion, and 549-550 of a
\* join, that only the mesh block of instance.yaml is touched.
OnlyMeshBlockTouched ==
    [][\A t \in Terminals : pc[t] = "write" /\ conf' # conf => conf'.rest]_vars

\* mesh/verify.py:15-16 says the sandbox gate shows that "the adapter" is
\* well-behaved: what was probed is the champion being pulled.
ProbedWhatItPulls ==
    [][\A t \in Terminals : pc[t] = "probe" /\ pc'[t] = "promote" => vm = loc[t].hash]_vars

=============================================================================
