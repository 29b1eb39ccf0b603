----------------------------- MODULE MeshProofs -----------------------------
(***************************************************************************)
(* Theorems of Mesh, for any number of terminals, nodes, hashes and        *)
(* commands.  Each is an invariant of Inv, proved inductive below.         *)
(***************************************************************************)
EXTENDS Mesh, TLAPS

-----------------------------------------------------------------------------
(* The inductive invariant.                                                *)

\* What a command at step s knows: which command it is, what it has loaded
\* and passed so far, and that it will only write back a champion that was
\* cleared.
LocalOK(s, c, l, cl, ch) ==
    /\ s \in {"register", "peers", "catalog"} => c \in {"join", "tribe"}
    /\ s \in {"gate", "announce"} => c = "seed"
    /\ s \in {"find", "hash", "signature", "eval", "sandbox", "probe", "promote"} => c = "pull"
    /\ s \in {"ensure", "mint", "mint_write"} => c # "pull"
    /\ c \in {"pull", "seed"} => l.hash \in Hash
    /\ s \in {"mint_write", "register", "gate", "announce", "sign", "ask"} => l.key \in OwnKey
    /\ s = "ask" => [key |-> l.key, ts |-> l.ts] \in ch
    /\ s \in {"signature", "eval", "sandbox", "probe", "promote"} => "hash" \in l.passed
    /\ s \in {"eval", "sandbox", "probe", "promote"} => "signature" \in l.passed
    /\ s \in {"sandbox", "probe", "promote"} => "eval" \in l.passed
    /\ s = "promote" => "sandbox" \in l.passed
    /\ l.raw.champion \in cl \cup {"none"}
    /\ s \in {"read", "truncate", "write"} /\ c = "pull" => l.hash \in cl

TerminalOK(t) == LocalOK(pc[t], cmd[t], loc[t], cleared, challenges)

\* What the tracker has acknowledged to this machine, this machine sent.
AckedHold ==
    \A r \in acked :
        /\ r.addr = Here /\ Here \in registry.peers
        /\ r.op = "announce" =>
              /\ r.manifest.signed
              /\ r.manifest.content_hash \in DOMAIN registry.catalog
              /\ Here \in registry.seeders[r.manifest.content_hash]
              /\ r.manifest.producer_pubkey \in registry.seeded_pubkeys

\* The tracker: its types, whom it credits, and what it has acknowledged.
RemoteInv ==
    /\ registry \in Registry /\ WellFormed(registry)
    /\ late \subseteq Request /\ heard \subseteq Manifest /\ acked \subseteq Request
    /\ CreditIsEarned /\ AckedHold

\* What else goes on around the machine.
AroundType ==
    /\ clock \in Nat /\ challenges \subseteq Challenge /\ vended \subseteq Challenge
    /\ others \in 0..MaxOthers

\* The machine's files and its VM.
MachineInv ==
    /\ commands \in 0..MaxCommands
    /\ identity \in OwnKey \cup {"absent", "truncated"}
    /\ conf \in Conf /\ vm \in Hash \cup {"none"} /\ cleared \subseteq Hash
    /\ ChampionWasGated

\* The commands that are running.
TerminalsInv ==
    /\ pc \in [Terminals -> Step] /\ cmd \in [Terminals -> Command \cup {"none"}]
    /\ loc \in [Terminals -> Local]
    /\ \A t \in Terminals : TerminalOK(t)

Inv == RemoteInv /\ AroundType /\ MachineInv /\ TerminalsInv

-----------------------------------------------------------------------------
(* The registry's operations.                                              *)

\* A function is in PartialFunction(S, T) exactly when its domain is part of
\* S and its values are in T.
LEMMA PartialFunctionType ==
    ASSUME NEW S, NEW T, NEW f
    PROVE  f \in PartialFunction(S, T)
              <=> /\ f = [x \in DOMAIN f |-> f[x]]
                  /\ DOMAIN f \subseteq S
                  /\ \A x \in DOMAIN f : f[x] \in T
<1>1. ASSUME f \in PartialFunction(S, T)
      PROVE  f = [x \in DOMAIN f |-> f[x]] /\ DOMAIN f \subseteq S /\ \A x \in DOMAIN f : f[x] \in T
  <2>1. PICK D \in SUBSET S : f \in [D -> T]  BY <1>1 DEF PartialFunction
  <2> QED  BY <2>1
<1>2. ASSUME f = [x \in DOMAIN f |-> f[x]], DOMAIN f \subseteq S, \A x \in DOMAIN f : f[x] \in T
      PROVE  f \in PartialFunction(S, T)
  <2>1. f \in [DOMAIN f -> T]  BY <1>2
  <2>2. DOMAIN f \in SUBSET S  BY <1>2
  <2> QED  BY <2>1, <2>2 DEF PartialFunction
<1> QED  BY <1>1, <1>2

\* Put adds one key with one value.
LEMMA PutType ==
    ASSUME NEW S, NEW T, NEW f \in PartialFunction(S, T), NEW k \in S, NEW v \in T
    PROVE  Put(f, k, v) \in PartialFunction(S, T)
<1>1. DOMAIN f \subseteq S /\ \A x \in DOMAIN f : f[x] \in T  BY PartialFunctionType
<1>2. Put(f, k, v) \in [DOMAIN f \cup {k} -> T]  BY <1>1 DEF Put
<1>3. DOMAIN f \cup {k} \in SUBSET S  BY <1>1
<1> QED  BY <1>2, <1>3 DEF PartialFunction

\* Registering adds a peer and its identity.
LEMMA RegisterFacts ==
    ASSUME NEW reg \in Registry, WellFormed(reg), NEW k \in Key, NEW a \in Addr
    PROVE  LET new == Register(reg, k, a)
           IN  /\ new \in Registry /\ WellFormed(new)
               /\ new.peers = reg.peers \cup {a} /\ new.catalog = reg.catalog
               /\ new.seeders = reg.seeders /\ new.seeded_pubkeys = reg.seeded_pubkeys
<1> DEFINE new == Register(reg, k, a)
<1>1. /\ new.peers = reg.peers \cup {a} /\ new.identities = Put(reg.identities, a, k)
      /\ new.catalog = reg.catalog /\ new.seeders = reg.seeders
      /\ new.seeded_pubkeys = reg.seeded_pubkeys /\ new.signal_invite = reg.signal_invite
  BY DEF Register, Registry
<1>2. /\ Put(reg.identities, a, k) \in PartialFunction(Addr, Key)
      /\ DOMAIN Put(reg.identities, a, k) = DOMAIN reg.identities \cup {a}
  <2>1. reg.identities \in PartialFunction(Addr, Key)  BY DEF Registry
  <2>2. DOMAIN Put(reg.identities, a, k) = DOMAIN reg.identities \cup {a}  BY DEF Put
  <2> QED  BY <2>1, <2>2, PutType
<1>3. new \in Registry  BY <1>2 DEF Register, Registry
<1>4. WellFormed(new)
  <2> HIDE DEF new
  <2>1. DOMAIN new.identities \subseteq new.peers  BY <1>1, <1>2 DEF WellFormed
  <2>2. DOMAIN new.seeders = DOMAIN new.catalog  BY <1>1 DEF WellFormed
  <2>3. \A h \in DOMAIN new.catalog : /\ new.catalog[h].content_hash = h
                                      /\ new.seeders[h] # {} /\ new.seeders[h] \subseteq new.peers
    BY <1>1 DEF WellFormed
  <2> QED  BY <2>1, <2>2, <2>3 DEF WellFormed
<1> QED  BY <1>1, <1>3, <1>4

\* An announcement files the manifest and adds a seeder; nothing else that is
\* advertised, seeded or credited goes away.
LEMMA AnnounceFacts ==
    ASSUME NEW reg \in Registry, WellFormed(reg), NEW m \in Manifest, NEW a \in Addr
    PROVE  LET new == Announce(reg, m, a)
           IN  /\ new \in Registry /\ WellFormed(new)
               /\ new.peers = reg.peers \cup {a}
               /\ DOMAIN new.catalog = DOMAIN reg.catalog \cup {m.content_hash}
               /\ \A h \in DOMAIN reg.catalog : reg.seeders[h] \subseteq new.seeders[h]
               /\ a \in new.seeders[m.content_hash]
               /\ new.seeded_pubkeys = reg.seeded_pubkeys
                                         \cup (IF m.signed THEN {m.producer_pubkey} ELSE {})
<1> DEFINE new == Announce(reg, m, a)
           h0 == m.content_hash
           sd == SeedersOf(reg, h0) \cup {a}
<1>1. /\ new.peers = reg.peers \cup {a} /\ new.identities = reg.identities
      /\ new.catalog = Put(reg.catalog, h0, m) /\ new.seeders = Put(reg.seeders, h0, sd)
      /\ new.seeded_pubkeys = (IF m.signed THEN reg.seeded_pubkeys \cup {m.producer_pubkey}
                               ELSE reg.seeded_pubkeys)
      /\ new.signal_invite = reg.signal_invite
  BY DEF Announce, Registry
<1>2. h0 \in Hash /\ m.producer_pubkey \in Key /\ m.signed \in BOOLEAN  BY DEF Manifest
<1>3. /\ reg.catalog \in PartialFunction(Hash, Manifest)
      /\ reg.seeders \in PartialFunction(Hash, SUBSET Addr)
      /\ reg.peers \in SUBSET Addr
  BY DEF Registry
<1>4. sd \in SUBSET Addr
  <2>1. \A h \in DOMAIN reg.seeders : reg.seeders[h] \in SUBSET Addr  BY <1>3, PartialFunctionType
  <2> QED  BY <2>1 DEF SeedersOf
<1>5. /\ Put(reg.catalog, h0, m) \in PartialFunction(Hash, Manifest)
      /\ DOMAIN Put(reg.catalog, h0, m) = DOMAIN reg.catalog \cup {h0}
      /\ \A x \in DOMAIN reg.catalog \cup {h0} :
            Put(reg.catalog, h0, m)[x] = IF x = h0 THEN m ELSE reg.catalog[x]
  <2>1. Put(reg.catalog, h0, m) \in PartialFunction(Hash, Manifest)  BY <1>2, <1>3, PutType
  <2> QED  BY <2>1 DEF Put
<1>6. /\ Put(reg.seeders, h0, sd) \in PartialFunction(Hash, SUBSET Addr)
      /\ DOMAIN Put(reg.seeders, h0, sd) = DOMAIN reg.seeders \cup {h0}
      /\ \A x \in DOMAIN reg.seeders \cup {h0} :
            Put(reg.seeders, h0, sd)[x] = IF x = h0 THEN sd ELSE reg.seeders[x]
  <2> HIDE DEF sd
  <2>1. Put(reg.seeders, h0, sd) \in PartialFunction(Hash, SUBSET Addr)
    BY <1>2, <1>3, <1>4, PutType
  <2> QED  BY <2>1 DEF Put
<1>7. new \in Registry  BY <1>5, <1>6 DEF Announce, Registry, Manifest
<1>8. DOMAIN new.catalog = DOMAIN new.seeders
  BY <1>1, <1>5, <1>6 DEF WellFormed
<1>9. \A h \in DOMAIN reg.catalog : reg.seeders[h] \subseteq new.seeders[h]
  <2> SUFFICES ASSUME NEW h \in DOMAIN reg.catalog PROVE reg.seeders[h] \subseteq new.seeders[h]
    OBVIOUS
  <2>1. h \in DOMAIN reg.seeders  BY DEF WellFormed
  <2> QED  BY <1>1, <1>6, <2>1 DEF SeedersOf
<1>10. WellFormed(new)
  <2>1. DOMAIN new.identities \subseteq new.peers  BY <1>1 DEF WellFormed
  <2>2. ASSUME NEW h \in DOMAIN new.catalog
        PROVE  /\ new.catalog[h].content_hash = h
               /\ new.seeders[h] # {} /\ new.seeders[h] \subseteq new.peers
    <3>1. CASE h = h0
      <4>1. SeedersOf(reg, h0) \subseteq reg.peers  BY DEF SeedersOf, WellFormed
      <4>2. new.seeders[h] = sd /\ new.catalog[h] = m  BY <1>1, <1>5, <1>6, <3>1
      <4> QED  BY <1>1, <3>1, <4>1, <4>2
    <3>2. CASE h # h0
      <4>1. h \in DOMAIN reg.catalog  BY <1>1, <1>5, <3>2
      <4>2. new.catalog[h] = reg.catalog[h]  BY <1>1, <1>5, <3>2, <4>1
      <4>3. new.seeders[h] = reg.seeders[h]  BY <1>1, <1>6, <3>2, <4>1 DEF WellFormed
      <4> QED  BY <1>1, <4>1, <4>2, <4>3 DEF WellFormed
    <3> QED  BY <3>1, <3>2
  <2>3. \A h \in DOMAIN new.catalog : /\ new.catalog[h].content_hash = h
                                      /\ new.seeders[h] # {} /\ new.seeders[h] \subseteq new.peers
    BY <2>2
  <2> HIDE DEF new
  <2> QED  BY <1>8, <2>1, <2>3 DEF WellFormed
<1>11. DOMAIN new.catalog = DOMAIN reg.catalog \cup {h0}  BY <1>1, <1>5
<1>12. a \in new.seeders[h0]  BY <1>1, <1>6
<1>13. new.seeded_pubkeys = reg.seeded_pubkeys \cup (IF m.signed THEN {m.producer_pubkey} ELSE {})
  BY <1>1
<1> QED  BY <1>1, <1>7, <1>9, <1>10, <1>11, <1>12, <1>13

-----------------------------------------------------------------------------
(* What a step can do to each part.                                        *)

\* A request this machine makes: from its own address, signed if announced.
OwnRequest(r) == r.addr = Here /\ (r.op = "announce" => r.manifest.signed)

\* A request that is carried out, acknowledged or not, keeps the tracker's
\* part of the invariant.
LEMMA CarryKeeps ==
    ASSUME RemoteInv, NEW r \in Request, Carry(r), late' \subseteq Request,
           acked' \subseteq acked \cup {r}, (r \notin acked') \/ r \in acked \/ OwnRequest(r)
    PROVE  RemoteInv'
<1>1. CASE r.op = "register"
  <2>1. r.key \in Key /\ r.addr \in Addr  BY <1>1 DEF Request
  <2>2. registry' = Register(registry, r.key, r.addr) /\ heard' = heard  BY <1>1 DEF Carry
  <2>3. /\ registry' \in Registry /\ WellFormed(registry')
        /\ registry'.peers = registry.peers \cup {r.addr}
        /\ registry'.catalog = registry.catalog /\ registry'.seeders = registry.seeders
        /\ registry'.seeded_pubkeys = registry.seeded_pubkeys
    BY <2>1, <2>2, RegisterFacts DEF RemoteInv
  <2>4. CreditIsEarned'  BY <2>2, <2>3 DEF RemoteInv, CreditIsEarned
  <2>5. AckedHold'  BY <1>1, <2>3 DEF RemoteInv, AckedHold, OwnRequest
  <2> QED  BY <2>2, <2>3, <2>4, <2>5 DEF RemoteInv
<1>2. CASE r.op # "register"
  <2> DEFINE m == r.manifest
  <2>1. m \in Manifest /\ r.addr \in Addr /\ r.op = "announce"  BY <1>2 DEF Request
  <2>2. registry' = Announce(registry, m, r.addr) /\ heard' = heard \cup {m}  BY <1>2 DEF Carry
  <2> HIDE DEF m
  <2>3. /\ registry' \in Registry /\ WellFormed(registry')
        /\ registry'.peers = registry.peers \cup {r.addr}
        /\ DOMAIN registry'.catalog = DOMAIN registry.catalog \cup {m.content_hash}
        /\ \A h \in DOMAIN registry.catalog : registry.seeders[h] \subseteq registry'.seeders[h]
        /\ r.addr \in registry'.seeders[m.content_hash]
        /\ registry'.seeded_pubkeys = registry.seeded_pubkeys
                                        \cup (IF m.signed THEN {m.producer_pubkey} ELSE {})
    BY <2>1, <2>2, AnnounceFacts DEF RemoteInv
  <2>4. CreditIsEarned'
    <3>1. registry.seeded_pubkeys = {x.producer_pubkey : x \in {y \in heard : y.signed}}
      BY DEF RemoteInv, CreditIsEarned
    <3> QED  BY <2>2, <2>3, <3>1 DEF CreditIsEarned
  <2>5. ASSUME NEW q \in acked'
        PROVE  /\ q.addr = Here /\ Here \in registry'.peers
               /\ q.op = "announce" =>
                     /\ q.manifest.signed
                     /\ q.manifest.content_hash \in DOMAIN registry'.catalog
                     /\ Here \in registry'.seeders[q.manifest.content_hash]
                     /\ q.manifest.producer_pubkey \in registry'.seeded_pubkeys
    <3>1. CASE q \in acked  BY <2>3, <3>1 DEF RemoteInv, AckedHold
    <3>2. CASE q \notin acked
      <4>1. q = r /\ OwnRequest(r)  BY <3>2
      <4> QED  BY <2>1, <2>3, <4>1 DEF OwnRequest, m
    <3> QED  BY <3>1, <3>2
  <2>6. AckedHold'  BY <2>5 DEF AckedHold
  <2>7. acked' \subseteq Request /\ heard' \subseteq Manifest  BY <2>1, <2>2 DEF RemoteInv
  <2> QED  BY <2>3, <2>4, <2>6, <2>7 DEF RemoteInv
<1> QED  BY <1>1, <1>2

\* A tracker nothing was carried out by is as it was.
LEMMA RemoteSame ==
    ASSUME RemoteInv, UNCHANGED <<registry, heard, acked>>, late' \subseteq Request
    PROVE  RemoteInv'
BY DEF RemoteInv, CreditIsEarned, AckedHold

\* A request sent with Send, however it fares.
Sent(r) ==
    /\ \/ Carry(r) /\ acked' = acked \cup {r} /\ late' = late
       \/ Carry(r) /\ UNCHANGED <<acked, late>>
       \/ late' = late \cup {r} /\ UNCHANGED <<registry, heard, acked>>
       \/ UNCHANGED <<registry, heard, acked, late>>
    /\ UNCHANGED <<clock, challenges, vended, others>>

\* A request of this machine keeps the tracker's part of the invariant,
\* answered or not.
LEMMA SentKeeps ==
    ASSUME RemoteInv, AroundType, NEW r \in Request, OwnRequest(r), Sent(r)
    PROVE  RemoteInv' /\ AroundType'
<1>1. AroundType'  BY DEF AroundType, Sent
<1>2. RemoteInv'
  <2>1. CASE Carry(r) /\ acked' = acked \cup {r} /\ late' = late
    BY <2>1, CarryKeeps DEF RemoteInv
  <2>2. CASE Carry(r) /\ UNCHANGED <<acked, late>>  BY <2>2, CarryKeeps DEF RemoteInv
  <2>3. CASE late' = late \cup {r} /\ UNCHANGED <<registry, heard, acked>>
    BY <2>3, RemoteSame DEF RemoteInv
  <2>4. CASE UNCHANGED <<registry, heard, acked, late>>  BY <2>4, RemoteSame DEF RemoteInv
  <2> QED  BY <2>1, <2>2, <2>3, <2>4 DEF Sent
<1> QED  BY <1>1, <1>2

\* A step that leaves the tracker and the other nodes alone.
LEMMA QuietRemote ==
    ASSUME RemoteInv, AroundType, UNCHANGED remote
    PROVE  RemoteInv' /\ AroundType'
<1>1. RemoteInv'  BY RemoteSame DEF RemoteInv, remote
<1> QED  BY <1>1 DEF AroundType, remote

\* A step that leaves the machine's files and its VM alone.
LEMMA QuietMachine ==
    ASSUME MachineInv, UNCHANGED <<machine, commands>>
    PROVE  MachineInv'
BY DEF MachineInv, machine, ChampionWasGated

\* What a command knows stays true while more is cleared and signed.
LEMMA LocalMonotone ==
    ASSUME NEW s, NEW c, NEW l, NEW cl, NEW ch, NEW cl2, NEW ch2,
           cl \subseteq cl2, ch \subseteq ch2, LocalOK(s, c, l, cl, ch)
    PROVE  LocalOK(s, c, l, cl2, ch2)
BY DEF LocalOK

\* A terminal whose command goes to step s with locals l.
Moves(t, s, c, l) ==
    pc' = [pc EXCEPT ![t] = s] /\ cmd' = [cmd EXCEPT ![t] = c] /\ loc' = [loc EXCEPT ![t] = l]

Grows == cleared \subseteq cleared' /\ challenges \subseteq challenges'

\* One command moves, the others stay as they are.
LEMMA MoveKeeps ==
    ASSUME TerminalsInv, Grows, NEW t \in Terminals, NEW s \in Step,
           NEW c \in Command \cup {"none"}, NEW l \in Local, Moves(t, s, c, l),
           LocalOK(s, c, l, cleared', challenges')
    PROVE  TerminalsInv'
<1>1. /\ pc' \in [Terminals -> Step] /\ cmd' \in [Terminals -> Command \cup {"none"}]
      /\ loc' \in [Terminals -> Local]
  BY DEF TerminalsInv, Moves
<1>2. ASSUME NEW u \in Terminals PROVE TerminalOK(u)'
  <2>1. CASE u = t
    <3>1. pc'[u] = s /\ cmd'[u] = c /\ loc'[u] = l  BY <2>1 DEF TerminalsInv, Moves
    <3> QED  BY <3>1 DEF TerminalOK
  <2>2. CASE u # t
    <3>1. pc'[u] = pc[u] /\ cmd'[u] = cmd[u] /\ loc'[u] = loc[u]
      BY <2>2 DEF TerminalsInv, Moves
    <3>2. LocalOK(pc[u], cmd[u], loc[u], cleared, challenges)  BY DEF TerminalsInv, TerminalOK
    <3>3. LocalOK(pc[u], cmd[u], loc[u], cleared', challenges')
      BY <3>2, LocalMonotone DEF Grows
    <3> QED  BY <3>1, <3>3 DEF TerminalOK
  <2> QED  BY <2>1, <2>2
<1> QED  BY <1>1, <1>2 DEF TerminalsInv

\* The locals every command starts with.
LEMMA BlankType == Blank \in Local
BY DEF Blank, Local, EmptyConf, Conf

\* A command that ends.
LEMMA EndKeeps ==
    ASSUME TerminalsInv, Grows, NEW t \in Terminals, End(t)
    PROVE  TerminalsInv'
<1>1. Moves(t, "idle", "none", Blank)  BY DEF End, Moves
<1>2. LocalOK("idle", "none", Blank, cleared', challenges')  BY DEF LocalOK, Blank, EmptyConf
<1>3. "idle" \in Step  BY DEF Step
<1> QED  BY <1>1, <1>2, <1>3, BlankType, MoveKeeps

\* A command that goes on to step s with nothing else changed.
LEMMA GotoKeeps ==
    ASSUME TerminalsInv, Grows, NEW t \in Terminals, NEW s \in Step, Goto(t, s), Continue,
           UNCHANGED loc, LocalOK(s, cmd[t], loc[t], cleared', challenges')
    PROVE  TerminalsInv'
<1>1. Moves(t, s, cmd[t], loc[t])  BY DEF Goto, Continue, Moves, TerminalsInv
<1>2. cmd[t] \in Command \cup {"none"} /\ loc[t] \in Local  BY DEF TerminalsInv
<1> QED  BY <1>1, <1>2, MoveKeeps

\* A command that goes on to step s with locals l.
LEMMA KeepKeeps ==
    ASSUME TerminalsInv, Grows, NEW t \in Terminals, NEW s \in Step, Goto(t, s), Continue,
           NEW l \in Local, Keep(t, l), LocalOK(s, cmd[t], l, cleared', challenges')
    PROVE  TerminalsInv'
<1>1. Moves(t, s, cmd[t], l)  BY DEF Goto, Continue, Keep, Moves, TerminalsInv
<1>2. cmd[t] \in Command \cup {"none"}  BY DEF TerminalsInv
<1> QED  BY <1>1, <1>2, MoveKeeps
\* What a running command knows, seen from the next state.
LEMMA Knows ==
    ASSUME TerminalsInv, Grows, NEW t \in Terminals
    PROVE  /\ pc[t] \in Step /\ cmd[t] \in Command \cup {"none"} /\ loc[t] \in Local
           /\ LocalOK(pc[t], cmd[t], loc[t], cleared', challenges')
<1>1. LocalOK(pc[t], cmd[t], loc[t], cleared, challenges)  BY DEF TerminalsInv, TerminalOK
<1> QED  BY <1>1, LocalMonotone DEF TerminalsInv, Grows

-----------------------------------------------------------------------------
(* The steps of a command.                                                 *)

\* Starting a command.
LEMMA BeginKeeps ==
    ASSUME Inv, NEW t \in Terminals, Begin(t)
    PROVE  Inv'
<1>1. UNCHANGED remote /\ UNCHANGED machine  BY DEF Begin
<1>2. Grows  BY <1>1 DEF Grows, remote, machine
<1>3. RemoteInv' /\ AroundType'  BY <1>1, QuietRemote DEF Inv
<1>4. MachineInv'
  BY <1>1, BoundAssumption DEF Begin, Inv, MachineInv, machine, ChampionWasGated
<1>5. TerminalsInv'
  <2>1. PICK c \in Command, h \in Hash :
           /\ cmd' = [cmd EXCEPT ![t] = c]
           /\ Goto(t, IF c = "pull" THEN "find"
                      ELSE IF c = "status" /\ identity = "absent" THEN "status_catalog"
                      ELSE "ensure")
           /\ Keep(t, IF c \in {"pull", "seed"} THEN [Blank EXCEPT !.hash = h] ELSE Blank)
    BY DEF Begin
  <2> DEFINE s == IF c = "pull" THEN "find"
                  ELSE IF c = "status" /\ identity = "absent" THEN "status_catalog"
                  ELSE "ensure"
             l == IF c \in {"pull", "seed"} THEN [Blank EXCEPT !.hash = h] ELSE Blank
  <2>2. s \in Step  BY DEF Step
  <2>3. l \in Local  BY BlankType DEF Local
  <2>4. LocalOK(s, c, l, cleared', challenges')
    <3>1. l.raw = EmptyConf /\ (c \in {"pull", "seed"} => l.hash = h)  BY DEF Blank
    <3>2. s \in {"find", "status_catalog", "ensure"} /\ (s = "find" <=> c = "pull")  OBVIOUS
    <3> HIDE DEF s, l
    <3> QED  BY <3>1, <3>2 DEF LocalOK, EmptyConf
  <2>5. Moves(t, s, c, l)  BY <2>1 DEF Moves, Goto, Keep
  <2> HIDE DEF s, l
  <2> QED  BY <1>2, <2>2, <2>3, <2>4, <2>5, MoveKeeps DEF Inv
<1> QED  BY <1>3, <1>4, <1>5 DEF Inv

\* A step that ends the command and touches nothing else.
LEMMA EndsQuietly ==
    ASSUME Inv, NEW t \in Terminals, UNCHANGED <<remote, machine, commands>>, End(t)
    PROVE  Inv'
<1>1. Grows  BY DEF Grows, remote, machine
<1>2. TerminalsInv'  BY <1>1, EndKeeps DEF Inv
<1> QED  BY <1>2, QuietRemote, QuietMachine DEF Inv

\* A step that touches only the command's own locals.
LEMMA StepsQuietly ==
    ASSUME Inv, UNCHANGED <<remote, machine, commands>>, TerminalsInv'
    PROVE  Inv'
BY QuietRemote, QuietMachine DEF Inv

\* Going on once the identity is there.
LEMMA AfterEnsureKeeps ==
    ASSUME TerminalsInv, Grows, NEW t \in Terminals, pc[t] \in {"ensure", "mint_write"},
           NEW l \in Local, l.key \in OwnKey, l.hash = loc[t].hash, l.raw = loc[t].raw,
           AfterEnsure(t), Keep(t, l), Continue
    PROVE  TerminalsInv'
<1>1. LocalOK(pc[t], cmd[t], loc[t], cleared', challenges')  BY Knows
<1>2. ASSUME NEW s \in Step, Goto(t, s),
             \/ cmd[t] \in {"join", "tribe"} /\ s \in {"register", "read"}
             \/ cmd[t] = "status" /\ s = "status_catalog"
             \/ cmd[t] = "seed" /\ s = "gate"
             \/ cmd[t] = "community" /\ s = "sign"
      PROVE  TerminalsInv'
  <2>1. LocalOK(s, cmd[t], l, cleared', challenges')  BY <1>1, <1>2 DEF LocalOK
  <2> QED  BY <1>2, <2>1, KeepKeeps
<1>3. {"register", "read", "status_catalog", "gate", "sign"} \subseteq Step  BY DEF Step
<1> QED  BY <1>2, <1>3 DEF AfterEnsure

\* Loading the identity.
LEMMA EnsureKeeps ==
    ASSUME Inv, NEW t \in Terminals, Ensure(t)
    PROVE  Inv'
<1>1. UNCHANGED <<remote, machine, commands>> /\ pc[t] = "ensure"  BY DEF Ensure
<1>2. Grows  BY <1>1 DEF Grows, remote, machine
<1>3. loc[t] \in Local /\ LocalOK(pc[t], cmd[t], loc[t], cleared', challenges')
  BY <1>2, Knows DEF Inv
<1>4. CASE /\ identity \in OwnKey /\ AfterEnsure(t) /\ Continue
           /\ Keep(t, [loc[t] EXCEPT !.key = identity])
  <2> DEFINE l == [loc[t] EXCEPT !.key = identity]
  <2>1. l \in Local /\ l.key = identity /\ l.hash = loc[t].hash /\ l.raw = loc[t].raw
    BY <1>3, <1>4 DEF Local
  <2>2. Keep(t, l)  BY <1>4
  <2> HIDE DEF l
  <2>3. TerminalsInv'  BY <1>1, <1>2, <1>4, <2>1, <2>2, AfterEnsureKeeps DEF Inv
  <2> QED  BY <1>1, <2>3, StepsQuietly
<1>5. CASE Goto(t, "mint") /\ Continue /\ UNCHANGED loc
  <2>1. LocalOK("mint", cmd[t], loc[t], cleared', challenges')  BY <1>1, <1>3 DEF LocalOK
  <2>2. "mint" \in Step  BY DEF Step
  <2>3. TerminalsInv'  BY <1>2, <1>5, <2>1, <2>2, GotoKeeps DEF Inv
  <2> QED  BY <1>1, <2>3, StepsQuietly
<1>6. CASE End(t)  BY <1>1, <1>6, EndsQuietly
<1> QED  BY <1>4, <1>5, <1>6 DEF Ensure

\* Minting a keypair, up to the truncated file.
LEMMA MintKeeps ==
    ASSUME Inv, NEW t \in Terminals, Mint(t)
    PROVE  Inv'
<1>1. UNCHANGED <<remote, conf, vm, cleared, commands>> /\ pc[t] = "mint"  BY DEF Mint
<1>2. Grows  BY <1>1 DEF Grows, remote
<1>3. loc[t] \in Local /\ LocalOK(pc[t], cmd[t], loc[t], cleared', challenges')
  BY <1>2, Knows DEF Inv
<1>4. MachineInv'  BY <1>1 DEF Mint, Inv, MachineInv, ChampionWasGated
<1>5. PICK k \in OwnKey : Keep(t, [loc[t] EXCEPT !.key = k])  BY DEF Mint
<1> DEFINE l == [loc[t] EXCEPT !.key = k]
<1>6. l \in Local /\ l.key = k /\ l.hash = loc[t].hash /\ l.raw = loc[t].raw
  BY <1>3 DEF Local
<1>7. Keep(t, l) /\ Goto(t, "mint_write") /\ Continue  BY <1>5 DEF Mint
<1> HIDE DEF l
<1>8. LocalOK("mint_write", cmd[t], l, cleared', challenges')
  BY <1>1, <1>3, <1>6 DEF LocalOK
<1>9. "mint_write" \in Step  BY DEF Step
<1>10. TerminalsInv'  BY <1>2, <1>6, <1>7, <1>8, <1>9, KeepKeeps DEF Inv
<1>11. UNCHANGED remote  BY <1>1
<1> QED  BY <1>4, <1>10, <1>11, QuietRemote DEF Inv

\* Writing the identity file.
LEMMA MintWriteKeeps ==
    ASSUME Inv, NEW t \in Terminals, MintWrite(t)
    PROVE  Inv'
<1>1. /\ UNCHANGED <<remote, conf, vm, cleared, commands>> /\ pc[t] = "mint_write"
      /\ UNCHANGED loc /\ identity' = loc[t].key /\ AfterEnsure(t) /\ Continue
  BY DEF MintWrite
<1>2. Grows  BY <1>1 DEF Grows, remote
<1>3. loc[t] \in Local /\ LocalOK(pc[t], cmd[t], loc[t], cleared', challenges')
  BY <1>2, Knows DEF Inv
<1>4. loc[t].key \in OwnKey  BY <1>1, <1>3 DEF LocalOK
<1>5. Keep(t, loc[t])  BY <1>1 DEF Keep, Inv, TerminalsInv
<1>6. MachineInv'  BY <1>1, <1>4 DEF Inv, MachineInv, ChampionWasGated
<1>7. TerminalsInv'  BY <1>1, <1>2, <1>3, <1>4, <1>5, AfterEnsureKeeps DEF Inv
<1>8. UNCHANGED remote  BY <1>1
<1> QED  BY <1>6, <1>7, <1>8, QuietRemote DEF Inv
\* A join the tracker fails.
LEMMA JoinFailsKeeps ==
    ASSUME TerminalsInv, Grows, NEW t \in Terminals,
           pc[t] \in {"register", "peers", "catalog"}, JoinFails(t)
    PROVE  TerminalsInv'
<1>1. CASE End(t)  BY <1>1, EndKeeps
<1>2. CASE cmd[t] = "tribe" /\ Goto(t, "read") /\ Continue /\ UNCHANGED loc
  <2>1. LocalOK("read", cmd[t], loc[t], cleared', challenges')  BY <1>2, Knows DEF LocalOK
  <2>2. "read" \in Step  BY DEF Step
  <2> QED  BY <1>2, <2>1, <2>2, GotoKeeps
<1> QED  BY <1>1, <1>2 DEF JoinFails

\* Registering.
LEMMA JoinRegisterKeeps ==
    ASSUME Inv, NEW t \in Terminals, JoinRegister(t)
    PROVE  Inv'
<1> DEFINE r == [op |-> "register", key |-> loc[t].key, addr |-> Here]
<1>1. /\ pc[t] = "register" /\ UNCHANGED <<machine, commands>> /\ Sent(r)
      /\ (Goto(t, "peers") /\ Continue /\ UNCHANGED loc) \/ JoinFails(t)
  BY DEF JoinRegister, Send, Sent
<1>2. Grows  BY <1>1 DEF Grows, machine, Sent
<1>3. LocalOK(pc[t], cmd[t], loc[t], cleared', challenges')  BY <1>2, Knows DEF Inv
<1>4. r \in Request /\ OwnRequest(r)
  <2>1. loc[t].key \in Key  BY <1>1, <1>3, KeyAssumption DEF LocalOK
  <2> QED  BY <2>1, AddrAssumption DEF Request, OwnRequest
<1> HIDE DEF r
<1>5. RemoteInv' /\ AroundType'  BY <1>1, <1>4, SentKeeps DEF Inv
<1>6. MachineInv'  BY <1>1, QuietMachine DEF Inv
<1>7. TerminalsInv'
  <2>1. CASE Goto(t, "peers") /\ Continue /\ UNCHANGED loc
    <3>1. LocalOK("peers", cmd[t], loc[t], cleared', challenges')  BY <1>1, <1>3 DEF LocalOK
    <3>2. "peers" \in Step  BY DEF Step
    <3> QED  BY <1>2, <2>1, <3>1, <3>2, GotoKeeps DEF Inv
  <2>2. CASE JoinFails(t)  BY <1>1, <1>2, <2>2, JoinFailsKeeps DEF Inv
  <2> QED  BY <1>1, <2>1, <2>2
<1> QED  BY <1>5, <1>6, <1>7 DEF Inv

\* The two reads of a join.
LEMMA JoinReadsKeep ==
    ASSUME Inv, NEW t \in Terminals, JoinPeers(t) \/ JoinCatalog(t)
    PROVE  Inv'
<1>1. UNCHANGED <<remote, machine, commands>> /\ pc[t] \in {"peers", "catalog"}
  BY DEF JoinPeers, JoinCatalog, Query
<1>2. Grows  BY <1>1 DEF Grows, remote, machine
<1>3. LocalOK(pc[t], cmd[t], loc[t], cleared', challenges')  BY <1>2, Knows DEF Inv
<1>4. CASE pc[t] = "peers" /\ Goto(t, "catalog") /\ Continue /\ UNCHANGED loc
  <2>1. LocalOK("catalog", cmd[t], loc[t], cleared', challenges')  BY <1>3, <1>4 DEF LocalOK
  <2>2. "catalog" \in Step  BY DEF Step
  <2>3. TerminalsInv'  BY <1>2, <1>4, <2>1, <2>2, GotoKeeps DEF Inv
  <2> QED  BY <1>1, <2>3, StepsQuietly
<1>5. CASE pc[t] = "catalog" /\ Goto(t, "read") /\ Continue /\ UNCHANGED loc
  <2>1. LocalOK("read", cmd[t], loc[t], cleared', challenges')  BY <1>3, <1>5 DEF LocalOK
  <2>2. "read" \in Step  BY DEF Step
  <2>3. TerminalsInv'  BY <1>2, <1>5, <2>1, <2>2, GotoKeeps DEF Inv
  <2> QED  BY <1>1, <2>3, StepsQuietly
<1>6. CASE JoinFails(t)
  <2>1. TerminalsInv'  BY <1>1, <1>2, <1>6, JoinFailsKeeps DEF Inv
  <2> QED  BY <1>1, <2>1, StepsQuietly
<1> QED  BY <1>4, <1>5, <1>6 DEF JoinPeers, JoinCatalog, Query

\* The two reads of status, and the hint.
LEMMA StatusKeeps ==
    ASSUME Inv, NEW t \in Terminals, StatusCatalog(t) \/ StatusPeers(t)
    PROVE  Inv'
<1>1. UNCHANGED <<remote, machine, commands>>
  BY DEF StatusCatalog, StatusPeers, Query
<1>2. Grows  BY <1>1 DEF Grows, remote, machine
<1>3. loc[t] \in Local /\ LocalOK(pc[t], cmd[t], loc[t], cleared', challenges')
  BY <1>2, Knows DEF Inv
<1>4. CASE End(t)  BY <1>1, <1>4, EndsQuietly
<1>5. CASE /\ pc[t] = "status_catalog" /\ Goto(t, "status_peers") /\ Continue
           /\ Keep(t, [loc[t] EXCEPT !.hint = Hint(loc[t].key)])
  <2> DEFINE l == [loc[t] EXCEPT !.hint = Hint(loc[t].key)]
  <2>1. Hint(loc[t].key) \in BOOLEAN  BY DEF Hint
  <2>2. /\ l \in Local /\ l.hash = loc[t].hash /\ l.raw = loc[t].raw
    BY <1>3, <2>1 DEF Local
  <2>3. Keep(t, l)  BY <1>5
  <2> HIDE DEF l
  <2>4. LocalOK("status_peers", cmd[t], l, cleared', challenges')  BY <1>3, <2>2 DEF LocalOK
  <2>5. "status_peers" \in Step  BY DEF Step
  <2>6. TerminalsInv'  BY <1>2, <1>5, <2>2, <2>3, <2>4, <2>5, KeepKeeps DEF Inv
  <2> QED  BY <1>1, <2>6, StepsQuietly
<1> QED  BY <1>4, <1>5 DEF StatusCatalog, StatusPeers, Query

\* Seeding: what the gate lets through is announced as this machine's own.
LEMMA SeedKeeps ==
    ASSUME Inv, NEW t \in Terminals, SeedGate(t) \/ SeedAnnounce(t)
    PROVE  Inv'
<1>1. CASE SeedGate(t)
  <2>1. UNCHANGED <<remote, machine, commands>> /\ pc[t] = "gate"  BY <1>1 DEF SeedGate
  <2>2. Grows  BY <2>1 DEF Grows, remote, machine
  <2>3. CASE End(t)  BY <2>1, <2>3, EndsQuietly
  <2>4. CASE Goto(t, "announce") /\ Continue /\ UNCHANGED loc
    <3>1. LocalOK(pc[t], cmd[t], loc[t], cleared', challenges')  BY <2>2, Knows DEF Inv
    <3>2. LocalOK("announce", cmd[t], loc[t], cleared', challenges')
      BY <2>1, <3>1 DEF LocalOK
    <3>3. "announce" \in Step  BY DEF Step
    <3>4. TerminalsInv'  BY <2>2, <2>4, <3>2, <3>3, GotoKeeps DEF Inv
    <3> QED  BY <2>1, <3>4, StepsQuietly
  <2> QED  BY <1>1, <2>3, <2>4 DEF SeedGate
<1>2. CASE SeedAnnounce(t)
  <2> DEFINE r == [op |-> "announce", manifest |-> OwnManifest(t), addr |-> Here]
  <2>1. pc[t] = "announce" /\ UNCHANGED <<machine, commands>> /\ Sent(r) /\ End(t)
    BY <1>2 DEF SeedAnnounce, Send, Sent
  <2>2. Grows  BY <2>1 DEF Grows, machine, Sent
  <2>3. LocalOK(pc[t], cmd[t], loc[t], cleared', challenges')  BY <2>2, Knows DEF Inv
  <2>4. r \in Request /\ OwnRequest(r)
    <3>1. loc[t].key \in Key /\ loc[t].hash \in Hash  BY <2>1, <2>3, KeyAssumption DEF LocalOK
    <3>2. OwnManifest(t) \in Manifest /\ OwnManifest(t).signed
      BY <3>1 DEF OwnManifest, Manifest
    <3> QED  BY <3>2, AddrAssumption DEF Request, OwnRequest
  <2> HIDE DEF r
  <2>5. RemoteInv' /\ AroundType'  BY <2>1, <2>4, SentKeeps DEF Inv
  <2>6. MachineInv'  BY <2>1, QuietMachine DEF Inv
  <2>7. TerminalsInv'  BY <2>1, <2>2, EndKeeps DEF Inv
  <2> QED  BY <2>5, <2>6, <2>7 DEF Inv
<1> QED  BY <1>1, <1>2

\* Signing a challenge.
LEMMA SignKeeps ==
    ASSUME Inv, NEW t \in Terminals, CommunitySign(t)
    PROVE  Inv'
<1>1. /\ pc[t] = "sign" /\ Goto(t, "ask") /\ Continue
      /\ UNCHANGED <<clock, registry, late, heard, acked, vended, others, machine, commands>>
  BY DEF CommunitySign
<1>2. PICK e \in ClockError :
         /\ challenges' = challenges \cup {[key |-> loc[t].key, ts |-> clock + e]}
         /\ Keep(t, [loc[t] EXCEPT !.ts = clock + e])
  BY DEF CommunitySign
<1>3. Grows  BY <1>1, <1>2 DEF Grows, machine
<1>4. loc[t] \in Local /\ LocalOK(pc[t], cmd[t], loc[t], cleared', challenges')
  BY <1>3, Knows DEF Inv
<1>5. loc[t].key \in OwnKey /\ clock + e \in Int
  BY <1>1, <1>4, ClockAssumption DEF LocalOK, Inv, AroundType
<1>6. RemoteInv'  BY <1>1, RemoteSame DEF Inv, RemoteInv
<1>7. AroundType'  BY <1>1, <1>2, <1>5, KeyAssumption DEF Inv, AroundType, Challenge
<1>8. MachineInv'  BY <1>1, QuietMachine DEF Inv
<1> DEFINE l == [loc[t] EXCEPT !.ts = clock + e]
<1>9. l \in Local /\ l.key = loc[t].key /\ l.ts = clock + e /\ l.hash = loc[t].hash
        /\ l.raw = loc[t].raw
  BY <1>4, <1>5 DEF Local
<1>10. Keep(t, l)  BY <1>2
<1> HIDE DEF l
<1>11. [key |-> l.key, ts |-> l.ts] \in challenges'  BY <1>2, <1>9
<1>12. LocalOK("ask", cmd[t], l, cleared', challenges')
  BY <1>4, <1>5, <1>9, <1>11 DEF LocalOK
<1>13. "ask" \in Step  BY DEF Step
<1>14. TerminalsInv'  BY <1>1, <1>3, <1>9, <1>10, <1>12, <1>13, KeepKeeps DEF Inv
<1> QED  BY <1>6, <1>7, <1>8, <1>14 DEF Inv

\* An answer to a challenge somebody signed.
LEMMA AnswerKeeps ==
    ASSUME RemoteInv, AroundType, NEW c \in challenges, Answer(c), UNCHANGED <<challenges, others>>
    PROVE  RemoteInv' /\ AroundType'
<1>1. RemoteInv'  BY RemoteSame DEF RemoteInv, Answer
<1> QED  BY <1>1 DEF AroundType, Answer

\* Asking for the community.
LEMMA AskKeeps ==
    ASSUME Inv, NEW t \in Terminals, CommunityAsk(t)
    PROVE  Inv'
<1> DEFINE c == [key |-> loc[t].key, ts |-> loc[t].ts]
<1>1. /\ pc[t] = "ask" /\ End(t) /\ UNCHANGED <<challenges, others, machine, commands>>
      /\ Answer(c) \/ UNCHANGED <<clock, registry, late, heard, acked, vended>>
  BY DEF CommunityAsk
<1>2. Grows  BY <1>1 DEF Grows, machine
<1>3. LocalOK(pc[t], cmd[t], loc[t], cleared', challenges')  BY <1>2, Knows DEF Inv
<1>4. c \in challenges  BY <1>1, <1>3 DEF LocalOK
<1> HIDE DEF c
<1>5. RemoteInv' /\ AroundType'
  <2>1. CASE Answer(c)  BY <1>1, <1>4, <2>1, AnswerKeeps DEF Inv
  <2>2. CASE UNCHANGED <<clock, registry, late, heard, acked, vended>>
    BY <1>1, <2>2, QuietRemote DEF Inv, remote
  <2> QED  BY <1>1, <2>1, <2>2
<1>6. MachineInv'  BY <1>1, QuietMachine DEF Inv
<1>7. TerminalsInv'  BY <1>1, <1>2, EndKeeps DEF Inv
<1> QED  BY <1>5, <1>6, <1>7 DEF Inv
\* A pull finds its champion's manifest, or nothing.
LEMMA FindKeeps ==
    ASSUME Inv, NEW t \in Terminals, Find(t)
    PROVE  Inv'
<1>1. UNCHANGED <<remote, machine, commands>> /\ pc[t] = "find"  BY DEF Find, Query
<1>2. Grows  BY <1>1 DEF Grows, remote, machine
<1>3. loc[t] \in Local /\ LocalOK(pc[t], cmd[t], loc[t], cleared', challenges')
  BY <1>2, Knows DEF Inv
<1>4. CASE End(t)  BY <1>1, <1>4, EndsQuietly
<1>5. CASE /\ loc[t].hash \in DOMAIN registry.catalog
           /\ Keep(t, [loc[t] EXCEPT !.signed = registry.catalog[loc[t].hash].signed])
           /\ Goto(t, "hash") /\ Continue
  <2> DEFINE l == [loc[t] EXCEPT !.signed = registry.catalog[loc[t].hash].signed]
  <2>1. registry.catalog[loc[t].hash].signed \in BOOLEAN
    <3>1. registry.catalog \in PartialFunction(Hash, Manifest)
      BY DEF Inv, RemoteInv, Registry
    <3>2. \A h \in DOMAIN registry.catalog : registry.catalog[h] \in Manifest
      BY <3>1, PartialFunctionType
    <3> QED  BY <1>5, <3>2 DEF Manifest
  <2>2. l \in Local /\ l.hash = loc[t].hash /\ l.raw = loc[t].raw
    BY <1>3, <2>1 DEF Local
  <2>3. Keep(t, l)  BY <1>5
  <2> HIDE DEF l
  <2>4. LocalOK("hash", cmd[t], l, cleared', challenges')
    BY <1>1, <1>3, <2>2 DEF LocalOK
  <2>5. "hash" \in Step  BY DEF Step
  <2>6. TerminalsInv'  BY <1>2, <1>5, <2>2, <2>3, <2>4, <2>5, KeepKeeps DEF Inv
  <2> QED  BY <1>1, <2>6, StepsQuietly
<1> QED  BY <1>4, <1>5 DEF Find, Query

\* A gate that is passed is recorded, and the next one is due.
LEMMA GatePasses ==
    ASSUME TerminalsInv, Grows, NEW t \in Terminals, NEW gate, NEW next,
           <<pc[t], gate, next>> \in {<<"hash", "hash", "signature">>,
                                      <<"signature", "signature", "eval">>,
                                      <<"eval", "eval", "sandbox">>,
                                      <<"probe", "sandbox", "promote">>},
           Goto(t, next), Continue,
           Keep(t, [loc[t] EXCEPT !.passed = @ \cup {gate}])
    PROVE  TerminalsInv'
<1> DEFINE l == [loc[t] EXCEPT !.passed = @ \cup {gate}]
<1>1. loc[t] \in Local /\ LocalOK(pc[t], cmd[t], loc[t], cleared', challenges')  BY Knows
<1>2. gate \in GateName /\ next \in Step  BY DEF GateName, Step
<1>3. /\ l \in Local /\ l.passed = loc[t].passed \cup {gate}
      /\ l.hash = loc[t].hash /\ l.raw = loc[t].raw
  BY <1>1, <1>2 DEF Local
<1>4. Keep(t, l)  OBVIOUS
<1> HIDE DEF l
<1>5. LocalOK(next, cmd[t], l, cleared', challenges')
  <2>1. CASE pc[t] = "hash" /\ gate = "hash" /\ next = "signature"
    BY <1>1, <1>3, <2>1 DEF LocalOK
  <2>2. CASE pc[t] = "signature" /\ gate = "signature" /\ next = "eval"
    BY <1>1, <1>3, <2>2 DEF LocalOK
  <2>3. CASE pc[t] = "eval" /\ gate = "eval" /\ next = "sandbox"
    BY <1>1, <1>3, <2>3 DEF LocalOK
  <2>4. CASE pc[t] = "probe" /\ gate = "sandbox" /\ next = "promote"
    BY <1>1, <1>3, <2>4 DEF LocalOK
  <2> QED  BY <2>1, <2>2, <2>3, <2>4
<1> QED  BY <1>2, <1>3, <1>4, <1>5, KeepKeeps

\* The four gates: each one passed is one that holds.
LEMMA GatesKeep ==
    ASSUME Inv, NEW t \in Terminals,
           HashGate(t) \/ SignatureGate(t) \/ EvalGate(t) \/ SandboxGate(t)
    PROVE  Inv'
<1>1. UNCHANGED <<remote, machine, commands>>
  BY DEF HashGate, SignatureGate, EvalGate, SandboxGate
<1>2. Grows  BY <1>1 DEF Grows, remote, machine
<1>3. \/ End(t)
      \/ \E gate, next :
           /\ <<pc[t], gate, next>> \in {<<"hash", "hash", "signature">>,
                                         <<"signature", "signature", "eval">>,
                                         <<"eval", "eval", "sandbox">>,
                                         <<"probe", "sandbox", "promote">>}
           /\ Goto(t, next) /\ Continue
           /\ Keep(t, [loc[t] EXCEPT !.passed = @ \cup {gate}])
  <2>1. CASE HashGate(t)  BY <2>1 DEF HashGate, Gate, VerifyHash
  <2>2. CASE SignatureGate(t)  BY <2>2 DEF SignatureGate, Gate, VerifySignature
  <2>3. CASE EvalGate(t)
    <3>1. ASSUME NEW beats \in BOOLEAN, ~ End(t),
                 Gate(t, "eval", "eval", "sandbox", BeatsBaseline(beats), beats)
          PROVE  /\ pc[t] = "eval" /\ Goto(t, "sandbox") /\ Continue
                 /\ Keep(t, [loc[t] EXCEPT !.passed = @ \cup {"eval"}])
      <4>1. CASE beats  BY <3>1, <4>1 DEF Gate, BeatsBaseline
      <4>2. CASE ~ beats  BY <3>1, <4>2 DEF Gate, BeatsBaseline
      <4> QED  BY <4>1, <4>2
    <3> QED  BY <2>3, <3>1 DEF EvalGate
  <2>4. CASE SandboxGate(t)
    <3>1. ASSUME NEW probe \in [completed : BOOLEAN, egress_attempted : BOOLEAN], ~ End(t),
                 Gate(t, "probe", "sandbox", "promote", SandboxClears(probe),
                      probe.completed /\ ~probe.egress_attempted)
          PROVE  /\ pc[t] = "probe" /\ Goto(t, "promote") /\ Continue
                 /\ Keep(t, [loc[t] EXCEPT !.passed = @ \cup {"sandbox"}])
      <4>1. CASE SandboxClears(probe)  BY <3>1, <4>1 DEF Gate, SandboxClears
      <4>2. CASE ~ SandboxClears(probe)  BY <3>1, <4>2 DEF Gate, SandboxClears
      <4> QED  BY <4>1, <4>2
    <3> QED  BY <2>4, <3>1 DEF SandboxGate
  <2> QED  BY <2>1, <2>2, <2>3, <2>4
<1>4. CASE End(t)  BY <1>1, <1>4, EndsQuietly
<1>5. ASSUME ~ End(t) PROVE Inv'
  <2>1. PICK gate, next :
           /\ <<pc[t], gate, next>> \in {<<"hash", "hash", "signature">>,
                                         <<"signature", "signature", "eval">>,
                                         <<"eval", "eval", "sandbox">>,
                                         <<"probe", "sandbox", "promote">>}
           /\ Goto(t, next) /\ Continue
           /\ Keep(t, [loc[t] EXCEPT !.passed = @ \cup {gate}])
    BY <1>3, <1>5
  <2>2. TerminalsInv'  BY <1>2, <2>1, GatePasses DEF Inv
  <2> QED  BY <1>1, <2>2, StepsQuietly
<1> QED  BY <1>4, <1>5

\* Copying the champion to the VM.
LEMMA ShipKeeps ==
    ASSUME Inv, NEW t \in Terminals, Ship(t)
    PROVE  Inv'
<1>1. /\ pc[t] = "sandbox" /\ vm' \in {vm, loc[t].hash}
      /\ UNCHANGED <<remote, identity, conf, cleared, commands>>
      /\ (Goto(t, "probe") /\ Continue /\ UNCHANGED loc) \/ End(t)
  BY DEF Ship
<1>2. Grows  BY <1>1 DEF Grows, remote
<1>3. loc[t] \in Local /\ LocalOK(pc[t], cmd[t], loc[t], cleared', challenges')
  BY <1>2, Knows DEF Inv
<1>4. loc[t].hash \in Hash  BY <1>1, <1>3 DEF LocalOK
<1>5. MachineInv'  BY <1>1, <1>4 DEF Inv, MachineInv, ChampionWasGated
<1>6. TerminalsInv'
  <2>1. CASE End(t)  BY <1>2, <2>1, EndKeeps DEF Inv
  <2>2. CASE Goto(t, "probe") /\ Continue /\ UNCHANGED loc
    <3>1. LocalOK("probe", cmd[t], loc[t], cleared', challenges')  BY <1>1, <1>3 DEF LocalOK
    <3>2. "probe" \in Step  BY DEF Step
    <3> QED  BY <1>2, <2>2, <3>1, <3>2, GotoKeeps DEF Inv
  <2> QED  BY <1>1, <2>1, <2>2
<1>7. UNCHANGED remote  BY <1>1
<1> QED  BY <1>5, <1>6, <1>7, QuietRemote DEF Inv

\* Promoting: a pull that gets here has passed all four gates.
LEMMA PromoteKeeps ==
    ASSUME Inv, NEW t \in Terminals, Promote(t)
    PROVE  Inv'
<1>1. pc[t] = "promote" /\ UNCHANGED <<remote, identity, conf, vm, commands>>  BY DEF Promote
<1>2. UNCHANGED remote  BY <1>1
<1>3. CASE End(t) /\ UNCHANGED cleared
  BY <1>1, <1>3, EndsQuietly DEF machine
<1>4. CASE /\ Goto(t, "read") /\ Continue /\ UNCHANGED loc
           /\ cleared' = IF loc[t].passed = GateName
                         THEN cleared \cup {loc[t].hash} ELSE cleared
  <2>1. Grows  BY <1>1, <1>4 DEF Grows, remote
  <2>2. loc[t] \in Local /\ LocalOK(pc[t], cmd[t], loc[t], cleared', challenges')
    BY <2>1, Knows DEF Inv
  <2>3. loc[t].hash \in Hash /\ loc[t].passed = GateName
    <3>1. {"hash", "signature", "eval", "sandbox"} \subseteq loc[t].passed /\ cmd[t] = "pull"
      BY <1>1, <2>2 DEF LocalOK
    <3>2. loc[t].passed \subseteq GateName  BY <2>2 DEF Local
    <3>3. loc[t].passed = GateName  BY <3>1, <3>2 DEF GateName
    <3> QED  BY <2>2, <3>1, <3>3 DEF LocalOK
  <2>4. cleared' = cleared \cup {loc[t].hash}  BY <1>4, <2>3
  <2>5. MachineInv'  BY <1>1, <2>3, <2>4 DEF Inv, MachineInv, ChampionWasGated
  <2>6. LocalOK("read", cmd[t], loc[t], cleared', challenges')  BY <2>2, <2>4 DEF LocalOK
  <2>7. "read" \in Step  BY DEF Step
  <2>8. TerminalsInv'  BY <1>4, <2>1, <2>6, <2>7, GotoKeeps DEF Inv
  <2> QED  BY <1>2, <2>5, <2>8, QuietRemote DEF Inv
<1> QED  BY <1>3, <1>4 DEF Promote

\* Reading instance.yaml: whatever is read names a cleared champion or none.
LEMMA ReadKeeps ==
    ASSUME Inv, NEW t \in Terminals, ReadConf(t)
    PROVE  Inv'
<1>1. /\ pc[t] = "read" /\ Goto(t, "truncate") /\ Continue
      /\ UNCHANGED <<remote, machine, commands>>
  BY DEF ReadConf
<1>2. Grows  BY <1>1 DEF Grows, remote, machine
<1>3. loc[t] \in Local /\ LocalOK(pc[t], cmd[t], loc[t], cleared', challenges')
  BY <1>2, Knows DEF Inv
<1>4. PICK raw \in {conf, EmptyConf} : Keep(t, [loc[t] EXCEPT !.raw = raw])  BY DEF ReadConf
<1>5. raw \in Conf /\ raw.champion \in cleared \cup {"none"}
  <2>1. CASE raw = conf  BY <2>1 DEF Inv, MachineInv, ChampionWasGated
  <2>2. CASE raw = EmptyConf  BY <2>2 DEF EmptyConf, Conf
  <2> QED  BY <2>1, <2>2
<1> DEFINE l == [loc[t] EXCEPT !.raw = raw]
<1>6. l \in Local /\ l.hash = loc[t].hash /\ l.raw = raw  BY <1>3, <1>5 DEF Local
<1>7. Keep(t, l)  BY <1>4
<1> HIDE DEF l
<1>8. LocalOK("truncate", cmd[t], l, cleared', challenges')
  BY <1>1, <1>2, <1>3, <1>5, <1>6 DEF LocalOK, Grows
<1>9. "truncate" \in Step  BY DEF Step
<1>10. TerminalsInv'  BY <1>1, <1>2, <1>6, <1>7, <1>8, <1>9, KeepKeeps DEF Inv
<1> QED  BY <1>1, <1>10, StepsQuietly

\* Writing instance.yaml: truncated first, then the settings read with the
\* mesh block changed.
LEMMA WriteKeeps ==
    ASSUME Inv, NEW t \in Terminals, TruncateConf(t) \/ WriteConf(t)
    PROVE  Inv'
<1>1. UNCHANGED <<remote, identity, vm, cleared, commands>>  BY DEF TruncateConf, WriteConf
<1>2. Grows  BY <1>1 DEF Grows, remote
<1>3. loc[t] \in Local /\ LocalOK(pc[t], cmd[t], loc[t], cleared', challenges')
  BY <1>2, Knows DEF Inv
<1>4. conf' \in Conf /\ conf'.champion \in cleared \cup {"none"}
  <2>1. conf \in Conf /\ conf.champion \in cleared \cup {"none"}
    BY DEF Inv, MachineInv, ChampionWasGated
  <2>2. CASE conf' = conf  BY <2>1, <2>2
  <2>3. CASE conf' = EmptyConf  BY <2>3 DEF EmptyConf, Conf
  <2>4. CASE pc[t] = "write" /\ conf' = Updated(t, loc[t].raw)
    <3>1. loc[t].raw \in Conf  BY <1>3 DEF Local
    <3>2. loc[t].raw.champion \in cleared \cup {"none"}  BY <1>1, <1>3 DEF LocalOK
    <3>3. CASE cmd[t] = "pull"
      <4>1. loc[t].hash \in cleared  BY <1>1, <1>3, <2>4, <3>3 DEF LocalOK
      <4>2. loc[t].hash \in Hash  BY <4>1 DEF Inv, MachineInv
      <4> QED  BY <2>4, <3>1, <3>3, <4>1, <4>2 DEF Updated, Conf
    <3>4. CASE cmd[t] # "pull"  BY <2>4, <3>1, <3>2, <3>4 DEF Updated, Conf
    <3> QED  BY <3>3, <3>4
  <2> QED  BY <2>2, <2>3, <2>4 DEF TruncateConf, WriteConf
<1>5. MachineInv'  BY <1>1, <1>4 DEF Inv, MachineInv, ChampionWasGated
<1>6. TerminalsInv'
  <2>1. CASE End(t)  BY <1>2, <2>1, EndKeeps DEF Inv
  <2>2. CASE pc[t] = "truncate" /\ Goto(t, "write") /\ Continue /\ UNCHANGED loc
    <3>1. LocalOK("write", cmd[t], loc[t], cleared', challenges')  BY <1>3, <2>2 DEF LocalOK
    <3>2. "write" \in Step  BY DEF Step
    <3> QED  BY <1>2, <2>2, <3>1, <3>2, GotoKeeps DEF Inv
  <2> QED  BY <2>1, <2>2 DEF TruncateConf, WriteConf
<1>7. UNCHANGED remote  BY <1>1
<1> QED  BY <1>5, <1>6, <1>7, QuietRemote DEF Inv
-----------------------------------------------------------------------------
(* The other steps, and the invariant.                                     *)

\* Steps of the tracker and of other nodes, which touch no command.
LEMMA AroundKeeps ==
    ASSUME RemoteInv', AroundType', Inv, challenges \subseteq challenges',
           UNCHANGED <<machine, pc, cmd, loc, commands>>
    PROVE  Inv'
<1>1. MachineInv'  BY QuietMachine DEF Inv
<1>2. TerminalsInv'
  <2>1. Grows  BY DEF Grows, machine
  <2>2. ASSUME NEW t \in Terminals PROVE LocalOK(pc[t], cmd[t], loc[t], cleared', challenges')
    BY <2>1, Knows DEF Inv
  <2> QED  BY <2>2 DEF Inv, TerminalsInv, TerminalOK
<1> QED  BY <1>1, <1>2 DEF Inv

\* A late request.
LEMMA LateArrivesKeeps ==
    ASSUME Inv, LateArrives
    PROVE  Inv'
<1>1. PICK r \in late : Carry(r) /\ late' = late \ {r}  BY DEF LateArrives
<1>2. UNCHANGED <<clock, challenges, acked, vended, others, machine, pc, cmd, loc, commands>>
  BY DEF LateArrives
<1>3. r \in Request /\ late' \subseteq Request  BY <1>1 DEF Inv, RemoteInv
<1>4. RemoteInv'  BY <1>1, <1>2, <1>3, CarryKeeps DEF Inv
<1>5. AroundType'  BY <1>2 DEF Inv, AroundType
<1> QED  BY <1>2, <1>4, <1>5, AroundKeeps

\* A tracker that has just started credits nobody and owes nobody anything.
LEMMA EmptyKeeps ==
    ASSUME NEW invite \in BOOLEAN
    PROVE  EmptyRegistry(invite) \in Registry /\ WellFormed(EmptyRegistry(invite))
<1> DEFINE reg == EmptyRegistry(invite)
<1>1. /\ [a \in {} |-> a] \in PartialFunction(Addr, Key)
      /\ [h \in {} |-> h] \in PartialFunction(Hash, Manifest)
      /\ [h \in {} |-> {}] \in PartialFunction(Hash, SUBSET Addr)
  <2>1. [a \in {} |-> a] \in [{} -> Key]  OBVIOUS
  <2>2. [h \in {} |-> h] \in [{} -> Manifest]  OBVIOUS
  <2>3. [h \in {} |-> {}] \in [{} -> SUBSET Addr]  OBVIOUS
  <2>4. {} \in SUBSET Addr /\ {} \in SUBSET Hash  OBVIOUS
  <2> QED  BY <2>1, <2>2, <2>3, <2>4 DEF PartialFunction
<1>2. reg \in Registry  BY <1>1 DEF EmptyRegistry, Registry
<1>3. WellFormed(reg)  BY DEF EmptyRegistry, WellFormed
<1> QED  BY <1>2, <1>3

\* A restarted tracker.
LEMMA RestartKeeps ==
    ASSUME Inv, Restart
    PROVE  Inv'
<1>1. /\ registry' = EmptyRegistry(registry.signal_invite)
      /\ late' = {} /\ heard' = {} /\ acked' = {}
      /\ UNCHANGED <<clock, challenges, vended, others, machine, pc, cmd, loc, commands>>
  BY DEF Restart
<1>2. registry.signal_invite \in BOOLEAN  BY DEF Inv, RemoteInv, Registry
<1>3. registry' \in Registry /\ WellFormed(registry')  BY <1>1, <1>2, EmptyKeeps
<1>4. RemoteInv'
  BY <1>1, <1>3 DEF RemoteInv, CreditIsEarned, AckedHold, EmptyRegistry
<1>5. AroundType'  BY <1>1 DEF Inv, AroundType
<1> QED  BY <1>1, <1>4, <1>5, AroundKeeps

\* The tracker's clock moves on.
LEMMA TickKeeps ==
    ASSUME Inv, Tick
    PROVE  Inv'
<1>1. /\ clock' = clock + 1
      /\ UNCHANGED <<registry, late, challenges, heard, acked, vended, others, machine,
                     pc, cmd, loc, commands>>
  BY DEF Tick
<1>2. RemoteInv'  BY <1>1, RemoteSame DEF Inv, RemoteInv
<1>3. AroundType'  BY <1>1 DEF Inv, AroundType
<1> QED  BY <1>1, <1>2, <1>3, AroundKeeps

\* Another node's request.
LEMMA OtherNodeKeeps ==
    ASSUME Inv, OtherNode
    PROVE  Inv'
<1>1. /\ others' = others + 1 /\ others < MaxOthers
      /\ UNCHANGED <<clock, late, acked, machine, pc, cmd, loc, commands>>
  BY DEF OtherNode
<1>2. others' \in 0..MaxOthers  BY <1>1, BoundAssumption DEF Inv, AroundType
<1>3. ASSUME NEW r \in Request, Carry(r), UNCHANGED <<challenges, vended>>
      PROVE  Inv'
  <2>1. RemoteInv'  BY <1>1, <1>3, CarryKeeps DEF Inv, RemoteInv
  <2>2. AroundType'  BY <1>1, <1>2, <1>3 DEF Inv, AroundType
  <2> QED  BY <1>1, <1>3, <2>1, <2>2, AroundKeeps
<1>4. ASSUME NEW k \in Peer, NEW e \in ClockError,
             challenges' = challenges \cup {[key |-> k, ts |-> clock + e]},
             UNCHANGED <<registry, heard, vended>>
      PROVE  Inv'
  <2>1. RemoteInv'  BY <1>1, <1>4, RemoteSame DEF Inv, RemoteInv
  <2>2. k \in Key /\ clock + e \in Int
    BY KeyAssumption, ClockAssumption DEF Inv, AroundType
  <2>3. AroundType'  BY <1>1, <1>2, <1>4, <2>2 DEF Inv, AroundType, Challenge
  <2> QED  BY <1>1, <1>4, <2>1, <2>3, AroundKeeps
<1>5. ASSUME NEW k \in Peer, NEW a \in Addr PROVE [op |-> "register", key |-> k, addr |-> a] \in Request
  BY KeyAssumption DEF Request
<1>6. ASSUME NEW m \in Manifest, NEW a \in Addr
      PROVE  [op |-> "announce", manifest |-> m, addr |-> a] \in Request
  BY DEF Request
<1>7. PICK k \in Peer, a \in Addr \ {Here} :
        \/ Carry([op |-> "register", key |-> k, addr |-> a]) /\ UNCHANGED <<challenges, vended>>
        \/ /\ \E m \in Manifest : Carry([op |-> "announce", manifest |-> m, addr |-> a])
           /\ UNCHANGED <<challenges, vended>>
        \/ /\ \E e \in ClockError : challenges' = challenges \cup {[key |-> k, ts |-> clock + e]}
           /\ UNCHANGED <<registry, heard, vended>>
  BY DEF OtherNode
<1>8. CASE Carry([op |-> "register", key |-> k, addr |-> a]) /\ UNCHANGED <<challenges, vended>>
  BY <1>3, <1>5, <1>8
<1>9. CASE /\ \E m \in Manifest : Carry([op |-> "announce", manifest |-> m, addr |-> a])
           /\ UNCHANGED <<challenges, vended>>
  BY <1>3, <1>6, <1>9
<1>10. CASE /\ \E e \in ClockError : challenges' = challenges \cup {[key |-> k, ts |-> clock + e]}
            /\ UNCHANGED <<registry, heard, vended>>
  BY <1>4, <1>10
<1> QED  BY <1>7, <1>8, <1>9, <1>10

\* A replayed challenge.
LEMMA ReplayKeeps ==
    ASSUME Inv, Replay
    PROVE  Inv'
<1>1. /\ \E c \in challenges : Answer(c)
      /\ UNCHANGED <<challenges, others, machine, pc, cmd, loc, commands>>
  BY DEF Replay
<1>2. RemoteInv' /\ AroundType'  BY <1>1, AnswerKeeps DEF Inv
<1> QED  BY <1>1, <1>2, AroundKeeps

\* The invariant holds at the start.
LEMMA InitInv == Init => Inv
<1> SUFFICES ASSUME Init PROVE Inv  OBVIOUS
<1>1. PICK invite \in BOOLEAN : registry = EmptyRegistry(invite)  BY DEF Init
<1>2. registry \in Registry /\ WellFormed(registry)  BY <1>1, EmptyKeeps
<1>3. RemoteInv
  BY <1>1, <1>2 DEF Init, RemoteInv, CreditIsEarned, AckedHold, EmptyRegistry
<1>4. AroundType  BY BoundAssumption DEF Init, AroundType
<1>5. MachineInv
  <2>1. EmptyConf \in Conf /\ EmptyConf.champion = "none"  BY DEF EmptyConf, Conf
  <2>2. conf \in Conf /\ conf.champion = "none"  BY <2>1 DEF Init, Conf
  <2>3. /\ commands \in 0..MaxCommands /\ identity \in OwnKey \cup {"absent", "truncated"}
        /\ vm \in Hash \cup {"none"} /\ cleared \subseteq Hash
    BY BoundAssumption DEF Init
  <2> QED  BY <2>2, <2>3 DEF MachineInv, ChampionWasGated
<1>6. TerminalsInv
  <2>1. \A t \in Terminals : TerminalOK(t)
    BY DEF Init, TerminalOK, LocalOK, Blank, EmptyConf
  <2> QED  BY <2>1, BlankType DEF Init, TerminalsInv, Step
<1> QED  BY <1>3, <1>4, <1>5, <1>6 DEF Inv

\* Every step of a command keeps it.
LEMMA ProcessKeeps ==
    ASSUME Inv, NEW t \in Terminals, Process(t)
    PROVE  Inv'
<1>1. CASE TribeRefused(t)  BY <1>1, EndsQuietly DEF TribeRefused
<1>2. CASE Ensure(t) \/ Mint(t) \/ MintWrite(t)
  BY <1>2, EnsureKeeps, MintKeeps, MintWriteKeeps
<1>3. CASE JoinRegister(t) \/ JoinPeers(t) \/ JoinCatalog(t)
  BY <1>3, JoinRegisterKeeps, JoinReadsKeep
<1>4. CASE StatusCatalog(t) \/ StatusPeers(t)  BY <1>4, StatusKeeps
<1>5. CASE SeedGate(t) \/ SeedAnnounce(t)  BY <1>5, SeedKeeps
<1>6. CASE CommunitySign(t) \/ CommunityAsk(t)  BY <1>6, SignKeeps, AskKeeps
<1>7. CASE Find(t)  BY <1>7, FindKeeps
<1>8. CASE HashGate(t) \/ SignatureGate(t) \/ EvalGate(t) \/ SandboxGate(t)
  BY <1>8, GatesKeep
<1>9. CASE Ship(t) \/ Promote(t)  BY <1>9, ShipKeeps, PromoteKeeps
<1>10. CASE ReadConf(t) \/ TruncateConf(t) \/ WriteConf(t)  BY <1>10, ReadKeeps, WriteKeeps
<1> QED  BY <1>1, <1>2, <1>3, <1>4, <1>5, <1>6, <1>7, <1>8, <1>9, <1>10 DEF Process

\* Every step keeps it.
LEMMA NextInv == Inv /\ [Next]_vars => Inv'
<1> SUFFICES ASSUME Inv, [Next]_vars PROVE Inv'  OBVIOUS
<1>1. CASE LateArrives \/ Restart \/ Tick \/ OtherNode \/ Replay
  BY <1>1, LateArrivesKeeps, RestartKeeps, TickKeeps, OtherNodeKeeps, ReplayKeeps
<1>2. ASSUME NEW t \in Terminals, Begin(t) \/ Process(t) \/ Crash(t) PROVE Inv'
  <2>1. CASE Begin(t)  BY <2>1, BeginKeeps
  <2>2. CASE Process(t)  BY <2>2, ProcessKeeps
  <2>3. CASE Crash(t)  BY <2>3, EndsQuietly DEF Crash
  <2> QED  BY <1>2, <2>1, <2>2, <2>3
<1>3. CASE UNCHANGED vars
  <2>1. UNCHANGED <<machine, pc, cmd, loc, commands>> /\ UNCHANGED remote
    BY <1>3 DEF vars, remote, machine
  <2>2. RemoteInv' /\ AroundType'  BY <2>1, QuietRemote DEF Inv
  <2> QED  BY <2>1, <2>2, AroundKeeps DEF remote
<1> QED  BY <1>1, <1>2, <1>3 DEF Next

\* Inv holds in every state.
LEMMA Invariant == Spec => []Inv
BY InitInv, NextInv, PTL DEF Spec

-----------------------------------------------------------------------------
(* The theorems.                                                           *)

\* Every variable keeps its type, and the registry its shape.
THEOREM TypeCorrect == Spec => []TypeOK
<1>1. Inv => TypeOK
  BY DEF Inv, RemoteInv, AroundType, MachineInv, TerminalsInv, TypeOK
<1> QED  BY <1>1, Invariant, PTL

\* Credit is earned by signing what the tracker has stored, and no other way.
THEOREM Credit == Spec => []CreditIsEarned
<1>1. Inv => CreditIsEarned  BY DEF Inv, RemoteInv
<1> QED  BY <1>1, Invariant, PTL

\* What the tracker has acknowledged stands until it restarts.
THEOREM Acknowledged == Spec => []AcknowledgedStands
<1>1. Inv => AcknowledgedStands
  BY DEF Inv, RemoteInv, AckedHold, AcknowledgedStands, HasSeeded
<1> QED  BY <1>1, Invariant, PTL

\* The local champion has been through every gate.
THEOREM Gated == Spec => []ChampionWasGated
<1>1. Inv => ChampionWasGated  BY DEF Inv, MachineInv
<1> QED  BY <1>1, Invariant, PTL

\* Whose answer to a challenge gives an invite.
LEMMA VendedByAnswer ==
    ASSUME Inv, Next
    PROVE  vended' = vended \/ \E c \in challenges : Answer(c)
<1>1. CASE LateArrives \/ Restart \/ Tick  BY <1>1 DEF LateArrives, Restart, Tick
<1>2. CASE OtherNode  BY <1>2 DEF OtherNode
<1>3. CASE Replay  BY <1>3 DEF Replay
<1>4. ASSUME NEW t \in Terminals, Begin(t) \/ Process(t) \/ Crash(t)
      PROVE  vended' = vended \/ \E c \in challenges : Answer(c)
  <2>1. CASE Begin(t) \/ Crash(t)  BY <2>1 DEF Begin, Crash, remote
  <2>2. CASE TribeRefused(t) \/ Ensure(t) \/ Mint(t) \/ MintWrite(t)
    BY <2>2 DEF TribeRefused, Ensure, Mint, MintWrite, remote
  <2>3. CASE JoinRegister(t) \/ JoinPeers(t) \/ JoinCatalog(t)
    BY <2>3 DEF JoinRegister, JoinPeers, JoinCatalog, Send, Query, remote
  <2>4. CASE StatusCatalog(t) \/ StatusPeers(t) \/ SeedGate(t) \/ SeedAnnounce(t)
    BY <2>4 DEF StatusCatalog, StatusPeers, SeedGate, SeedAnnounce, Send, Query, remote
  <2>5. CASE CommunitySign(t)  BY <2>5 DEF CommunitySign
  <2>6. CASE CommunityAsk(t)
    <3>1. LocalOK(pc[t], cmd[t], loc[t], cleared, challenges)
      BY DEF Inv, TerminalsInv, TerminalOK
    <3>2. [key |-> loc[t].key, ts |-> loc[t].ts] \in challenges
      BY <2>6, <3>1 DEF CommunityAsk, LocalOK
    <3> QED  BY <2>6, <3>2 DEF CommunityAsk
  <2>7. CASE Find(t) \/ HashGate(t) \/ SignatureGate(t) \/ EvalGate(t)
    BY <2>7 DEF Find, Query, HashGate, SignatureGate, EvalGate, remote
  <2>8. CASE Ship(t) \/ SandboxGate(t) \/ Promote(t)
    BY <2>8 DEF Ship, SandboxGate, Promote, remote
  <2>9. CASE ReadConf(t) \/ TruncateConf(t) \/ WriteConf(t)
    BY <2>9 DEF ReadConf, TruncateConf, WriteConf, remote
  <2> QED
    BY <1>4, <2>1, <2>2, <2>3, <2>4, <2>5, <2>6, <2>7, <2>8, <2>9 DEF Process
<1> QED  BY <1>1, <1>2, <1>3, <1>4 DEF Next

\* An invite goes to a contributor, on a challenge signed within the window.
THEOREM Invites == Spec => InviteIsEarned
<1>1. ASSUME Inv, [Next]_vars
      PROVE  \A c \in vended' \ vended :
                /\ c \in challenges
                /\ c.ts - clock \in -Skew..Skew
                /\ \E m \in heard : m.signed /\ m.producer_pubkey = c.key
  <2>1. CASE UNCHANGED vars  BY <2>1 DEF vars
  <2>2. CASE Next
    <3>1. CASE vended' = vended  BY <3>1
    <3>2. ASSUME NEW c \in challenges, Answer(c), NEW d \in vended' \ vended
          PROVE  /\ d \in challenges
                 /\ d.ts - clock \in -Skew..Skew
                 /\ \E m \in heard : m.signed /\ m.producer_pubkey = d.key
      <4> DEFINE stale == ChallengeIsStale(c.ts, clock, Skew)
      <4>1. d = c /\ Community(registry, c.key, TRUE, stale) = "ok"  BY <3>2 DEF Answer
      <4>2. ~ stale /\ HasSeeded(registry, c.key)
        <5> HIDE DEF stale
        <5> QED  BY <4>1 DEF Community
      <4>3. c.ts \in Int /\ clock \in Int /\ Skew \in Int
        BY <1>1, ClockAssumption DEF Inv, AroundType, Challenge
      <4>4. c.ts - clock \in -Skew..Skew  BY <4>2, <4>3 DEF ChallengeIsStale
      <4>5. c.key \in {m.producer_pubkey : m \in {x \in heard : x.signed}}
        BY <1>1, <4>2 DEF HasSeeded, Inv, RemoteInv, CreditIsEarned
      <4> QED  BY <4>1, <4>4, <4>5
    <3> QED  BY <1>1, <2>2, <3>1, <3>2, VendedByAnswer
  <2> QED  BY <1>1, <2>1, <2>2
<1> QED  BY <1>1, Invariant, PTL DEF InviteIsEarned, Spec

\* A refusal tells only what its caller has proved a right to.
THEOREM Refusals == Spec => []RefusalRevealsNothing
<1>1. Inv => RefusalRevealsNothing
  <2> SUFFICES ASSUME Inv, NEW key \in Key, NEW proved \in BOOLEAN, NEW stale \in BOOLEAN
               PROVE  LET answer(reg) == Community(reg, key, proved, stale)
                      IN  /\ ~(proved /\ ~stale /\ HasSeeded(registry, key))
                               => answer(registry) = answer([registry EXCEPT !.signal_invite = ~@])
                          /\ ~proved => answer(registry) = answer(EmptyRegistry(FALSE))
    BY DEF RefusalRevealsNothing
  <2> DEFINE other == [registry EXCEPT !.signal_invite = ~@]
  <2>1. other.seeded_pubkeys = registry.seeded_pubkeys  BY DEF Inv, RemoteInv, Registry
  <2> HIDE DEF other
  <2>2. ASSUME ~(proved /\ ~stale /\ HasSeeded(registry, key))
        PROVE  Community(registry, key, proved, stale) = Community(other, key, proved, stale)
    BY <2>1, <2>2 DEF Community, HasSeeded
  <2>3. ASSUME ~proved
        PROVE  Community(registry, key, proved, stale)
                  = Community(EmptyRegistry(FALSE), key, proved, stale)
    BY <2>3 DEF Community
  <2> QED  BY <2>2, <2>3 DEF other
<1> QED  BY <1>1, Invariant, PTL

=============================================================================
