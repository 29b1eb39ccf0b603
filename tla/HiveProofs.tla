----------------------------- MODULE HiveProofs -----------------------------
(* What is proved of the hive: an adoption announced was earned, and a node    *)
(* known by bare stems that are down is given no address, for any number of    *)
(* consoles, Macs and names.                                                   *)
EXTENDS Hive, TLAPS

Places == {"idle", "reach", "auth", "identity", "hygiene", "register", "write", "open", "put",
           "readback", "adopted"}

Command == [at : Places, cmd : {"", "adopt", "declare-peer", "ensure-hub"}, name : Names \cup {""},
            host : Legacy \cup Literals \cup {""}, mac : Macs \cup {""}, key : Nat, ok : BOOLEAN,
            held : BOOLEAN, copy : Rosters]

\* A command that is about to write knows its row; an adopt that has come past
\* its probes holds what the fourth of them read.
Sound(c) ==
    /\ c \in Command
    /\ c.at = "idle" => c = Idle
    /\ c.at \notin {"idle"} \cup Writing => c.cmd = "adopt" /\ c.host \in Legacy \cup Literals
    /\ c.at \in Writing => /\ c.name \in Names /\ c.cmd # ""
                           /\ c.cmd = "adopt" => c.host \in Legacy \cup Literals
    /\ c.at = "register" /\ c.ok => c.held
    /\ c.at \in Writing /\ c.cmd = "adopt" => c.held
    /\ c.at \in {"readback", "adopted"} => c.held

Numbered ==
    /\ priv \in Nat /\ pub \in Nat /\ handoff \in Nat /\ minted \in Nat /\ writes \in Nat
    /\ priv <= minted /\ pub <= minted /\ handoff <= minted /\ minted + writes <= MaxEvents
    /\ DOMAIN mac = Macs /\ \A m \in Macs : mac[m] \subseteq 1..minted

RostersTyped == roster \in Rosters /\ bak \in Rosters

AllSound == DOMAIN proc = Procs /\ \A p \in Procs : Sound(proc[p])

HiveInv == Numbered /\ RostersTyped /\ AllSound

LEMMA NoRows == Nothing \in Rosters
<1>1. Nothing \in [{} -> Row]
  BY DEF Nothing
<1> QED BY <1>1 DEF Rosters

LEMMA IdleIsSound == Sound(Idle)
  BY NoRows DEF Sound, Idle, Command, Places, Writing

LEMMA HiveInitial == HiveInit => HiveInv
  BY NoRows, IdleIsSound, HiveAssumption DEF HiveInit, HiveInv, Numbered, RostersTyped, AllSound

LEMMA WithTyped ==
  ASSUME NEW nodes \in Rosters, NEW name \in Names, NEW row \in Row
  PROVE  With(nodes, name, row) \in Rosters
<1>1. PICK D \in SUBSET Names : nodes \in [D -> Row]
  BY DEF Rosters
<1>2. With(nodes, name, row) \in [D \cup {name} -> Row]
  BY <1>1 DEF With
<1> QED BY <1>1, <1>2 DEF Rosters

LEMMA MadeRow ==
  ASSUME NEW k \in {"primary", "peer", "satellite"}, NEW t \in Stems \cup {""},
         NEW h \in Stems \cup Literals \cup {""}, NEW a \in SUBSET Legacy, NEW c \in SUBSET Caps
  PROVE  [kind |-> k, ts |-> t, host |-> h, alias |-> a, caps |-> c] \in Row
  BY DEF Row

LEMMA RowTyped ==
  ASSUME NEW c, Sound(c), c.at \in Writing
  PROVE  RowAfter(c) \in Row
<1>1. CASE c.cmd = "adopt"
  <2>1. RowAfter(c) = [kind |-> "satellite", ts |-> IF c.host \in Literals THEN "" ELSE c.host,
            host |-> c.host, alias |-> {}, caps |-> {}]
    BY <1>1 DEF RowAfter
  <2>2. c.host \in Legacy \cup Literals
    BY <1>1 DEF Sound
  <2>3. (IF c.host \in Literals THEN "" ELSE c.host) \in Stems \cup {""} /\ c.host \in Stems \cup Literals \cup {""}
    BY <2>2 DEF Stems
  <2> QED BY <2>1, <2>3, MadeRow
<1>2. CASE c.cmd = "declare-peer"
  <2>1. RowAfter(c) = [kind |-> "peer", ts |-> c.name, host |-> "", alias |-> {}, caps |-> {"inference"}]
    BY <1>2 DEF RowAfter
  <2>2. c.name \in Stems /\ {"inference"} \subseteq Caps
    BY DEF Sound, Stems, Caps
  <2> QED BY <2>1, <2>2, MadeRow
<1>3. CASE c.cmd = "ensure-hub"
  <2> DEFINE old == IF c.name \in DOMAIN c.copy THEN c.copy[c.name]
                    ELSE [kind |-> "primary", ts |-> "", host |-> "", alias |-> {}, caps |-> {}]
  <2>1. old \in Row
    <3>1. PICK D \in SUBSET Names : c.copy \in [D -> Row]
      BY DEF Sound, Command, Rosters
    <3>2. [kind |-> "primary", ts |-> "", host |-> "", alias |-> {}, caps |-> {}] \in Row
      BY DEF Row
    <3> QED BY <3>1, <3>2
  <2>2. RowAfter(c) = [old EXCEPT !.kind = "primary",
                           !.ts = IF @ = "" THEN c.name ELSE @,
                           !.caps = IF @ = {} THEN {"vault_authority", "inference"} ELSE @]
    BY <1>3 DEF RowAfter
  <2> HIDE DEF old
  <2>3. c.name \in Stems
    BY DEF Sound, Stems
  <2>4. RowAfter(c) = [kind |-> "primary", ts |-> IF old.ts = "" THEN c.name ELSE old.ts,
                       host |-> old.host, alias |-> old.alias,
                       caps |-> IF old.caps = {} THEN {"vault_authority", "inference"} ELSE old.caps]
    <3>1. old = [kind |-> old.kind, ts |-> old.ts, host |-> old.host, alias |-> old.alias, caps |-> old.caps]
      BY <2>1 DEF Row
    <3> QED BY <2>2, <3>1
  <2>5. /\ old.ts \in Stems \cup {""} /\ old.host \in Stems \cup Literals \cup {""}
        /\ old.alias \in SUBSET Legacy /\ old.caps \in SUBSET Caps
    BY <2>1 DEF Row
  <2>6. /\ (IF old.ts = "" THEN c.name ELSE old.ts) \in Stems \cup {""}
        /\ (IF old.caps = {} THEN {"vault_authority", "inference"} ELSE old.caps) \in SUBSET Caps
    BY <2>3, <2>5 DEF Caps
  <2>7. PICK t \in Stems \cup {""}, cs \in SUBSET Caps :
          RowAfter(c) = [kind |-> "primary", ts |-> t, host |-> old.host, alias |-> old.alias, caps |-> cs]
    BY <2>4, <2>6
  <2>8. "primary" \in {"primary", "peer", "satellite"}
    OBVIOUS
  <2>9. \A h \in Stems \cup Literals \cup {""}, a \in SUBSET Legacy :
          [kind |-> "primary", ts |-> t, host |-> h, alias |-> a, caps |-> cs] \in Row
    BY ONLY t \in Stems \cup {""}, cs \in SUBSET Caps, <2>8, MadeRow
  <2> QED BY <2>5, <2>7, <2>9
<1> QED BY <1>1, <1>2, <1>3 DEF Sound, Command

\* A step of one command leaves the others where they were.
LEMMA OneMoves ==
  ASSUME HiveInv, NEW p \in Procs, NEW c, Sound(c), proc' = [proc EXCEPT ![p] = c]
  PROVE  AllSound'
  BY DEF HiveInv, AllSound

LEMMA Untouched ==
  ASSUME HiveInv, UNCHANGED <<priv, pub, mac, handoff, roster, bak, minted, writes>>
  PROVE  Numbered' /\ RostersTyped'
  BY DEF HiveInv, Numbered, RostersTyped

LEMMA LeavesKeeps ==
  ASSUME HiveInv, NEW p \in Procs, Leaves(p)
  PROVE  AllSound'
  BY OneMoves, IdleIsSound DEF Leaves

LEMMA GotoKeeps ==
  ASSUME HiveInv, NEW p \in Procs, NEW at \in Places, Goto(p, at), Sound([proc[p] EXCEPT !.at = at])
  PROVE  AllSound'
  BY OneMoves DEF Goto

LEMMA KeysKeep ==
  ASSUME HiveInv,
         node_bootstrap_script \/ LoseKey \/ \E m \in Macs : RunBootstrap(m) \/ EditsHome(m)
  PROVE  HiveInv'
<1> USE DEF HiveInv, Numbered, RostersTyped, AllSound
<1>1. CASE node_bootstrap_script
  <2>1. minted <= minted' /\ minted' \in Nat /\ minted' + writes <= MaxEvents
    BY <1>1, HiveAssumption DEF node_bootstrap_script, _generate_automation_key, Room
  <2>2. priv' \in Nat /\ pub' \in Nat /\ priv' <= minted' /\ pub' <= minted'
    BY <1>1 DEF node_bootstrap_script, _generate_automation_key
  <2>3. \A m \in Macs : mac[m] \subseteq 1..minted'
    BY <2>1
  <2> QED BY <1>1, <2>1, <2>2, <2>3 DEF node_bootstrap_script
<1>2. CASE LoseKey
  BY <1>2 DEF LoseKey
<1>3. CASE \E m \in Macs : RunBootstrap(m)
  <2>1. handoff \in 1..minted
    BY <1>3 DEF RunBootstrap
  <2> QED BY <1>3, <2>1 DEF RunBootstrap
<1>4. CASE \E m \in Macs : EditsHome(m)
  BY <1>4 DEF EditsHome
<1> QED BY <1>1, <1>2, <1>3, <1>4

LEMMA ProbesKeep ==
  ASSUME HiveInv, NEW p \in Procs,
         \/ AdoptReach(p) \/ _probe_auth(p) \/ _probe_identity(p) \/ _probe_key_hygiene(p)
         \/ \E m \in Macs, host \in Legacy \cup Literals : AdoptBegins(p, m, host)
  PROVE  HiveInv'
<1>0. Sound(proc[p]) /\ pub \in Nat
  BY DEF HiveInv, AllSound, Numbered
<1>1. CASE AdoptReach(p)
  <2>1. Sound([proc[p] EXCEPT !.at = "auth"])
    BY <1>0, <1>1 DEF AdoptReach, Sound, Command, Places, Writing
  <2> QED BY <1>1, <2>1, GotoKeeps, LeavesKeeps, Untouched DEF AdoptReach, NoWrite, HiveInv, Places
<1>2. CASE _probe_auth(p)
  <2>1. Sound([proc[p] EXCEPT !.at = "identity"])
    BY <1>0, <1>2 DEF _probe_auth, Sound, Command, Places, Writing
  <2> QED BY <1>2, <2>1, GotoKeeps, LeavesKeeps, Untouched DEF _probe_auth, NoWrite, HiveInv, Places
<1>3. CASE _probe_identity(p)
  <2>1. PICK read \in BOOLEAN : proc' = [proc EXCEPT ![p] = [proc[p] EXCEPT !.at = "hygiene", !.ok = proc[p].ok /\ read]]
    BY <1>3 DEF _probe_identity
  <2>2. Sound([proc[p] EXCEPT !.at = "hygiene", !.ok = proc[p].ok /\ read])
    BY <1>0, <1>3 DEF _probe_identity, Sound, Command, Places, Writing
  <2> QED BY <1>3, <2>1, <2>2, OneMoves, Untouched DEF _probe_identity, NoWrite, HiveInv
<1>4. CASE _probe_key_hygiene(p)
  <2>1. PICK o \in BOOLEAN, h \in BOOLEAN :
          /\ proc' = [proc EXCEPT ![p] = [proc[p] EXCEPT !.at = "register", !.ok = o, !.held = h]]
          /\ o => h
    <3>1. PICK read \in BOOLEAN :
            proc' = [proc EXCEPT ![p].at = "register", ![p].ok = proc[p].ok /\ read /\ HygieneOK(p),
                                 ![p].held = proc[p].key \in mac[proc[p].mac]]
      BY <1>4 DEF _probe_key_hygiene
    <3> DEFINE o == proc[p].ok /\ read /\ HygieneOK(p)
               h == proc[p].key \in mac[proc[p].mac]
    <3>2. o \in BOOLEAN /\ h \in BOOLEAN /\ (o => h)
      BY DEF HygieneOK
    <3>3. proc' = [proc EXCEPT ![p] = [proc[p] EXCEPT !.at = "register", !.ok = o, !.held = h]]
      BY <3>1
    <3> HIDE DEF o, h
    <3> QED BY <3>2, <3>3
  <2>2. Sound([proc[p] EXCEPT !.at = "register", !.ok = o, !.held = h])
    BY <1>0, <1>4, <2>1 DEF _probe_key_hygiene, Sound, Command, Places, Writing
  <2> QED BY <1>4, <2>1, <2>2, OneMoves, Untouched DEF _probe_key_hygiene, NoWrite, HiveInv
<1>5. CASE \E m \in Macs, host \in Legacy \cup Literals : AdoptBegins(p, m, host)
  <2>1. PICK m \in Macs, host \in Legacy \cup Literals : AdoptBegins(p, m, host)
    BY <1>5
  <2>2. Sound([Idle EXCEPT !.at = "reach", !.cmd = "adopt", !.mac = m, !.host = host, !.key = pub])
    <3> DEFINE c == [Idle EXCEPT !.at = "reach", !.cmd = "adopt", !.mac = m, !.host = host, !.key = pub]
    <3>1. Idle \in Command
      BY NoRows DEF Idle, Command, Places
    <3>2. c \in Command
      BY <1>0, <2>1, <3>1 DEF Command, Places
    <3>3. c.at = "reach" /\ c.cmd = "adopt" /\ c.host = host
      BY <3>1 DEF Command
    <3> HIDE DEF c
    <3>4. Sound(c)
      BY <3>2, <3>3 DEF Sound, Writing
    <3> QED BY <3>4 DEF c
  <2> QED BY <2>1, <2>2, OneMoves, Untouched DEF AdoptBegins, NoWrite, HiveInv
<1> QED BY <1>1, <1>2, <1>3, <1>4, <1>5

LEMMA LoadsKeep ==
  ASSUME HiveInv, NEW p \in Procs, NEW name \in Names,
         AdoptLoads(p, name) \/ DeclareLoads(p, name) \/ EnsureLoads(p, name)
  PROVE  HiveInv'
<1>0. Sound(proc[p]) /\ roster \in Rosters
  BY DEF HiveInv, AllSound, RostersTyped
<1>1. CASE AdoptLoads(p, name)
  <2>1. CASE proc[p].ok
    <3>1. proc' = [proc EXCEPT ![p] = [proc[p] EXCEPT !.at = "write", !.name = name, !.copy = roster]]
      BY <1>1, <2>1 DEF AdoptLoads
    <3>2. Sound([proc[p] EXCEPT !.at = "write", !.name = name, !.copy = roster])
      BY <1>0, <1>1, <2>1 DEF AdoptLoads, Sound, Command, Places, Writing
    <3> QED BY <1>1, <3>1, <3>2, OneMoves, Untouched DEF AdoptLoads, NoWrite, HiveInv
  <2>2. CASE ~proc[p].ok
    BY <1>1, <2>2, LeavesKeeps, Untouched DEF AdoptLoads, NoWrite, HiveInv
  <2> QED BY <2>1, <2>2
<1>2. CASE DeclareLoads(p, name)
  <2>1. Sound([Idle EXCEPT !.at = "write", !.cmd = "declare-peer", !.name = name, !.copy = roster])
    BY <1>0 DEF Sound, Command, Places, Idle, Writing
  <2> QED BY <1>2, <2>1, OneMoves, Untouched DEF DeclareLoads, NoWrite, HiveInv
<1>3. CASE EnsureLoads(p, name)
  <2>1. Sound([Idle EXCEPT !.at = "write", !.cmd = "ensure-hub", !.name = name, !.copy = roster])
    BY <1>0 DEF Sound, Command, Places, Idle, Writing
  <2> QED BY <1>3, <2>1, OneMoves, Untouched DEF EnsureLoads, NoWrite, HiveInv
<1> QED BY <1>1, <1>2, <1>3

LEMMA WritesKeep ==
  ASSUME HiveInv, NEW p \in Procs, BacksUp(p) \/ Opens(p)
  PROVE  HiveInv'
<1>0. Sound(proc[p])
  BY DEF HiveInv, AllSound
<1>1. CASE BacksUp(p)
  <2>1. Sound([proc[p] EXCEPT !.at = "open"])
    BY <1>0, <1>1 DEF BacksUp, Sound, Command, Places, Writing
  <2>2. AllSound'
    BY <1>1, <2>1, GotoKeeps DEF BacksUp, Places
  <2> QED BY <1>1, <2>2 DEF BacksUp, Backup, HiveInv, Numbered, RostersTyped
<1>2. CASE Opens(p)
  <2>1. Sound([proc[p] EXCEPT !.at = "put"])
    BY <1>0, <1>2 DEF Opens, Sound, Command, Places, Writing
  <2>2. AllSound'
    BY <1>2, <2>1, GotoKeeps DEF Opens, Places
  <2> QED BY <1>2, <2>2, NoRows DEF Opens, HiveInv, Numbered, RostersTyped
<1> QED BY <1>1, <1>2

LEMMA WriteRosterKeeps ==
  ASSUME HiveInv, NEW p \in Procs, WriteRoster(p)
  PROVE  HiveInv'
<1>0. Sound(proc[p]) /\ proc[p].at = "put"
  BY DEF HiveInv, AllSound, WriteRoster
<1>1. RostersTyped'
  <2>1. RowAfter(proc[p]) \in Row /\ proc[p].copy \in Rosters /\ proc[p].name \in Names
    BY <1>0, RowTyped DEF Sound, Command, Writing
  <2>2. With(proc[p].copy, proc[p].name, RowAfter(proc[p])) \in Rosters
    BY <2>1, WithTyped
  <2> QED BY <2>2 DEF WriteRoster, HiveInv, RostersTyped
<1>2. Numbered'
  BY HiveAssumption DEF WriteRoster, Room, HiveInv, Numbered
<1>3. AllSound'
  <2>1. CASE proc[p].cmd = "adopt"
    <3>1. Sound([proc[p] EXCEPT !.at = "readback"])
      BY <1>0, <2>1 DEF Sound, Command, Places, Writing
    <3> QED BY <2>1, <3>1, GotoKeeps DEF WriteRoster, Places
  <2>2. CASE proc[p].cmd # "adopt"
    BY <2>2, LeavesKeeps DEF WriteRoster
  <2> QED BY <2>1, <2>2
<1> QED BY <1>1, <1>2, <1>3 DEF HiveInv

LEMMA EndsKeep ==
  ASSUME HiveInv, NEW p \in Procs, WriteFails(p) \/ ReadBack(p) \/ AdoptEnds(p)
  PROVE  HiveInv'
<1>0. Sound(proc[p])
  BY DEF HiveInv, AllSound
<1>1. CASE WriteFails(p) \/ AdoptEnds(p)
  BY <1>1, LeavesKeeps, Untouched DEF WriteFails, AdoptEnds, NoWrite, HiveInv
<1>2. CASE ReadBack(p)
  <2>1. Sound([proc[p] EXCEPT !.at = "adopted"])
    BY <1>0, <1>2 DEF ReadBack, Sound, Command, Places, Writing
  <2> QED BY <1>2, <2>1, GotoKeeps, LeavesKeeps, Untouched DEF ReadBack, NoWrite, HiveInv, Places
<1> QED BY <1>1, <1>2

LEMMA EditKeeps ==
  ASSUME HiveInv, NEW name \in Names, NEW s \in Legacy, EditAlias(name, s)
  PROVE  HiveInv'
<1>1. PICK D \in SUBSET Names : roster \in [D -> Row]
  BY DEF HiveInv, RostersTyped, Rosters
<1>2. name \in D /\ roster[name] \in Row
  BY <1>1 DEF EditAlias
<1>3. [roster[name] EXCEPT !.alias = @ \cup {s}] \in Row
  BY <1>2 DEF Row
<1>4. roster' = [roster EXCEPT ![name] = [roster[name] EXCEPT !.alias = @ \cup {s}]]
  BY DEF EditAlias
<1>5. roster' \in [D -> Row]
  BY <1>1, <1>3, <1>4
<1>6. roster' \in Rosters
  BY <1>5 DEF Rosters
<1> QED BY <1>6 DEF EditAlias, HiveInv, Numbered, RostersTyped, AllSound

LEMMA HiveStep == HiveInv /\ [HiveNext]_hiveVars => HiveInv'
<1> SUFFICES ASSUME HiveInv, [HiveNext]_hiveVars PROVE HiveInv'
  OBVIOUS
<1>1. CASE UNCHANGED hiveVars
  BY <1>1 DEF hiveVars, HiveInv, Numbered, RostersTyped, AllSound
<1>2. CASE HiveNext
  BY <1>2, KeysKeep, ProbesKeep, LoadsKeep, WritesKeep, WriteRosterKeeps, EndsKeep, EditKeeps DEF HiveNext
<1> QED BY <1>1, <1>2

\* The roster stays a function from names to rows, the pairs are numbered in the
\* order they were minted, and a command that has ended has left nothing loaded.
THEOREM HiveTypes == HiveSpec => []HiveTypeOK
<1>1. HiveInv => HiveTypeOK
  <2> SUFFICES ASSUME HiveInv PROVE HiveTypeOK
    OBVIOUS
  <2>1. priv \in 0..minted /\ pub \in 0..minted /\ minted \in Nat /\ writes \in Nat /\ minted + writes <= MaxEvents
    BY DEF HiveInv, Numbered
  <2>2. \A m \in Macs : mac[m] \subseteq 1..minted
    BY DEF HiveInv, Numbered
  <2>3. \A p \in Procs : proc[p].at = "idle" => proc[p] = Idle
    BY DEF HiveInv, AllSound, Sound
  <2> QED BY <2>1, <2>2, <2>3 DEF HiveInv, RostersTyped, HiveTypeOK
<1> QED BY <1>1, HiveInitial, HiveStep, PTL DEF HiveSpec

\* A Mac is announced as adopted only if the public key this adoption began with
\* was in its authorized_keys when they were read, for any number of consoles
\* minting, losing and writing beside it. (adopt, _probe_key_hygiene)
THEOREM AdoptionsAreEarned == HiveSpec => []AdoptionIsEarned
<1>1. HiveInv => AdoptionIsEarned
  BY DEF HiveInv, AllSound, Sound, AdoptionIsEarned
<1> QED BY <1>1, HiveInitial, HiveStep, PTL DEF HiveSpec

\* A node with a bare stem for its host, or none, whose stems are known to be
\* offline, none of them online, is refused an address whatever a later lookup
\* would find, in every roster the commands can write. (resolve_node_address)
THEOREM OfflineIsRefused == HiveSpec => []StemsFailClosed
<1>1. StemsFailClosed
  <2> SUFFICES ASSUME NEW n \in DOMAIN roster, NEW status \in Statuses, NEW found,
                      roster[n].host \notin Literals,
                      "offline" \in {Shows(status, s) : s \in TriedStems(roster[n])},
                      "online" \notin {Shows(status, s) : s \in TriedStems(roster[n])}
               PROVE  \A a \in resolve_node_address(n, roster, status, found) : ~a.ok
    BY DEF StemsFailClosed, ShownDown
  <2>1. ResolveRow(n, roster[n], status, found) = {Unresolved}
    <3>1. {s \in TriedStems(roster[n]) : Shows(status, s) = "online"} = {}
      OBVIOUS
    <3>2. \E s \in TriedStems(roster[n]) : Shows(status, s) = "offline"
      OBVIOUS
    <3> QED BY <3>1, <3>2 DEF ResolveRow
  <2>2. Meant(n, roster) = {n}
    BY DEF Meant
  <2>3. resolve_node_address(n, roster, status, found) = {Unresolved}
    BY <2>1, <2>2 DEF resolve_node_address
  <2>4. ~Unresolved.ok
    BY DEF Unresolved, Answer
  <2> QED BY <2>3, <2>4
<1> QED BY <1>1, PTL

\* What is left to choose from: nobody shown offline, unless everybody is.
LEMMA PoolIsLive ==
  ASSUME NEW cands, NEW online, NEW n \in Pool(cands, online), online[n] = "offline"
  PROVE  \A m \in cands : online[m] = "offline"
<1>1. {m \in cands : online[m] = "online"} = {}
  BY DEF Pool
<1>2. {m \in cands : online[m] # "offline"} = {}
  BY <1>1 DEF Pool
<1> QED BY <1>2

\* A capability is routed to a node shown offline only when every node that offers
\* it is, in every roster the commands can write. (pick_node, _online_map)
THEOREM RoutesAreLive == HiveSpec => []RouteIsLive
<1>1. RouteIsLive
  <2> SUFFICES ASSUME NEW cap \in Caps, NEW status \in Statuses,
                      NEW a \in pick_node(cap, roster, "fastest", "", status), a.ok,
                      _online_map(status, roster)[a.node] = "offline"
               PROVE  \A n \in candidates_for(cap, roster) :
                         _online_map(status, roster)[n] = "offline"
    BY DEF RouteIsLive
  <2> DEFINE cands == candidates_for(cap, roster)
             online == _online_map(status, roster)
             pool == Pool(cands, online)
             primary == primary_node_name(roster)
  <2>1. "fastest" \notin Names
    BY HivePreferences DEF HivePreferences
  <2>2. CASE cands = {}
    BY <2>2
  <2>3. CASE cands # {}
    <3>1. \/ primary \in pool /\ a \in Routed(TRUE, {primary})
          \/ "" \in pool /\ a \in Routed(TRUE, {""})
          \/ a \in Routed(TRUE, pool)
      <4> HIDE DEF primary
      <4> QED BY <2>1, <2>3 DEF pick_node, primary
    <3> HIDE DEF pool, primary
    <3>2. a.node \in pool
      <4>1. PICK S \in {{primary}, {""}, pool} : S \subseteq pool /\ a \in Routed(TRUE, S)
        BY <3>1
      <4>2. PICK n \in S : a = [ok |-> TRUE, node |-> n]
        BY <4>1 DEF Routed
      <4> QED BY <4>1, <4>2
    <3> QED BY <3>2, PoolIsLive DEF pool
  <2> QED BY <2>2, <2>3
<1> QED BY <1>1, PTL
=============================================================================
