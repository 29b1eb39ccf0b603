-------------------------------- MODULE Hive --------------------------------
(* The hive: a console that mints an automation key, hands a new Mac its      *)
(* bootstrap, adopts it over SSH, and keeps the roster of nodes in            *)
(* instance.yaml; and the two readers of that roster, resolve and route.      *)
(* (commands/node.py, hive/sot.py, hive/route.py, hive/capabilities.py)       *)
(*                                                                            *)
(* Every command that writes the roster loads the whole file, changes one     *)
(* row and writes the whole file back, with no lock: Procs are the consoles   *)
(* that may do so at once.                                                    *)
EXTENDS Naturals, FiniteSets

CONSTANTS Names,      \* keys of the nodes block
          Legacy,     \* MagicDNS stems that are no roster key, kept as aliases
          Literals,   \* hosts that are no bare stem: an IPv4 address, a dotted name
          StemOf,     \* the stem a literal begins with, "" for an address
          Macs,       \* the Macs to adopt, each reached at its own address
          Procs,      \* commands that may run at once
          Adopters,   \* those that may be an adopt
          MaxEvents   \* pairs minted and roster writes, together (bound)

ASSUME HiveAssumption ==
    /\ Names \cap Legacy = {}
    /\ Adopters \subseteq Procs /\ MaxEvents \in Nat

ASSUME HiveHosts ==
    /\ "" \notin Legacy /\ Literals \cap (Names \cup Legacy \cup {""}) = {}
    /\ StemOf \in [Literals -> Names \cup Legacy \cup {""}]

\* A preference is a word or hub:<name>, the bare name here.
ASSUME HivePreferences == Names \cap {"", "fastest", "primary", "local"} = {}

VARIABLES priv, pub,     \* ~/.ssh/sanctum_automation{,.pub}: a pair's number, 0 when absent
          mac,           \* the keys in each Mac's authorized_keys
          handoff,       \* the public key in the last artifact built, script or pkg
          roster, bak,   \* instance.yaml nodes, and the .bak beside it
          proc,          \* the command each console is in
          minted, writes \* counters under the bound

hiveVars == <<priv, pub, mac, handoff, roster, bak, proc, minted, writes>>

Stems == Names \cup Legacy
\* Room for one more of what the bound counts.
Room == minted + writes < MaxEvents

Nothing == [d \in {} |-> d]
Status == {"absent", "offline", "online"}
Caps == {"vault_authority", "inference", "local_inference"}

\* A row: type and tier, the two address fields, aliases, declared capabilities.
Row == [kind: {"primary", "peer", "satellite"}, ts: Stems \cup {""},
        host: Stems \cup Literals \cup {""}, alias: SUBSET Legacy, caps: SUBSET Caps]

Rosters == UNION {[D -> Row] : D \in SUBSET Names}

---------------------------------------------------------------------------
\* What the roster means to its readers.

\* hive/capabilities.py: the declared list wins, else the type and tier say.
capabilities_of(row) ==
    IF row.caps # {} THEN row.caps
    ELSE CASE row.kind = "primary" -> {"vault_authority", "inference"}
           [] row.kind = "peer" -> {"inference"}
           [] row.kind = "satellite" -> {"local_inference"}

candidates_for(cap, nodes) == {n \in DOMAIN nodes : cap \in capabilities_of(nodes[n])}

\* The unique primary hub; without any, the only hub; else none ("").
primary_node_name(nodes) ==
    LET primaries == {n \in DOMAIN nodes : nodes[n].kind = "primary"}
        hubs == {n \in DOMAIN nodes : nodes[n].kind # "satellite"}
        only(S) == IF Cardinality(S) = 1 THEN CHOOSE n \in S : TRUE ELSE ""
    IN  only(IF primaries = {} THEN hubs ELSE primaries)

\* A host up to its first dot; nothing a status has a key for, of an address.
Label(h) == IF h \in Literals THEN StemOf[h] ELSE h

\* The stem a row is known by on the tailnet, for the online map.
KnownBy(n, row) == IF row.ts # "" THEN row.ts ELSE IF row.host # "" THEN Label(row.host) ELSE n

\* What one stem shows in a tailscale status; an address is never a key of it.
Shows(status, s) == IF s \in DOMAIN status THEN status[s] ELSE "absent"

_online_map(status, nodes) ==
    [n \in DOMAIN nodes |->
        LET s == Shows(status, KnownBy(n, nodes[n]))
        IN  IF s # "absent" THEN s ELSE Shows(status, n)]

Routed(ok, S) == {[ok |-> ok, node |-> n] : n \in S}

\* (mutant) no candidate online: any of them will do
PoolOfAll(cands, online) ==
    LET up == {n \in cands : online[n] = "online"}
    IN  IF up # {} THEN up ELSE cands

\* Online candidates first, then those not known to be offline, then any.
Pool(cands, online) ==
    LET up == {n \in cands : online[n] = "online"}
        maybe == {n \in cands : online[n] # "offline"}
    IN  IF up # {} THEN up ELSE IF maybe # {} THEN maybe ELSE cands

\* pick_node: the answers it may give (the first candidate of a pool by
\* name order is left open).
pick_node(cap, nodes, prefer, local, status) ==
    LET cands == candidates_for(cap, nodes)
        online == _online_map(status, nodes)
        pool == Pool(cands, online)
        primary == primary_node_name(nodes)
        fastest == IF primary \in pool THEN Routed(TRUE, {primary})
                   ELSE IF local \in pool THEN Routed(TRUE, {local})
                   ELSE Routed(TRUE, pool)
    IN  IF cands = {} THEN Routed(FALSE, {""})
        ELSE CASE prefer \in Names ->
                    IF prefer \in cands THEN Routed(online[prefer] # "offline", {prefer})
                                        ELSE Routed(FALSE, {""})
               [] prefer = "primary" ->
                    IF primary \in cands THEN Routed(online[primary] # "offline", {primary})
                                         ELSE Routed(FALSE, {""})
               [] prefer = "local" ->
                    IF local \in cands THEN Routed(TRUE, {local}) ELSE fastest
               [] prefer = "fastest" -> fastest

---------------------------------------------------------------------------
\* resolve_node_address, over one read of the status (an empty function when
\* tailscale is missing or failed) and the stems a later `tailscale ip` finds.

\* The stems tried, in order: the tailscale name, the aliases, the host.
FirstStems(row) == {s \in {row.ts} : s # ""}
OtherStems(row) == (row.alias \cup {h \in {Label(row.host)} : h # ""}) \ FirstStems(row)
TriedStems(row) == FirstStems(row) \cup OtherStems(row)

\* The node a name or an alias of it stands for.
Meant(raw, nodes) ==
    IF raw \in DOMAIN nodes THEN {raw}
    ELSE {n \in DOMAIN nodes : raw \in nodes[n].alias}

Answer(ok, address, source) == [ok |-> ok, address |-> address, source |-> source]
Unresolved == Answer(FALSE, "", "error")

\* What is left once no tried stem is online and there is no literal host.
LookUp(n, row, status, found) ==
    LET asked == ({row.ts, row.host, n} \cap Stems) \cap found
    IN  IF asked # {} THEN {Answer(TRUE, s, "ip") : s \in asked}
        ELSE IF row.host # "" THEN {Answer(TRUE, row.host, "host")}
        ELSE IF row.ts # "" /\ status = Nothing THEN {Answer(TRUE, row.ts, "tailscale_name")}
        ELSE {Unresolved}

\* (mutant) the live lookup is asked before the offline verdict of the status
ResolveRowOpen(n, row, status, found) ==
    LET up == {s \in TriedStems(row) : Shows(status, s) = "online"}
    IN  IF up # {} THEN {Answer(TRUE, s, "tailscale") : s \in up}
        ELSE IF row.host \in Literals THEN {Answer(TRUE, row.host, "host")}
        ELSE LookUp(n, row, status, found)

ResolveRow(n, row, status, found) ==
    LET up == {s \in TriedStems(row) : Shows(status, s) = "online"}
        first == IF up \cap FirstStems(row) # {} THEN FirstStems(row) ELSE up
    IN  IF up # {} THEN {Answer(TRUE, s, "tailscale") : s \in first}
        ELSE IF row.host \in Literals THEN {Answer(TRUE, row.host, "host")}
        ELSE IF \E s \in TriedStems(row) : Shows(status, s) = "offline" THEN {Unresolved}
        ELSE LookUp(n, row, status, found)

resolve_node_address(raw, nodes, status, found) ==
    IF Meant(raw, nodes) = {} THEN {Unresolved}
    ELSE UNION {ResolveRow(n, nodes[n], status, found) : n \in Meant(raw, nodes)}

---------------------------------------------------------------------------
Idle == [at |-> "idle", cmd |-> "", name |-> "", host |-> "", mac |-> "",
         key |-> 0, ok |-> TRUE, held |-> FALSE, copy |-> Nothing]

HiveInit ==
    /\ priv = 0 /\ pub = 0 /\ minted = 0 /\ writes = 0
    /\ mac = [m \in Macs |-> {}]
    /\ handoff = 0
    /\ roster = Nothing /\ bak = Nothing
    /\ proc = [p \in Procs |-> Idle]

\* ssh-keygen writes both halves; over a private half that is already there it
\* asks first, and what it is told decides.
_generate_automation_key ==
    /\ pub = 0 /\ Room
    /\ minted' = minted + 1 /\ priv' = minted + 1 /\ pub' = minted + 1

\* bootstrap-script: mint the pair if no .pub is there, embed the public half.
node_bootstrap_script ==
    /\ \/ _generate_automation_key
       \/ pub # 0 /\ UNCHANGED <<priv, pub, minted>>
    /\ handoff' = pub'
    /\ UNCHANGED <<mac, roster, bak, proc, writes>>

\* The operator deletes the pair, or one half of it (the fix line of every key
\* error says so).
LoseKey ==
    /\ \/ pub # 0 /\ pub' = 0 /\ UNCHANGED priv
       \/ priv # 0 /\ priv' = 0 /\ UNCHANGED pub
    /\ UNCHANGED <<mac, handoff, roster, bak, proc, minted, writes>>

\* The artifact at the new Mac's keyboard: Remote Login, the key, the power
\* settings. The script stops at the first command that fails (set -e), the pkg
\* goes on past each and exits 0; either may end with the key not there.
RunBootstrap(m) ==
    /\ handoff # 0
    /\ mac' = [mac EXCEPT ![m] = @ \cup {handoff}]
    /\ UNCHANGED <<priv, pub, handoff, roster, bak, proc, minted, writes>>

\* The Mac's own user takes a key out of authorized_keys.
EditsHome(m) ==
    /\ \E k \in mac[m] : mac' = [mac EXCEPT ![m] = @ \ {k}]
    /\ UNCHANGED <<priv, pub, handoff, roster, bak, proc, minted, writes>>

---------------------------------------------------------------------------
\* adopt, one remote probe a step: the Mac may change between any two of them.

Goto(p, at) == proc' = [proc EXCEPT ![p].at = at]
\* (mutant) the next command starts from what this one had loaded
LeavesLoaded(p) == proc' = [proc EXCEPT ![p].at = "idle"]

Leaves(p) == proc' = [proc EXCEPT ![p] = Idle]
NoWrite == UNCHANGED <<priv, pub, mac, handoff, roster, bak, minted, writes>>

\* Both halves must be there; the public half is read now and used at L4.
AdoptBegins(p, m, host) ==
    /\ p \in Adopters /\ proc[p] = Idle /\ priv # 0 /\ pub # 0 /\ Room
    /\ proc' = [proc EXCEPT ![p] = [Idle EXCEPT !.at = "reach", !.cmd = "adopt", !.mac = m,
                                                !.host = host, !.key = pub]]
    /\ NoWrite

\* L1: polled until port 22 answers or the wait runs out.
AdoptReach(p) ==
    /\ proc[p].at = "reach"
    /\ Goto(p, "auth") \/ Leaves(p)
    /\ NoWrite

\* L2: the login itself, pinned to the private half. A dropped connection
\* reads as a refusal here and in every later probe.
_probe_auth(p) ==
    /\ proc[p].at = "auth"
    /\ \/ /\ priv # 0 /\ priv \in mac[proc[p].mac]
          /\ Goto(p, "identity")
       \/ Leaves(p)
    /\ NoWrite

\* L3: hostname, version, architecture.
_probe_identity(p) ==
    /\ proc[p].at = "identity"
    /\ \E read \in {TRUE, FALSE} :
         /\ read => priv \in mac[proc[p].mac]
         /\ proc' = [proc EXCEPT ![p].at = "hygiene", ![p].ok = @ /\ read]
    /\ NoWrite

\* (mutant) being let in is taken for the key being there
HygieneOKByLogin(p) == priv \in mac[proc[p].mac]

\* L4: our public key in authorized_keys (read also says the permissions are
\* 700 and 600).
HygieneOK(p) == proc[p].key \in mac[proc[p].mac]

\* held is the truth at that probe, kept beside the verdict to compare with.
_probe_key_hygiene(p) ==
    /\ proc[p].at = "hygiene"
    /\ \E read \in {TRUE, FALSE} :
         /\ read => priv \in mac[proc[p].mac]
         /\ proc' = [proc EXCEPT ![p].at = "register", ![p].ok = @ /\ read /\ HygieneOK(p),
                                 ![p].held = proc[p].key \in mac[proc[p].mac]]
    /\ NoWrite

\* L5 only warns, so it decides nothing; L6 begins by loading the roster.
AdoptLoads(p, name) ==
    /\ proc[p].at = "register"
    /\ IF proc[p].ok
       THEN proc' = [proc EXCEPT ![p].at = "write", ![p].name = name, ![p].copy = roster]
       ELSE Leaves(p)
    /\ NoWrite

---------------------------------------------------------------------------
\* The other two writers: load now, write later.
Writing == {"write", "open", "put"}

DeclareLoads(p, name) ==
    /\ proc[p] = Idle /\ Room
    /\ ~(name \in DOMAIN roster /\ roster[name].kind = "primary")
    /\ proc' = [proc EXCEPT ![p] = [Idle EXCEPT !.at = "write", !.cmd = "declare-peer",
                                                !.name = name, !.copy = roster]]
    /\ NoWrite

EnsureLoads(p, name) ==
    /\ proc[p] = Idle /\ Room
    /\ proc' = [proc EXCEPT ![p] = [Idle EXCEPT !.at = "write", !.cmd = "ensure-hub",
                                                !.name = name, !.copy = roster]]
    /\ NoWrite

\* The row each command leaves under its name. Adopt and declare-peer replace
\* it; ensure-hub keeps what the row already has and forces type and tier.
RowAfter(c) ==
    CASE c.cmd = "adopt" ->
           [kind |-> "satellite", ts |-> IF c.host \in Literals THEN "" ELSE c.host,
            host |-> c.host, alias |-> {}, caps |-> {}]
      [] c.cmd = "declare-peer" ->
           [kind |-> "peer", ts |-> c.name, host |-> "", alias |-> {}, caps |-> {"inference"}]
      [] c.cmd = "ensure-hub" ->
           LET old == IF c.name \in DOMAIN c.copy THEN c.copy[c.name]
                      ELSE [kind |-> "primary", ts |-> "", host |-> "", alias |-> {}, caps |-> {}]
           IN  [old EXCEPT !.kind = "primary",
                           !.ts = IF @ = "" THEN c.name ELSE @,
                           !.caps = IF @ = {} THEN {"vault_authority", "inference"} ELSE @]

With(nodes, name, row) ==
    [n \in DOMAIN nodes \cup {name} |-> IF n = name THEN row ELSE nodes[n]]

\* .bak takes the text the file has at the write, not the text that was loaded.
Backup(p) == roster

\* register_node and its like: the text there is now goes to .bak, the file is
\* opened, which empties it, and the whole of the copy is written.
BacksUp(p) ==
    /\ proc[p].at = "write" /\ Room
    /\ bak' = Backup(p) /\ Goto(p, "open")
    /\ UNCHANGED <<priv, pub, mac, handoff, roster, minted, writes>>

Opens(p) ==
    /\ proc[p].at = "open"
    /\ roster' = Nothing /\ Goto(p, "put")
    /\ UNCHANGED <<priv, pub, mac, handoff, bak, minted, writes>>

WriteRoster(p) ==
    /\ proc[p].at = "put" /\ Room
    /\ roster' = With(proc[p].copy, proc[p].name, RowAfter(proc[p]))
    /\ writes' = writes + 1
    /\ IF proc[p].cmd = "adopt" THEN Goto(p, "readback") ELSE Leaves(p)
    /\ UNCHANGED <<priv, pub, mac, handoff, bak, minted>>

\* A write that could not be made leaves the roster as it is by then: not adopted.
WriteFails(p) ==
    /\ proc[p].at \in Writing
    /\ Leaves(p) /\ NoWrite

\* L6 trusts only what instance.yaml now says of the row.
ReadBack(p) ==
    /\ proc[p].at = "readback"
    /\ LET n == proc[p].name
           written == n \in DOMAIN roster /\ roster[n].host = proc[p].host
       IN  IF written THEN Goto(p, "adopted") ELSE Leaves(p)
    /\ NoWrite

AdoptEnds(p) ==
    /\ proc[p].at = "adopted"
    /\ Leaves(p) /\ NoWrite

\* By hand, as declare-peer's fix line says: a legacy stem becomes an alias.
EditAlias(name, s) ==
    /\ name \in DOMAIN roster /\ s \notin roster[name].alias
    /\ roster' = [roster EXCEPT ![name].alias = @ \cup {s}]
    /\ UNCHANGED <<priv, pub, mac, handoff, bak, proc, minted, writes>>

---------------------------------------------------------------------------
HiveNext ==
    \/ node_bootstrap_script
    \/ LoseKey
    \/ \E m \in Macs : RunBootstrap(m) \/ EditsHome(m)
    \/ \E p \in Procs :
         \/ \E m \in Macs, host \in Legacy \cup Literals : AdoptBegins(p, m, host)
         \/ AdoptReach(p)
         \/ _probe_auth(p)
         \/ _probe_identity(p)
         \/ _probe_key_hygiene(p)
         \/ \E name \in Names : AdoptLoads(p, name) \/ DeclareLoads(p, name) \/ EnsureLoads(p, name)
         \/ BacksUp(p)
         \/ Opens(p)
         \/ WriteRoster(p)
         \/ WriteFails(p)
         \/ ReadBack(p)
         \/ AdoptEnds(p)
    \/ \E name \in Names, s \in Legacy : EditAlias(name, s)

HiveSpec == HiveInit /\ [][HiveNext]_hiveVars

---------------------------------------------------------------------------
\* The roster is a function from names to rows, the pairs are numbered in
\* the order they were minted, and no command is left half way when it is idle.
HiveTypeOK ==
    /\ priv \in 0..minted /\ pub \in 0..minted /\ minted \in Nat /\ writes \in Nat /\ minted + writes <= MaxEvents
    /\ \A m \in Macs : mac[m] \subseteq 1..minted
    /\ roster \in Rosters /\ bak \in Rosters
    /\ \A p \in Procs : proc[p].at = "idle" => proc[p] = Idle

\* A Mac is announced as adopted only if the public key this adoption started
\* from was in its authorized_keys when they were read, whichever half of the
\* console's pair was lost or minted again and whatever its user did since.
AdoptionIsEarned == \A p \in Procs : proc[p].at = "adopted" => proc[p].held

\* "every other block is preserved, a <file>.bak is written first": a row a write
\* drops or changes beside its own is at least in .bak as it was.
LostRowIsInBackup ==
    [][\A p \in Procs : proc[p].at \in {"open", "put"} /\ roster' # roster /\ proc'[p] # proc[p] =>
         \A n \in DOMAIN roster : n # proc[p].name =>
            \/ n \in DOMAIN roster' /\ roster'[n] = roster[n]
            \/ n \in DOMAIN bak' /\ bak'[n] = roster[n]]_hiveVars

\* The statuses a console may read: one of each stem, or none at all.
Statuses == [Stems -> Status] \cup {Nothing}

\* A row shown down: some stem of it is offline and none is online.
ShownDown(row, status) ==
    LET shown == {Shows(status, s) : s \in TriedStems(row)}
    IN  "offline" \in shown /\ "online" \notin shown

\* "Fail-closed when the only known address is an offline tailnet peer", every host
\* of the tailnet included, the dotted ones as well.
ResolveFailsClosed ==
    \A n \in DOMAIN roster, status \in Statuses, found \in {{}, Stems} :
        LET host == roster[n].host
        IN  (host \in Literals => StemOf[host] # "") /\ ShownDown(roster[n], status) =>
              \A a \in resolve_node_address(n, roster, status, found) : ~a.ok

\* The same of a row that has a bare stem for its host, or no host: whatever a
\* later lookup finds, it is not given an address on the tailnet.
StemsFailClosed ==
    \A n \in DOMAIN roster, status \in Statuses, found \in {{}, Stems} :
        roster[n].host \notin Literals /\ ShownDown(roster[n], status) =>
              \A a \in resolve_node_address(n, roster, status, found) : ~a.ok

\* A route to a node the status shows offline is given only when every node
\* that offers the capability is shown offline.
RouteIsLive ==
    \A cap \in Caps, status \in Statuses :
        \A a \in pick_node(cap, roster, "fastest", "", status) :
           LET online == _online_map(status, roster)
           IN  (a.ok /\ online[a.node] = "offline") =>
                 \A n \in candidates_for(cap, roster) : online[n] = "offline"
=============================================================================
