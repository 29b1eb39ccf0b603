-------------------------- MODULE TrackerRegistry --------------------------
(***************************************************************************)
(* The tracker's data rules (mesh/tracker.py, TrackerRegistry): who is at  *)
(* which address, which champions are advertised and by whom, and which    *)
(* keys have contributed.  Everything is in memory.                        *)
(*                                                                         *)
(* A manifest's signature is one bit: whether it verifies under the key it *)
(* names as its producer.  The order of peers and seeders is left out.     *)
(***************************************************************************)
EXTENDS Integers

CONSTANTS Key,      \* mesh public keys
          Addr,     \* tailnet addresses
          Hash      \* content hashes

Manifest == [content_hash : Hash, producer_pubkey : Key, signed : BOOLEAN]

\* f with k mapped to v, k added to its domain if it is not there.
Put(f, k, v) == [x \in DOMAIN f \cup {k} |-> IF x = k THEN v ELSE f[x]]

\* Functions from part of S to T.
PartialFunction(S, T) == UNION {[D -> T] : D \in SUBSET S}

Registry == [peers : SUBSET Addr, identities : PartialFunction(Addr, Key),
             catalog : PartialFunction(Hash, Manifest),
             seeders : PartialFunction(Hash, SUBSET Addr),
             seeded_pubkeys : SUBSET Key, signal_invite : BOOLEAN]

\* Whoever has an identity or seeds something is a peer, every advertised
\* champion has its seeders, and is filed under its own hash.
WellFormed(reg) ==
    /\ DOMAIN reg.identities \subseteq reg.peers
    /\ DOMAIN reg.seeders = DOMAIN reg.catalog
    /\ \A h \in DOMAIN reg.catalog : /\ reg.catalog[h].content_hash = h
                                     /\ reg.seeders[h] # {} /\ reg.seeders[h] \subseteq reg.peers

\* A tracker that has just started; invite: a community is configured on it.
EmptyRegistry(invite) ==
    [peers |-> {}, identities |-> [a \in {} |-> a], catalog |-> [h \in {} |-> h],
     seeders |-> [h \in {} |-> {}], seeded_pubkeys |-> {}, signal_invite |-> invite]

\* (mutant) the identity is kept, the peer is not added
RegisterIdentityOnly(reg, pubkey, addr) ==
    [reg EXCEPT !.identities = Put(@, addr, pubkey)]

Register(reg, pubkey, addr) ==
    [reg EXCEPT !.identities = Put(@, addr, pubkey), !.peers = @ \cup {addr}]

SeedersOf(reg, h) == IF h \in DOMAIN reg.seeders THEN reg.seeders[h] ELSE {}

\* (mutant) whoever is named as producer is credited
AnnounceCreditsAll(reg, m, addr) ==
    [reg EXCEPT !.catalog = Put(@, m.content_hash, m),
                !.seeders = Put(@, m.content_hash, SeedersOf(reg, m.content_hash) \cup {addr}),
                !.peers = @ \cup {addr},
                !.seeded_pubkeys = @ \cup {m.producer_pubkey}]

\* (mutant) a new manifest for a hash starts its seeders over
AnnounceResetsSeeders(reg, m, addr) ==
    [reg EXCEPT !.catalog = Put(@, m.content_hash, m),
                !.seeders = Put(@, m.content_hash, {addr}),
                !.peers = @ \cup {addr},
                !.seeded_pubkeys = IF m.signed THEN @ \cup {m.producer_pubkey} ELSE @]

\* Every manifest is stored and findable; only one that its own producer
\* signed earns the producer its contributor's bit.
Announce(reg, m, addr) ==
    [reg EXCEPT !.catalog = Put(@, m.content_hash, m),
                !.seeders = Put(@, m.content_hash, SeedersOf(reg, m.content_hash) \cup {addr}),
                !.peers = @ \cup {addr},
                !.seeded_pubkeys = IF m.signed THEN @ \cup {m.producer_pubkey} ELSE @]

HasSeeded(reg, pubkey) == pubkey \in reg.seeded_pubkeys

\* (mutant) only a challenge from the past can be stale
OnlyOldIsStale(ts, now, skew) == now - ts > skew

\* A challenge is fresh within skew ticks of the tracker's clock, either way.
ChallengeIsStale(ts, now, skew) == now - ts > skew \/ ts - now > skew

\* (mutant) whether a community is configured is looked at first
ConfiguredFirst(reg, pubkey, proved, stale) ==
    CASE ~proved -> "bad_signature"
      [] proved /\ stale -> "stale"
      [] proved /\ ~stale /\ ~reg.signal_invite -> "not_configured"
      [] proved /\ ~stale /\ reg.signal_invite /\ ~HasSeeded(reg, pubkey) -> "not_a_contributor"
      [] OTHER -> "ok"

\* The answer to a community request; proved: its signature verified.
Community(reg, pubkey, proved, stale) ==
    CASE ~proved -> "bad_signature"
      [] proved /\ stale -> "stale"
      [] proved /\ ~stale /\ ~HasSeeded(reg, pubkey) -> "not_a_contributor"
      [] proved /\ ~stale /\ HasSeeded(reg, pubkey) /\ ~reg.signal_invite -> "not_configured"
      [] OTHER -> "ok"

=============================================================================
