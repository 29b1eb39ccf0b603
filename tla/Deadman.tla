------------------------------ MODULE Deadman ------------------------------
(* sanctum deadman beat: hosts write their heartbeat into one file of a GitHub *)
(* repository, each by reading it, merging its own key and putting it back     *)
(* under the hash it read. (commands/deadman.py)                               *)
EXTENDS Naturals

CONSTANTS Beats,       \* processes: a backup or drill job of a host
          HostOf,      \* host and check of each: the key it writes
          MaxBeats     \* beats begun (bound)

ASSUME BeatAssumption == MaxBeats \in Nat

Keys == {HostOf[p] : p \in Beats}
MAX_RETRIES == 3

\* A file is what it holds, and so is its hash; the one that is absent has none.
NoFile == [k \in Keys |-> 0]

VARIABLES remote,              \* the file in the repository: the time under each key
          base, data, now,     \* what a beat read, merges, and its own time
          beatAt, tries, heard,\* where it is; reads left; the times it was told are recorded
          last, clock          \* what the last write taken carried under its key; beats begun
beatVars == <<remote, base, data, now, beatAt, tries, heard, last, clock>>

BeatInit ==
    /\ remote = NoFile /\ base = [p \in Beats |-> NoFile] /\ data = [p \in Beats |-> NoFile]
    /\ now = [p \in Beats |-> 0] /\ beatAt = [p \in Beats |-> "idle"] /\ tries = [p \in Beats |-> 0]
    /\ heard = [p \in Beats |-> 0] /\ last = NoFile /\ clock = 0

\* The time is taken once, before the first read.
beat(p) ==
    /\ beatAt[p] = "idle" /\ clock < MaxBeats /\ clock' = clock + 1
    /\ now' = [now EXCEPT ![p] = clock + 1] /\ tries' = [tries EXCEPT ![p] = MAX_RETRIES]
    /\ beatAt' = [beatAt EXCEPT ![p] = "read"]
    /\ UNCHANGED <<remote, base, data, heard, last>>

Raise(p) == beatAt' = [beatAt EXCEPT ![p] = "idle"]

merge_heartbeat(file, p) == [file EXCEPT ![HostOf[p]] = now[p]]

\* (mutant) a retry takes the new hash and sends what it had merged before
ReadOnce(p, ok) ==
    /\ beatAt[p] = "read"
    /\ IF ok THEN /\ beatAt' = [beatAt EXCEPT ![p] = "put"] /\ base' = [base EXCEPT ![p] = remote]
                  /\ data' = [data EXCEPT ![p] =
                               IF tries[p] = MAX_RETRIES THEN merge_heartbeat(remote, p) ELSE @]
             ELSE Raise(p) /\ UNCHANGED <<base, data>>
    /\ UNCHANGED <<remote, now, tries, heard, last, clock>>

_read_remote(p, ok) ==
    /\ beatAt[p] = "read"
    /\ IF ok THEN /\ beatAt' = [beatAt EXCEPT ![p] = "put"] /\ base' = [base EXCEPT ![p] = remote]
                  /\ data' = [data EXCEPT ![p] = merge_heartbeat(remote, p)]
             ELSE Raise(p) /\ UNCHANGED <<base, data>>
    /\ UNCHANGED <<remote, now, tries, heard, last, clock>>

\* The put: taken when the file still is what was read.  Its answer may be lost
\* either way.  A conflict is a retry, except over a file that was absent.
_put(p, answered) ==
    /\ beatAt[p] = "put" /\ tries' = [tries EXCEPT ![p] = @ - 1]
    /\ IF remote = base[p]
         THEN /\ remote' = data[p] /\ last' = [last EXCEPT ![HostOf[p]] = now[p]]
              /\ heard' = IF answered THEN [heard EXCEPT ![p] = now[p]] ELSE heard
              /\ Raise(p)
         ELSE /\ IF answered /\ base[p] # NoFile /\ tries[p] > 1
                   THEN beatAt' = [beatAt EXCEPT ![p] = "read"] ELSE Raise(p)
              /\ UNCHANGED <<remote, last, heard>>
    /\ UNCHANGED <<base, data, now, clock>>

\* The request never reached GitHub.
_put_lost(p) ==
    /\ beatAt[p] = "put" /\ Raise(p)
    /\ UNCHANGED <<remote, base, data, now, tries, heard, last, clock>>

BeatNext == \E p \in Beats :
    \/ beat(p) \/ _put_lost(p)
    \/ \E ok \in BOOLEAN : _read_remote(p, ok) \/ _put(p, ok)

---------------------------------------------------------------------------
BeatTypeOK ==
    /\ remote \in [Keys -> 0..MaxBeats] /\ last \in [Keys -> 0..MaxBeats]
    /\ tries \in [Beats -> 0..MAX_RETRIES] /\ beatAt \in [Beats -> {"idle", "read", "put"}]

\* A write of one key never loses another's, whoever raced it: each key holds
\* what the last write of it carried, and a beat reported as recorded is there.
NoLostBeat ==
    /\ remote = last
    /\ \A p \in Beats : heard[p] # 0 =>
          \E q \in Beats : HostOf[q] = HostOf[p] /\ remote[HostOf[p]] \in 1..now[q]
=============================================================================
