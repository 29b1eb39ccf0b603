----------------------------- MODULE CloudSlots -----------------------------
(* sanctum cloud setup, backup and keys: the wizards that fill the two backup *)
(* slots, the Keychain entries every later restic run is opened with, and the *)
(* commands that rewrite those entries.                                       *)
(* (backends/{r2,b2,gdrive}.py, commands/{backup,keychain_cmd,keys_backup}.py) *)
(*                                                                            *)
(* A wizard may fail or be aborted at any step.  A credential is the account  *)
(* it belongs to; a passphrase is a number, 0 for none.  The operator runs no *)
(* other command while a wizard waits.                                        *)
EXTENDS Naturals, Sequences, FiniteSets

CONSTANTS Accounts,     \* cloud accounts the operator holds
          FormerKey,    \* the passphrase a former Mac left on the Drive repo
          MaxCommands   \* commands and edits (bound)

ASSUME CloudAssumption == MaxCommands \in Nat /\ FormerKey \in Nat /\ FormerKey > MaxCommands

Slots == {"primary", "secondary"}
NoOne == "none"
NoRepo == [kind |-> NoOne, acct |-> NoOne, bucket |-> 0]
Placeholder == [kind |-> "b2:sanctum-restic", acct |-> NoOne, bucket |-> 0]   \* nobody's bucket
CloudServices == {"r2-access-key-id", "r2-secret-access-key", "b2-account-id",
                      "b2-application-key"}

VARIABLES slots,              \* cli.cloud_backup of instance.yaml
          kc, pass,           \* the Keychain: the accounts' keys; the restic passphrase
          drive,              \* the account the rclone remote is signed in to
          vaults,             \* the restic repositories there are, and their passphrases
          wz, step,           \* the wizard under way
          bundle,             \* the exported Keychain, or an empty one
          snaps,              \* repositories that hold a backup
          outcome, minted, commands
keys == <<kc, pass, drive>>
wizard == <<wz, step>>
cloudVars == <<slots, keys, vaults, wizard, bundle, snaps, outcome, minted, commands>>

NoKeys == [s \in CloudServices |-> NoOne]
NoBundle == [kc |-> NoKeys, pass |-> 0]
IdService(k) == IF k = "r2" THEN "r2-access-key-id" ELSE "b2-account-id"
SecretService(k) == IF k = "r2" THEN "r2-secret-access-key" ELSE "b2-application-key"
Command == commands < MaxCommands /\ commands' = commands + 1

Passphrase(r) == (CHOOSE v \in vaults : v.repo = r).key
Exists(r) == \E v \in vaults : v.repo = r

CloudInit ==
    /\ slots = [s \in Slots |-> NoRepo] /\ kc = NoKeys /\ pass = 0 /\ drive = NoOne
    \* the Drive folder's name is fixed: a former Mac may have used it already
    /\ vaults \in {{}} \cup {{[repo |-> [kind |-> "gdrive", acct |-> a, bucket |-> 0], key |-> FormerKey]}
                              : a \in Accounts}
    /\ step = "idle" /\ wz = [kind |-> "r2", acct |-> NoOne, slot |-> "primary", replace |-> TRUE, key |-> 0]
    /\ bundle = NoBundle /\ snaps = {} /\ outcome = "nothing" /\ minted = 0 /\ commands = 0

---------------------------------------------------------------------------
\* The wizards, one step after another.

GiveUp == step' = "idle" /\ outcome' = "failed"
Goto(s) == step' = s /\ UNCHANGED outcome

\* B2 fills the first slot only; the others take the free one.
_preflight(k) ==
    CASE slots["primary"] = NoRepo -> "primary"
      [] slots["primary"] # NoRepo /\ slots["secondary"] = NoRepo /\ k # "b2" -> "secondary"
      [] OTHER -> NoOne

Start(k, a, replace, first) ==
    /\ Command /\ step = "idle"
    /\ IF _preflight(k) = NoOne THEN GiveUp /\ UNCHANGED wz
         ELSE /\ wz' = [kind |-> k, acct |-> a, slot |-> _preflight(k), replace |-> replace, key |-> 0]
              /\ Goto(first)
    /\ UNCHANGED <<slots, keys, vaults, bundle, snaps, minted>>

r2_run_wizard(a, replace) == Start("r2", a, replace, "bucket")
b2_run_wizard(a, replace) == Start("b2", a, replace, "authorize")
gdrive_run_wizard(a, replace) == Start("gdrive", a, replace, "remote")

\* The credentials are probed, and the bucket is created: nothing is kept yet.
_b2_authorize(ok) ==
    /\ step = "authorize" /\ IF ok THEN Goto("bucket") ELSE GiveUp
    /\ UNCHANGED <<slots, keys, vaults, wz, bundle, snaps, minted, commands>>

Bucket(k, ok) ==
    /\ step = "bucket" /\ wz.kind = k /\ IF ok THEN Goto("id") ELSE GiveUp
    /\ UNCHANGED <<slots, keys, vaults, wz, bundle, snaps, minted, commands>>
_create_bucket(ok) == Bucket("r2", ok)
_b2_create_bucket(ok) == Bucket("b2", ok)

\* Drive: the remote is created, or replaced, before the sign-in that may fail.
_rclone_remote(signed) ==
    /\ step = "remote"
    /\ IF drive # NoOne /\ ~wz.replace THEN GiveUp /\ UNCHANGED drive
         ELSE IF signed THEN Goto("passphrase") /\ drive' = wz.acct
                        ELSE GiveUp /\ drive' = NoOne
    /\ UNCHANGED <<slots, kc, pass, vaults, wz, bundle, snaps, minted, commands>>

\* An entry that is there and may not be replaced fails the write.
_ensure_keychain_entry(service, value, replace, ok) ==
    IF ok /\ (replace \/ kc[service] = NoOne)
      THEN kc' = [kc EXCEPT ![service] = value]
      ELSE UNCHANGED kc
Stored(service, replace, ok) == ok /\ (replace \/ kc[service] = NoOne)

_store_id(ok) ==
    /\ step = "id" /\ _ensure_keychain_entry(IdService(wz.kind), wz.acct, wz.replace, ok)
    /\ IF Stored(IdService(wz.kind), wz.replace, ok) THEN Goto("secret") ELSE GiveUp
    /\ UNCHANGED <<slots, pass, drive, vaults, wz, bundle, snaps, minted, commands>>

_store_secret(ok) ==
    /\ step = "secret" /\ _ensure_keychain_entry(SecretService(wz.kind), wz.acct, wz.replace, ok)
    /\ IF Stored(SecretService(wz.kind), wz.replace, ok) THEN Goto("passphrase") ELSE GiveUp
    /\ UNCHANGED <<slots, pass, drive, vaults, wz, bundle, snaps, minted, commands>>

\* (mutant) a locked Keychain reads as an empty one, and the mint replaces
PassphraseReplaced(locked) ==
    /\ step = "passphrase" /\ Goto("init")
    /\ IF pass # 0 /\ ~locked
         THEN wz' = [wz EXCEPT !.key = pass] /\ UNCHANGED <<pass, minted>>
         ELSE /\ wz' = [wz EXCEPT !.key = minted + 1] /\ minted' = minted + 1
              /\ pass' = minted + 1
    /\ UNCHANGED <<slots, kc, drive, vaults, bundle, snaps, commands>>

\* The passphrase there is, or a new one: a locked Keychain reads as one
\* without it, and the write that follows fails.
_passphrase(locked) ==
    /\ step = "passphrase"
    /\ IF pass # 0 /\ ~locked
         THEN /\ wz' = [wz EXCEPT !.key = pass] /\ Goto("init")
              /\ UNCHANGED <<pass, minted>>
         ELSE IF locked THEN GiveUp /\ UNCHANGED <<pass, wz, minted>>
         ELSE /\ wz' = [wz EXCEPT !.key = minted + 1] /\ Goto("init") /\ minted' = minted + 1
              /\ pass' = minted + 1
    /\ UNCHANGED <<slots, kc, drive, vaults, bundle, snaps, commands>>

Repo == [kind |-> wz.kind, acct |-> wz.acct, bucket |-> IF wz.kind = "gdrive" THEN 0 ELSE commands]

\* (mutant) a repository that is already there is initialised again
InitAgain(ok) ==
    /\ step = "init" /\ IF ok THEN Goto("trip") ELSE GiveUp
    /\ vaults' = IF ok THEN vaults \cup {[repo |-> Repo, key |-> wz.key]} ELSE vaults
    /\ UNCHANGED <<slots, keys, wz, bundle, snaps, minted, commands>>

\* A repository that is already there is taken as it is.
_restic_init(ok) ==
    /\ step = "init" /\ IF ok THEN Goto("trip") ELSE GiveUp
    /\ vaults' = IF ok /\ ~Exists(Repo) THEN vaults \cup {[repo |-> Repo, key |-> wz.key]} ELSE vaults
    /\ UNCHANGED <<slots, keys, wz, bundle, snaps, minted, commands>>

\* (mutant) the round trip is taken for granted once the repository is there
RoundTripAssumed(ok) ==
    /\ step = "trip" /\ IF ok THEN Goto("persist") ELSE GiveUp
    /\ UNCHANGED <<slots, keys, vaults, wz, bundle, snaps, minted, commands>>

_round_trip(ok) ==
    /\ step = "trip" /\ IF ok /\ Passphrase(Repo) = wz.key THEN Goto("persist") ELSE GiveUp
    /\ UNCHANGED <<slots, keys, vaults, wz, bundle, snaps, minted, commands>>

\* The chosen slot, or the first one, is written; or nothing is (--no-persist).
\* Drive writes the first slot in two replacements of the file, B2's form first.
Write(slot, persist) ==
    /\ step = "persist" /\ step' = "idle" /\ outcome' = "configured"
    /\ slots' = IF persist THEN [slots EXCEPT ![slot] = Repo] ELSE slots
    /\ UNCHANGED <<keys, vaults, wz, bundle, snaps, minted, commands>>
_persist(persist) == wz.kind = "r2" /\ Write(wz.slot, persist)
_persist_to_instance_yaml(persist) == wz.kind = "b2" /\ Write("primary", persist)
_persist_gdrive(persist) ==
    \/ wz.kind = "gdrive" /\ (wz.slot = "secondary" \/ ~persist) /\ Write(wz.slot, persist)
    \/ /\ wz.kind = "gdrive" /\ wz.slot = "primary" /\ persist /\ step = "persist" /\ Goto("override")
       /\ slots' = [slots EXCEPT !["primary"] = Placeholder]
       /\ UNCHANGED <<keys, vaults, wz, bundle, snaps, minted, commands>>

_override_repo ==
    /\ step = "override" /\ step' = "idle" /\ outcome' = "configured"
    /\ slots' = [slots EXCEPT !["primary"] = Repo]
    /\ UNCHANGED <<keys, vaults, wz, bundle, snaps, minted, commands>>

Abort == /\ step # "idle" /\ GiveUp
         /\ UNCHANGED <<slots, keys, vaults, wz, bundle, snaps, minted, commands>>

---------------------------------------------------------------------------
\* The commands that rewrite the Keychain.

\* The restic passphrase, under the account asked for: the default account is
\* not the passphrase's own, and a rotation there leaves a stray entry.
keychain_rotate(account) ==
    /\ Command /\ step = "idle" /\ outcome' = "rotated" /\ minted' = minted + 1
    /\ pass' = IF account = "sanctum-backup" THEN minted + 1 ELSE pass
    /\ UNCHANGED <<slots, kc, drive, vaults, wizard, bundle, snaps>>

keys_backup_command ==
    /\ Command /\ step = "idle" /\ bundle' = [kc |-> kc, pass |-> pass] /\ outcome' = "exported"
    /\ UNCHANGED <<slots, keys, vaults, wizard, snaps, minted>>

\* Each entry the bundle holds, under its own account; one may fail.
keys_restore_command(failed) ==
    /\ Command /\ step = "idle" /\ bundle # NoBundle
    /\ kc' = [s \in CloudServices |->
                IF s \in failed \/ bundle.kc[s] = NoOne THEN kc[s] ELSE bundle.kc[s]]
    /\ pass' = IF "pass" \in failed \/ bundle.pass = 0 THEN pass ELSE bundle.pass
    /\ outcome' = IF failed = {} THEN "restored" ELSE "some failed"
    /\ UNCHANGED <<slots, drive, vaults, wizard, bundle, snaps, minted>>

\* A second Mac: nothing but the bundle and the cloud.
NewMac ==
    /\ Command /\ step = "idle" /\ kc' = NoKeys /\ pass' = 0 /\ drive' = NoOne
    /\ slots' = [s \in Slots |-> NoRepo] /\ outcome' = "nothing"
    /\ UNCHANGED <<vaults, wizard, bundle, snaps, minted>>

FreeSlot(s) ==
    /\ Command /\ step = "idle" /\ slots[s] # NoRepo /\ slots' = [slots EXCEPT ![s] = NoRepo]
    /\ UNCHANGED <<keys, vaults, wizard, bundle, snaps, outcome, minted>>

---------------------------------------------------------------------------
\* The commands that open a slot.

_load_password == IF slots["primary"] = NoRepo THEN 0 ELSE pass

\* The account the environment signs in with, per backend.
_restic_env(r) ==
    CASE r.kind = "gdrive" -> drive
      [] r.kind \in {"r2", "b2"} /\ kc[IdService(r.kind)] = kc[SecretService(r.kind)] -> kc[IdService(r.kind)]
      [] OTHER -> NoOne

Opens(s) == LET r == slots[s] IN
    r \notin {NoRepo, Placeholder} /\ _load_password # 0 /\ _restic_env(r) = r.acct /\ Passphrase(r) = _load_password

_resolve_repos(filter) == {s \in Slots : filter \in {s, "all"} /\ slots[s] # NoRepo}

backup_verify(filter) ==
    /\ Command /\ step = "idle"
    /\ outcome' = IF _resolve_repos(filter) # {} /\ \A s \in _resolve_repos(filter) : Opens(s)
                    THEN "verified" ELSE "failed"
    /\ UNCHANGED <<slots, keys, vaults, wizard, bundle, snaps, minted>>

\* Sources that are not on this Mac are dropped; a run with none fails.
_backup_recipe(target, sources, dry) ==
    /\ Command /\ step = "idle"
    /\ LET runs == Opens(target) /\ sources
       IN /\ snaps' = IF runs /\ ~dry THEN snaps \cup {slots[target]} ELSE snaps
          /\ outcome' = IF runs THEN "complete" ELSE "failed"
    /\ UNCHANGED <<slots, keys, vaults, wizard, bundle, minted>>

backup_snapshots(filter) ==
    /\ Command /\ step = "idle"
    /\ outcome' = IF \E s \in _resolve_repos(filter) : ~Opens(s) THEN "failed"
                  ELSE IF {slots[s] : s \in _resolve_repos(filter)} \cap snaps = {} THEN "none" ELSE "listed"
    /\ UNCHANGED <<slots, keys, vaults, wizard, bundle, snaps, minted>>

backup_restore(s) ==
    /\ Command /\ step = "idle"
    /\ outcome' = IF Opens(s) /\ slots[s] \in snaps THEN "restored" ELSE "failed"
    /\ UNCHANGED <<slots, keys, vaults, wizard, bundle, snaps, minted>>

CloudNext ==
    \/ \E a \in Accounts, r \in BOOLEAN :
         r2_run_wizard(a, r) \/ b2_run_wizard(a, r) \/ gdrive_run_wizard(a, r)
    \/ \E ok \in BOOLEAN :
         \/ _b2_authorize(ok) \/ _create_bucket(ok) \/ _b2_create_bucket(ok) \/ _rclone_remote(ok) \/ _store_id(ok) \/ _store_secret(ok)
         \/ _passphrase(ok) \/ _restic_init(ok) \/ _round_trip(ok) 
         \/ _persist(ok) \/ _persist_to_instance_yaml(ok) \/ _persist_gdrive(ok)
    \/ _override_repo \/ Abort \/ keys_backup_command \/ NewMac
    \/ \E a \in {"sanctum", "sanctum-backup"} : keychain_rotate(a)
    \/ \E f \in {{}, {"pass"}, {"r2-access-key-id"}} : keys_restore_command(f)
    \/ \E s \in Slots : FreeSlot(s) \/ backup_restore(s)
    \/ \E s \in Slots, f, dry \in BOOLEAN : _backup_recipe(s, f, dry)
    \/ \E f \in Slots \cup {"all"} : backup_verify(f) \/ backup_snapshots(f)

---------------------------------------------------------------------------
CloudTypeOK ==
    /\ kc \in [CloudServices -> Accounts \cup {NoOne}] /\ pass \in 0..minted
    /\ drive \in Accounts \cup {NoOne} /\ DOMAIN slots = Slots
    /\ \A v, w \in vaults : v.repo = w.repo => v = w
    /\ \A s \in Slots : slots[s] \notin {NoRepo, Placeholder} => Exists(slots[s])
    /\ step \in {"idle", "authorize", "bucket", "remote", "id", "secret", "passphrase", "init", "trip", "persist", "override"}

\* The moment a wizard is done with a slot, the Keychain opens it: the account's
\* keys and the passphrase the repository was made with, even where the Drive
\* folder turned out to hold a former Mac's repository.
Opened(r) == r # Placeholder /\ Passphrase(r) = pass /\ _restic_env(r) = r.acct
PersistedOpens ==
    [][\A s \in Slots : (slots'[s] # slots[s] /\ slots'[s] # NoRepo /\ step' = "idle") =>
          Opened(slots'[s])]_cloudVars

\* "atomically merge into instance.yaml" (gdrive.py): a slot is never written
\* that the Keychain does not open.
MergedAtOnce ==
    [][\A s \in Slots : (slots'[s] # slots[s] /\ slots'[s] # NoRepo) => Opened(slots'[s])]_cloudVars

\* A passphrase repositories were made with is never replaced by a wizard,
\* however its Keychain read: only the operator's rotate and restore change it.
WizardsKeepThePassphrase ==
    [][(step # "idle" /\ pass # 0)
          => pass' = pass]_cloudVars

\* What a slot needs, a wizard for the other slot leaves alone.
OtherSlotStays ==
    [][\A s \in Slots : (step # "idle" /\ wz.slot # s /\ Opens(s)) => Opens(s)']_cloudVars
=============================================================================
