---------------------------- MODULE CustodyProofs ----------------------------
(* The theorems of what is kept outside this Mac.  CloudSlots: a slot opens with*)
(* what the Keychain holds, and wizards keep the passphrase.  TierZero: no    *)
(* credential is committed or pushed.  Deadman: no heartbeat is lost to a race.*)
(* Each for any accounts, slots, files and hosts, and any number of steps.    *)
EXTENDS CloudSlots, TierZero, Deadman, TLAPS

---------------------------------------------------------------------------
\* CloudSlots: repositories and their keys.

CloudSpec == CloudInit /\ [][CloudNext]_cloudVars

Kinds == {"r2", "b2", "gdrive"}

CloudTypes ==
    /\ kc \in [CloudServices -> Accounts \cup {NoOne}]
    /\ pass \in Nat /\ minted \in Nat /\ pass <= minted
    /\ bundle \in [kc : [CloudServices -> Accounts \cup {NoOne}], pass : Nat] /\ bundle.pass <= minted
    /\ drive \in Accounts \cup {NoOne} /\ DOMAIN slots = Slots
    /\ wz \in [kind : Kinds, acct : Accounts \cup {NoOne}, slot : Slots, replace : BOOLEAN, key : Nat]
    /\ step \in {"idle", "authorize", "bucket", "remote", "id", "secret", "passphrase", "init", "trip", "persist", "override"}

\* A repository is made once, and a slot names one that was.
OnePassphraseEach ==
    /\ \A v, w \in vaults : v.repo = w.repo => v = w
    /\ \A s \in Slots : slots[s] \notin {NoRepo, Placeholder} => Exists(slots[s])

\* A backend's wizard takes that backend's steps.
StepsOfItsKind ==
    /\ step \in {"authorize"} => wz.kind = "b2"
    /\ step \in {"bucket", "id", "secret"} => wz.kind \in {"r2", "b2"}
    /\ step \in {"remote", "override"} => wz.kind = "gdrive"

\* What the wizard asks the passphrase for is signed in to already.
KeysAreStored ==
    /\ step = "secret" => kc[IdService(wz.kind)] = wz.acct
    /\ step \in {"passphrase", "init", "trip", "persist", "override"} =>
         \/ wz.kind = "gdrive" /\ drive = wz.acct
         \/ /\ wz.kind \in {"r2", "b2"}
            /\ kc[IdService(wz.kind)] = wz.acct /\ kc[SecretService(wz.kind)] = wz.acct

\* The passphrase it goes on with is the Keychain's, and opens what it found.
PassphraseHolds ==
    /\ step \in {"init", "trip", "persist", "override"} => pass = wz.key
    /\ step \in {"trip", "persist", "override"} => Exists(Repo)
    /\ step \in {"persist", "override"} => Passphrase(Repo) = wz.key

CloudInv == CloudTypes /\ OnePassphraseEach /\ StepsOfItsKind /\ KeysAreStored /\ PassphraseHolds

LEMMA CloudInitial == CloudInit => CloudInv
<1> SUFFICES ASSUME CloudInit PROVE CloudInv
  OBVIOUS
<1>1. NoKeys \in [CloudServices -> Accounts \cup {NoOne}]
  BY DEF NoKeys
<1>2. CloudTypes
  BY <1>1, CloudAssumption DEF CloudInit, CloudTypes, NoBundle, Kinds, Slots
<1>3. OnePassphraseEach
  BY DEF CloudInit, OnePassphraseEach
<1> QED BY <1>2, <1>3 DEF CloudInit, CloudInv, StepsOfItsKind, KeysAreStored, PassphraseHolds

\* The repository under way, and its passphrase, are the wizard's to change.
LEMMA SameRepo ==
  ASSUME UNCHANGED <<vaults, wz, commands>>
  PROVE  Repo' = Repo /\ Passphrase(Repo)' = Passphrase(Repo) /\ (Exists(Repo)' <=> Exists(Repo))
<1>1. Repo' = Repo
  BY DEF Repo
<1> QED BY <1>1 DEF Passphrase, Exists

LEMMA StartKeeps ==
  ASSUME CloudInv,
         \E a \in Accounts, r \in BOOLEAN :
            r2_run_wizard(a, r) \/ b2_run_wizard(a, r) \/ gdrive_run_wizard(a, r)
  PROVE  CloudInv'
<1>1. PICK k \in Kinds, a \in Accounts, r \in BOOLEAN,
            f \in {"bucket", "authorize", "remote"} :
         /\ Start(k, a, r, f)
         /\ <<k, f>> \in {<<"r2", "bucket">>, <<"b2", "authorize">>, <<"gdrive", "remote">>}
  BY DEF r2_run_wizard, b2_run_wizard, gdrive_run_wizard, Kinds
<1>2. step' \in {"idle", f} /\ (step' # "idle" => wz'.kind = k) /\ UNCHANGED <<slots, kc, pass, drive, vaults, bundle, minted>>
  BY <1>1 DEF Start, GiveUp, Goto, keys
<1>3. wz' \in [kind : Kinds, acct : Accounts \cup {NoOne}, slot : Slots, replace : BOOLEAN, key : Nat]
  <2>1. _preflight(k) # NoOne => _preflight(k) \in Slots
    BY DEF _preflight, Slots
  <2> QED BY <1>1, <2>1 DEF Start, CloudInv, CloudTypes
<1>4. CloudTypes'
  BY <1>1, <1>2, <1>3 DEF CloudInv, CloudTypes
<1>5. OnePassphraseEach'
  BY <1>2 DEF CloudInv, OnePassphraseEach, Exists
<1> QED BY <1>1, <1>2, <1>4, <1>5 DEF CloudInv, StepsOfItsKind, KeysAreStored, PassphraseHolds

\* A step that leaves the slots, the repositories and the wizard's data alone.
LEMMA StaysTyped ==
  ASSUME CloudInv, UNCHANGED <<slots, vaults, wz, bundle, minted>>,
         kc' \in [CloudServices -> Accounts \cup {NoOne}], pass' = pass,
         drive' \in Accounts \cup {NoOne},
         step' \in {"idle", "authorize", "bucket", "remote", "id", "secret", "passphrase", "init", "trip", "persist", "override"}
  PROVE  CloudTypes' /\ OnePassphraseEach'
<1>1. CloudTypes'
  BY DEF CloudInv, CloudTypes
<1>2. OnePassphraseEach'
  BY DEF CloudInv, OnePassphraseEach, Exists
<1> QED BY <1>1, <1>2

\* The steps before the passphrase.
LEMMA SignInKeeps ==
  ASSUME CloudInv, NEW ok \in BOOLEAN,
         \/ _b2_authorize(ok) \/ _create_bucket(ok) \/ _b2_create_bucket(ok) \/ _rclone_remote(ok)
         \/ _store_id(ok) \/ _store_secret(ok)
  PROVE  CloudInv'
<1> USE DEF GiveUp, Goto, keys
<1>0. /\ kc \in [CloudServices -> Accounts \cup {NoOne}] /\ drive \in Accounts \cup {NoOne}
      /\ wz.kind \in Kinds /\ wz.acct \in Accounts \cup {NoOne}
      /\ StepsOfItsKind /\ KeysAreStored
  BY DEF CloudInv, CloudTypes
<1>1. CASE _b2_authorize(ok)
  <2>1. UNCHANGED <<slots, vaults, wz, bundle, minted, kc, pass, drive>> /\ wz.kind = "b2" /\ step' \in {"bucket", "idle"}
    BY <1>0, <1>1 DEF _b2_authorize, StepsOfItsKind
  <2> QED BY <1>0, <2>1, StaysTyped DEF CloudInv, StepsOfItsKind, KeysAreStored, PassphraseHolds
<1>2. CASE _create_bucket(ok) \/ _b2_create_bucket(ok)
  <2>1. UNCHANGED <<slots, vaults, wz, bundle, minted, kc, pass, drive>> /\ wz.kind \in {"r2", "b2"} /\ step' \in {"id", "idle"}
    BY <1>0, <1>2 DEF _create_bucket, _b2_create_bucket, Bucket
  <2> QED BY <1>0, <2>1, StaysTyped DEF CloudInv, StepsOfItsKind, KeysAreStored, PassphraseHolds
<1>3. CASE _rclone_remote(ok)
  <2>1. UNCHANGED <<slots, vaults, wz, bundle, minted, kc, pass>> /\ wz.kind = "gdrive" /\ step' \in {"passphrase", "idle"}
    BY <1>0, <1>3 DEF _rclone_remote, StepsOfItsKind
  <2>2. drive' \in Accounts \cup {NoOne} /\ (step' = "passphrase" => drive' = wz.acct)
    BY <1>0, <1>3 DEF _rclone_remote
  <2> QED BY <1>0, <2>1, <2>2, StaysTyped DEF CloudInv, StepsOfItsKind, KeysAreStored, PassphraseHolds
<1>4. CASE _store_id(ok)
  <2>1. UNCHANGED <<slots, vaults, wz, bundle, minted, pass, drive>> /\ wz.kind \in {"r2", "b2"} /\ step' \in {"secret", "idle"}
    BY <1>0, <1>4 DEF _store_id, StepsOfItsKind
  <2>2. IdService(wz.kind) \in CloudServices
    BY DEF IdService, CloudServices
  <2>3. kc' \in [CloudServices -> Accounts \cup {NoOne}] /\ (step' = "secret" => kc'[IdService(wz.kind)] = wz.acct)
    BY <1>0, <1>4, <2>2 DEF _store_id, _ensure_keychain_entry, Stored
  <2> QED BY <1>0, <2>1, <2>3, StaysTyped DEF CloudInv, StepsOfItsKind, KeysAreStored, PassphraseHolds
<1>5. CASE _store_secret(ok)
  <2>1. UNCHANGED <<slots, vaults, wz, bundle, minted, pass, drive>> /\ wz.kind \in {"r2", "b2"} /\ step' \in {"passphrase", "idle"}
    BY <1>0, <1>5 DEF _store_secret, StepsOfItsKind
  <2>2. /\ IdService(wz.kind) \in CloudServices /\ SecretService(wz.kind) \in CloudServices
        /\ IdService(wz.kind) # SecretService(wz.kind)
    BY <2>1 DEF IdService, SecretService, CloudServices
  <2>3. kc' \in [CloudServices -> Accounts \cup {NoOne}]
    BY <1>0, <1>5, <2>2 DEF _store_secret, _ensure_keychain_entry
  <2>4. step' = "passphrase" => kc'[SecretService(wz.kind)] = wz.acct /\ kc'[IdService(wz.kind)] = wz.acct
    BY <1>0, <1>5, <2>2 DEF _store_secret, _ensure_keychain_entry, Stored, KeysAreStored
  <2> QED BY <1>0, <2>1, <2>3, <2>4, StaysTyped DEF CloudInv, StepsOfItsKind, KeysAreStored, PassphraseHolds
<1> QED BY <1>1, <1>2, <1>3, <1>4, <1>5

LEMMA PassphraseKeeps ==
  ASSUME CloudInv, NEW locked \in BOOLEAN, _passphrase(locked)
  PROVE  CloudInv'
<1>1. /\ UNCHANGED <<slots, kc, drive, vaults, bundle>> /\ step = "passphrase" /\ step' \in {"init", "idle"}
      /\ wz' = [wz EXCEPT !.key = wz'.key]
      /\ (step' = "init" => pass' = wz'.key)
  BY DEF _passphrase, GiveUp, Goto, CloudInv, CloudTypes
<1>2. /\ wz'.key \in Nat /\ pass' \in Nat /\ minted' \in Nat /\ pass' <= minted' /\ minted <= minted'
  BY DEF _passphrase, GiveUp, Goto, CloudInv, CloudTypes
<1>3. wz' \in [kind : Kinds, acct : Accounts \cup {NoOne}, slot : Slots, replace : BOOLEAN, key : Nat]
  BY <1>1, <1>2 DEF CloudInv, CloudTypes
<1>4. CloudTypes'
  BY <1>1, <1>2, <1>3 DEF CloudInv, CloudTypes
<1>5. OnePassphraseEach'
  BY <1>1 DEF CloudInv, OnePassphraseEach, Exists
<1>6. wz'.kind = wz.kind /\ wz'.acct = wz.acct
  BY <1>1 DEF CloudInv, CloudTypes
<1>7. KeysAreStored'
  BY <1>1, <1>6 DEF CloudInv, KeysAreStored
<1> QED BY <1>1, <1>4, <1>5, <1>7 DEF CloudInv, StepsOfItsKind, PassphraseHolds

LEMMA InitKeeps ==
  ASSUME CloudInv, NEW ok \in BOOLEAN, _restic_init(ok)
  PROVE  CloudInv'
<1>1. /\ UNCHANGED <<slots, kc, pass, drive, wz, bundle, minted, commands>>
      /\ step = "init" /\ step' \in {"trip", "idle"}
  BY DEF _restic_init, GiveUp, Goto, keys
<1>2. Repo' = Repo
  BY <1>1 DEF Repo
<1>3. step' = "trip" => Exists(Repo)'
  <2>1. CASE Exists(Repo) /\ vaults' = vaults
    BY <1>2, <2>1 DEF Exists
  <2>2. CASE vaults' = vaults \cup {[repo |-> Repo, key |-> wz.key]}
    <3>1. /\ [repo |-> Repo, key |-> wz.key] \in vaults'
          /\ [repo |-> Repo, key |-> wz.key].repo = Repo'
      BY <1>2, <2>2
    <3> QED BY <3>1 DEF Exists
  <2>3. CASE step' # "trip"
    BY <2>3
  <2> QED BY <2>1, <2>2, <2>3 DEF _restic_init, GiveUp
<1>4. OnePassphraseEach'
  <2>1. CASE vaults' = vaults
    BY <1>1, <2>1 DEF CloudInv, OnePassphraseEach, Exists
  <2>2. CASE vaults' = vaults \cup {[repo |-> Repo, key |-> wz.key]} /\ ~Exists(Repo)
    BY <1>1, <2>2 DEF CloudInv, OnePassphraseEach, Exists
  <2> QED BY <2>1, <2>2 DEF _restic_init
<1>5. CloudTypes'
  BY <1>1 DEF CloudInv, CloudTypes
<1>6. KeysAreStored'
  BY <1>1 DEF CloudInv, KeysAreStored
<1> QED BY <1>1, <1>3, <1>4, <1>5, <1>6 DEF CloudInv, StepsOfItsKind, PassphraseHolds

LEMMA TripKeeps ==
  ASSUME CloudInv, NEW ok \in BOOLEAN, _round_trip(ok)
  PROVE  CloudInv'
<1>1. /\ UNCHANGED <<slots, kc, pass, drive, wz, bundle, minted, commands, vaults>>
      /\ step = "trip" /\ step' \in {"persist", "idle"}
      /\ step' = "persist" => Passphrase(Repo) = wz.key
  BY DEF _round_trip, GiveUp, Goto, keys
<1>2. CloudTypes' /\ OnePassphraseEach'
  BY <1>1, StaysTyped DEF CloudInv, CloudTypes
<1>3. KeysAreStored' /\ StepsOfItsKind'
  BY <1>1 DEF CloudInv, KeysAreStored, StepsOfItsKind
<1>4. PassphraseHolds'
  BY <1>1, SameRepo DEF CloudInv, PassphraseHolds
<1> QED BY <1>2, <1>3, <1>4 DEF CloudInv

LEMMA PersistKeeps ==
  ASSUME CloudInv, NEW slot \in Slots, NEW persist \in BOOLEAN, Write(slot, persist)
  PROVE  CloudInv'
<1>1. /\ UNCHANGED <<kc, pass, drive, wz, bundle, minted, commands, vaults>>
      /\ step = "persist" /\ step' = "idle"
      /\ slots' \in {slots, [slots EXCEPT ![slot] = Repo]}
  BY DEF Write, keys
<1>2. CloudTypes'
  BY <1>1 DEF CloudInv, CloudTypes
<1>3. Exists(Repo)
  BY <1>1 DEF CloudInv, PassphraseHolds
<1>4. OnePassphraseEach'
  BY <1>1, <1>3 DEF CloudInv, CloudTypes, OnePassphraseEach, Exists
<1> QED BY <1>1, <1>2, <1>4 DEF CloudInv, KeysAreStored, StepsOfItsKind, PassphraseHolds

\* The first slot's two replacements by the Drive wizard.
PlaceholderWritten ==
    /\ wz.kind = "gdrive" /\ step = "persist" /\ Goto("override")
    /\ slots' = [slots EXCEPT !["primary"] = Placeholder]
    /\ UNCHANGED <<keys, vaults, wz, bundle, snaps, minted, commands>>

LEMMA HalfKeeps ==
  ASSUME CloudInv, PlaceholderWritten \/ _override_repo
  PROVE  CloudInv'
<1>1. /\ UNCHANGED <<kc, pass, drive, wz, bundle, minted, commands, vaults>>
      /\ \/ wz.kind = "gdrive" /\ step = "persist" /\ step' = "override"
         \/ step = "override" /\ step' = "idle"
      /\ slots' \in {[slots EXCEPT !["primary"] = Placeholder], [slots EXCEPT !["primary"] = Repo]}
  BY DEF PlaceholderWritten, _override_repo, Goto, keys
<1>2. CloudTypes'
  BY <1>1 DEF CloudInv, CloudTypes
<1>3. Exists(Repo)
  BY <1>1 DEF CloudInv, PassphraseHolds
<1>4. OnePassphraseEach'
  BY <1>1, <1>3 DEF CloudInv, CloudTypes, OnePassphraseEach, Exists
<1>5. KeysAreStored' /\ StepsOfItsKind'
  BY <1>1 DEF CloudInv, KeysAreStored, StepsOfItsKind
<1>6. PassphraseHolds'
  BY <1>1, SameRepo DEF CloudInv, PassphraseHolds
<1> QED BY <1>2, <1>4, <1>5, <1>6 DEF CloudInv

\* The operator's own commands run between wizards.
CommandStep ==
    \/ Abort \/ keys_backup_command \/ NewMac
    \/ \E a \in {"sanctum", "sanctum-backup"} : keychain_rotate(a)
    \/ \E f \in {{}, {"pass"}, {"r2-access-key-id"}} : keys_restore_command(f)
    \/ \E s \in Slots : FreeSlot(s) \/ backup_restore(s)
    \/ \E s \in Slots, f, dry \in BOOLEAN : _backup_recipe(s, f, dry)
    \/ \E f \in Slots \cup {"all"} : backup_verify(f) \/ backup_snapshots(f)

WizardStep(ok) ==
    \/ _b2_authorize(ok) \/ _create_bucket(ok) \/ _b2_create_bucket(ok) \/ _rclone_remote(ok)
    \/ _store_id(ok) \/ _store_secret(ok) \/ _passphrase(ok) \/ _restic_init(ok) \/ _round_trip(ok)
    \/ _persist(ok) \/ _persist_to_instance_yaml(ok) \/ _persist_gdrive(ok)

LEMMA CommandsKeep ==
  ASSUME CloudInv, step' = "idle", CommandStep
  PROVE  CloudInv'
<1>0. StepsOfItsKind' /\ KeysAreStored' /\ PassphraseHolds'
  BY DEF StepsOfItsKind, KeysAreStored, PassphraseHolds
<1>1. UNCHANGED <<vaults, wz>> /\ DOMAIN slots' = Slots
      /\ \A s \in Slots : slots'[s] # NoRepo => slots'[s] = slots[s]
  BY DEF CloudInv, CloudTypes, CommandStep, Abort, keys_backup_command, NewMac, keychain_rotate, keys_restore_command, FreeSlot,
         backup_restore, _backup_recipe, backup_verify, backup_snapshots, wizard
<1>2. OnePassphraseEach'
  BY <1>1 DEF CloudInv, OnePassphraseEach, Exists
<1>3. kc' \in [CloudServices -> Accounts \cup {NoOne}] /\ drive' \in Accounts \cup {NoOne}
  <2>1. CASE NewMac
    BY <2>1 DEF NewMac, NoKeys
  <2>2. CASE \E f \in {{}, {"pass"}, {"r2-access-key-id"}} : keys_restore_command(f)
    BY <2>2 DEF keys_restore_command, CloudInv, CloudTypes
  <2>3. CASE UNCHANGED <<kc, drive>>
    BY <2>3 DEF CloudInv, CloudTypes
  <2> QED BY <2>1, <2>2, <2>3 DEF CommandStep, Abort, keys_backup_command, keychain_rotate, FreeSlot,
         backup_restore, _backup_recipe, backup_verify, backup_snapshots, keys
<1>4. /\ pass' \in Nat /\ minted' \in Nat /\ pass' <= minted'
      /\ bundle' \in [kc : [CloudServices -> Accounts \cup {NoOne}], pass : Nat] /\ bundle'.pass <= minted'
  <2> USE DEF CloudInv, CloudTypes
  <2>1. CASE NewMac
    BY <2>1 DEF NewMac
  <2>2. CASE \E f \in {{}, {"pass"}, {"r2-access-key-id"}} : keys_restore_command(f)
    BY <2>2 DEF keys_restore_command
  <2>3. CASE keys_backup_command
    BY <2>3 DEF keys_backup_command, keys
  <2>4. CASE \E a \in {"sanctum", "sanctum-backup"} : keychain_rotate(a)
    BY <2>4 DEF keychain_rotate
  <2>5. CASE UNCHANGED <<pass, minted, bundle>>
    BY <2>5
  <2> QED BY <2>1, <2>2, <2>3, <2>4, <2>5 DEF CommandStep, Abort, FreeSlot,
         backup_restore, _backup_recipe, backup_verify, backup_snapshots, keys
<1> QED BY <1>0, <1>1, <1>2, <1>3, <1>4 DEF CloudInv, CloudTypes

LEMMA CloudStep == CloudInv /\ [CloudNext]_cloudVars => CloudInv'
<1> SUFFICES ASSUME CloudInv, [CloudNext]_cloudVars PROVE CloudInv'
  OBVIOUS
<1>1. CASE UNCHANGED cloudVars
  <2>1. UNCHANGED <<slots, kc, pass, drive, wz, bundle, minted, commands, vaults, step>>
    BY <1>1 DEF cloudVars, keys, wizard
  <2>2. CloudTypes' /\ OnePassphraseEach'
    BY <2>1, StaysTyped DEF CloudInv, CloudTypes
  <2>3. KeysAreStored' /\ StepsOfItsKind'
    BY <2>1 DEF CloudInv, KeysAreStored, StepsOfItsKind
  <2>4. PassphraseHolds'
    BY <2>1, SameRepo DEF CloudInv, PassphraseHolds
  <2> QED BY <2>2, <2>3, <2>4 DEF CloudInv
<1>2. ASSUME NEW ok \in BOOLEAN, _persist(ok) \/ _persist_to_instance_yaml(ok) \/ _persist_gdrive(ok)
      PROVE  CloudInv'
  <2>1. wz.slot \in Slots /\ "primary" \in Slots
    BY DEF CloudInv, CloudTypes, Slots
  <2>2. CASE \E slot \in Slots : Write(slot, ok)
    BY <2>2, PersistKeeps
  <2>3. CASE PlaceholderWritten
    BY <2>3, HalfKeeps
  <2> QED BY <1>2, <2>1, <2>2, <2>3
      DEF _persist, _persist_to_instance_yaml, _persist_gdrive, PlaceholderWritten
<1>3. CASE CommandStep
  <2>1. step' = "idle"
    BY <1>3 DEF CommandStep, Abort, GiveUp, keys_backup_command, NewMac, keychain_rotate, keys_restore_command, FreeSlot,
         backup_restore, _backup_recipe, backup_verify, backup_snapshots, wizard
  <2> QED BY <1>3, <2>1, CommandsKeep
<1>4. CASE \E a \in Accounts, r \in BOOLEAN :
            r2_run_wizard(a, r) \/ b2_run_wizard(a, r) \/ gdrive_run_wizard(a, r)
  BY <1>4, StartKeeps
<1>7. CASE _override_repo
  BY <1>7, HalfKeeps
<1>5. CASE \E ok \in BOOLEAN : WizardStep(ok)
  BY <1>2, <1>5, SignInKeeps, PassphraseKeeps, InitKeeps, TripKeeps DEF WizardStep
<1>6. CloudNext => \/ CommandStep \/ _override_repo \/ \E ok \in BOOLEAN : WizardStep(ok)
                   \/ \E a \in Accounts, r \in BOOLEAN :
                        r2_run_wizard(a, r) \/ b2_run_wizard(a, r) \/ gdrive_run_wizard(a, r)
  BY DEF CloudNext, CommandStep, WizardStep
<1> QED BY <1>1, <1>3, <1>4, <1>5, <1>6, <1>7

\* Types: the Keychain and its bundle, the slots, the wizard under way.
\* (backends/{r2,b2,gdrive}.py, commands/{backup,keys_backup,keychain_cmd}.py)
THEOREM CloudTyped == CloudSpec => []CloudTypeOK
<1>1. CloudInv => CloudTypeOK
  BY DEF CloudInv, CloudTypes, OnePassphraseEach, CloudTypeOK
<1> QED BY <1>1, CloudInitial, CloudStep, PTL DEF CloudSpec

LEMMA PersistStep ==
  ASSUME CloudInv, [CloudNext]_cloudVars
  PROVE  [\A s \in Slots : (slots'[s] # slots[s] /\ slots'[s] # NoRepo /\ step' = "idle")
            => Opened(slots'[s])]_cloudVars
<1> SUFFICES ASSUME CloudNext, NEW s \in Slots, slots'[s] # slots[s], slots'[s] # NoRepo, step' = "idle"
             PROVE  Opened(slots'[s])
  OBVIOUS
<1>1. _override_repo \/ \E slot \in {wz.slot, "primary"}, persist \in BOOLEAN : Write(slot, persist)
  BY DEF CloudInv, CloudTypes, CloudNext, Start, Bucket, r2_run_wizard, b2_run_wizard, gdrive_run_wizard, _b2_authorize, _create_bucket,
         _b2_create_bucket, _rclone_remote, _store_id, _store_secret, _passphrase, _restic_init, Goto,
         _round_trip, _persist, _persist_to_instance_yaml, _persist_gdrive, _override_repo, Abort,
         keys_backup_command, NewMac, keychain_rotate, keys_restore_command, FreeSlot,
         backup_restore, _backup_recipe, backup_verify, backup_snapshots
<1>2. step \in {"persist", "override"} /\ slots'[s] = Repo
  BY <1>1 DEF Write, _override_repo, CloudInv, CloudTypes
<1>3. Passphrase(Repo) = pass
  BY <1>2 DEF CloudInv, PassphraseHolds
<1>4. Repo.kind = wz.kind /\ Repo.acct = wz.acct
  BY DEF Repo
<1>5. _restic_env(Repo) = Repo.acct
  BY <1>2, <1>4 DEF CloudInv, KeysAreStored, _restic_env
<1>6. Repo # Placeholder
  BY <1>4 DEF CloudInv, CloudTypes, Kinds, Placeholder
<1> QED BY <1>2, <1>3, <1>5, <1>6 DEF Opened

\* The slot a wizard is done with opens with what the Keychain holds at that moment, for
\* any accounts and slots, and whatever rotate, restore and the other slot's wizard
\* did before. (_persist, _persist_to_instance_yaml, _persist_gdrive, _restic_env)
THEOREM PersistOpens == CloudSpec => PersistedOpens
  BY CloudInitial, CloudStep, PersistStep, PTL DEF CloudSpec, PersistedOpens

\* No wizard replaces a passphrase that repositories were made with, however its
\* Keychain read: only the operator's rotate and restore do. (run_wizard,
\* _ensure_keychain_entry)
THEOREM PassphraseKept == CloudSpec => WizardsKeepThePassphrase
<1>1. ASSUME [CloudNext]_cloudVars
      PROVE  [(step # "idle" /\ pass # 0) => pass' = pass]_cloudVars
  <2> SUFFICES ASSUME CloudNext, step # "idle", pass # 0
               PROVE  pass' = pass
    BY <1>1 DEF cloudVars, keys
  <2> QED
    BY DEF CloudNext, Start, Bucket, r2_run_wizard, b2_run_wizard, gdrive_run_wizard, _b2_authorize, _create_bucket,
         _b2_create_bucket, _rclone_remote, _store_id, _store_secret, _passphrase, _restic_init,
         _round_trip, _persist, _persist_to_instance_yaml, _persist_gdrive, _override_repo, Write, Goto, Abort,
         keys_backup_command, NewMac, keychain_rotate, keys_restore_command, FreeSlot,
         backup_restore, _backup_recipe, backup_verify, backup_snapshots, keys
<1> QED BY <1>1, PTL DEF CloudSpec, WizardsKeepThePassphrase

---------------------------------------------------------------------------
\* TierZero.

TierSpec == TierInit /\ [][TierNext]_tierVars

\* What is staged is the clone but for the files that slipped, until the scan has
\* decided: the scan reads the clone and judges the index by it.
StagedIsTree == at \in {"status", "staged"} => \A f \in Files \ slipped : index[f] = tree[f]

TierInv == TierTypeOK /\ StagedIsTree /\ NoSecretPushed

LEMMA TierInitial == TierInit => TierInv
  BY DEF TierInit, TierInv, TierTypeOK, StagedIsTree, NoSecretPushed, Nowhere, Texts, Files

\* The staged scan commits nothing with a credential: what differs from the
\* last commit was looked at, the rest is the last commit's.
LEMMA CommitKeeps ==
  ASSUME TierInv, _commit
  PROVE  TierInv'
<1> USE DEF TierInv, TierTypeOK, StagedIsTree, NoSecretPushed
<1>1. CASE scan_paths({f \in Files : index[f] # head[f]}) # {}
  BY <1>1 DEF _commit, Done
<1>3. CASE scan_paths({f \in Files : index[f] # head[f]}) = {} /\ index = head
  BY <1>3 DEF _commit, Done
<1>2. CASE scan_paths({f \in Files : index[f] # head[f]}) = {} /\ index # head
  <2>1. head' = index /\ at' = "push" /\ UNCHANGED <<home, tree, origin, index, slipped>>
    BY <1>2 DEF _commit
  <2>2. ASSUME NEW f \in Files \ slipped PROVE index[f] # "secret"
    BY <1>2 DEF _commit, scan_paths
  <2> QED BY <2>1, <2>2
<1> QED BY <1>1, <1>2, <1>3

LEMMA TierStep == TierInv /\ [TierNext]_tierVars => TierInv'
<1> SUFFICES ASSUME TierInv, [TierNext]_tierVars PROVE TierInv'
  OBVIOUS
<1> USE DEF TierInv, TierTypeOK, StagedIsTree, NoSecretPushed
<1>1. ASSUME NEW f \in Dotfiles, NEW t \in Texts, EditHome(f, t) PROVE TierInv'
  BY <1>1 DEF EditHome, Turn, gitVars
<1>2. ASSUME NEW f \in Strays, NEW t \in Texts, DropFile(f, t) PROVE TierInv'
  BY <1>2 DEF DropFile, Turn, gitVars, Files
<1>3. ASSUME NEW ok \in BOOLEAN, github_wizard(ok) PROVE TierInv'
  BY <1>3 DEF github_wizard, Done, gitVars
<1>4. ASSUME NEW persist \in BOOLEAN, _prescan(persist) PROVE TierInv'
  BY <1>4 DEF _prescan, Done, gitVars
<1>5. ASSUME NEW ok \in BOOLEAN, _push(ok) PROVE TierInv'
  BY <1>5 DEF _push, Done
<1>6. CASE _copy_dotfiles
  BY <1>6 DEF _copy_dotfiles, gitVars, Written, Files
<1>7. CASE _add
  BY <1>7 DEF _add
<1>10. CASE _status
  BY <1>10 DEF _status, Done, gitVars
<1>8. CASE _commit
  BY <1>8, CommitKeeps
<1>9. CASE UNCHANGED tierVars
  BY <1>9 DEF tierVars, gitVars
<1> QED BY <1>1, <1>2, <1>3, <1>4, <1>5, <1>6, <1>7, <1>8, <1>9, <1>10 DEF TierNext

\* Types: every file of the clone, the index, the commit and the remote has a
\* text the model knows. (backends/github.py)
THEOREM TierTypes == TierSpec => []TierTypeOK
<1>1. TierInv => TierTypeOK
  BY DEF TierInv
<1> QED BY TierInitial, TierStep, <1>1, PTL DEF TierSpec

\* No credential the scanner knows reaches GitHub, nor a commit a later push
\* would carry there, whoever dropped it into the clone, unless its file changed
\* there between the staging and the scan. (_prescan, the staged scan of
\* _commit_and_push)
THEOREM NothingSecretLeaves == TierSpec => []NoSecretPushed
<1>1. TierInv => NoSecretPushed
  BY DEF TierInv
<1> QED BY TierInitial, TierStep, <1>1, PTL DEF TierSpec

---------------------------------------------------------------------------
\* Deadman.

BeatSpec == BeatInit /\ [][BeatNext]_beatVars

Times == 0..MaxBeats

BeatTypes ==
    /\ BeatTypeOK /\ clock \in Times /\ now \in [Beats -> Times] /\ heard \in [Beats -> Times]
    /\ base \in [Beats -> [Keys -> Times]] /\ data \in [Beats -> [Keys -> Times]]

\* What a beat is about to put is what it read, with its own key changed: if the
\* file still is what was read, the put changes nothing else.
MergedIsOwn == \A p \in Beats : beatAt[p] = "put" => data[p] = merge_heartbeat(base[p], p)

\* A time in the file is one that a beat of its key began with, or none.
Accounted == \A k \in Keys : last[k] # 0 => \E q \in Beats : HostOf[q] = k /\ last[k] \in 1..now[q]

\* A beat at work has a time and a try left, and no time is ahead of the clock;
\* whoever was told has the key in the file.
Dated == \A p \in Beats : now[p] <= clock /\ (beatAt[p] # "idle" => now[p] # 0 /\ tries[p] # 0)
Heard == \A p \in Beats : heard[p] # 0 => last[HostOf[p]] # 0

BeatInv == BeatTypes /\ MergedIsOwn /\ Accounted /\ Dated /\ Heard /\ remote = last

LEMMA KeyOf == \A p \in Beats : HostOf[p] \in Keys
  BY DEF Keys

LEMMA BeatInitial == BeatInit => BeatInv
  BY BeatAssumption, KeyOf
  DEF BeatInit, BeatInv, BeatTypes, BeatTypeOK, MergedIsOwn, Accounted, Dated, Heard, NoFile, Times, MAX_RETRIES

\* A new beat begins at a time no earlier than any other's.
LEMMA BeginKeeps ==
  ASSUME BeatInv, NEW p \in Beats, beat(p)
  PROVE  BeatInv'
<1> USE BeatAssumption DEF BeatInv, BeatTypes, BeatTypeOK, Times
<1>1. BeatTypes'
  BY DEF beat, MAX_RETRIES
<1>2. MergedIsOwn'
  BY DEF beat, MergedIsOwn, merge_heartbeat
<1>3. \A q \in Beats : now'[q] \in Nat /\ now[q] \in Nat /\ now'[q] >= now[q]
  BY DEF beat, Dated, MAX_RETRIES
<1>4. Accounted'
  BY <1>3 DEF beat, Accounted
<1>5. Dated'
  BY DEF beat, Dated, MAX_RETRIES
<1>6. Heard' /\ remote' = last'
  BY DEF beat, Heard
<1> QED BY <1>1, <1>2, <1>4, <1>5, <1>6

LEMMA ReadKeeps ==
  ASSUME BeatInv, NEW p \in Beats, NEW ok \in BOOLEAN, _read_remote(p, ok)
  PROVE  BeatInv'
<1> USE BeatAssumption DEF BeatInv, BeatTypes, BeatTypeOK, Times
<1>1. UNCHANGED <<remote, now, tries, heard, last, clock>>
  BY DEF _read_remote
<1>2. beatAt' \in [Beats -> {"idle", "read", "put"}] /\ beatAt[p] = "read"
  BY DEF _read_remote, Raise
<1>3. CASE ok
  <2>1. /\ beatAt' = [beatAt EXCEPT ![p] = "put"] /\ base' = [base EXCEPT ![p] = remote]
        /\ data' = [data EXCEPT ![p] = merge_heartbeat(remote, p)]
    BY <1>3 DEF _read_remote
  <2>2. merge_heartbeat(remote, p) \in [Keys -> Times] /\ remote \in [Keys -> Times]
    BY KeyOf DEF merge_heartbeat
  <2>3. BeatTypes'
    BY <1>1, <1>2, <2>1, <2>2
  <2>4. MergedIsOwn'
    BY <1>1, <2>1 DEF MergedIsOwn, merge_heartbeat
  <2>5. Accounted' /\ Dated' /\ Heard' /\ remote' = last'
    BY <1>1, <1>2, <2>1 DEF Accounted, Dated, Heard
  <2> QED BY <2>3, <2>4, <2>5
<1>4. CASE ~ok
  <2>1. beatAt' = [beatAt EXCEPT ![p] = "idle"] /\ UNCHANGED <<base, data>>
    BY <1>4 DEF _read_remote, Raise
  <2> QED BY <1>1, <1>2, <2>1 DEF MergedIsOwn, Accounted, Dated, Heard, merge_heartbeat
<1> QED BY <1>3, <1>4

\* The put: over the file that was read it changes the beat's own key only.
LEMMA PutKeeps ==
  ASSUME BeatInv, NEW p \in Beats, NEW answered \in BOOLEAN, _put(p, answered)
  PROVE  BeatInv'
<1> USE BeatAssumption, KeyOf DEF BeatInv, BeatTypes, BeatTypeOK, Times, Raise
<1>1. /\ tries' = [tries EXCEPT ![p] = @ - 1] /\ beatAt[p] = "put"
      /\ UNCHANGED <<base, data, now, clock>>
  BY DEF _put
<1>2. now[p] # 0 /\ now[p] \in Times /\ tries[p] \in 1..MAX_RETRIES
  BY <1>1 DEF Dated, MAX_RETRIES
<1>3. tries' \in [Beats -> 0..MAX_RETRIES]
  BY <1>1, <1>2 DEF MAX_RETRIES
<1>4. CASE remote = base[p]
  <2>1. remote' = [last EXCEPT ![HostOf[p]] = now[p]] /\ last' = remote'
    BY <1>4, <1>1 DEF _put, MergedIsOwn, merge_heartbeat
  <2>2. beatAt' = [beatAt EXCEPT ![p] = "idle"] /\ heard' \in {heard, [heard EXCEPT ![p] = now[p]]}
    BY <1>4 DEF _put
  <2>3. BeatTypes'
    <3>1. remote' \in [Keys -> Times] /\ heard' \in [Beats -> Times]
      BY <1>2, <2>1, <2>2
    <3> QED BY <1>1, <1>3, <2>1, <2>2, <3>1
  <2>4. MergedIsOwn'
    BY <1>1, <2>2 DEF MergedIsOwn, merge_heartbeat
  <2>5. Dated'
    BY <1>1, <2>2 DEF Dated
  <2>6. Accounted'
    BY <1>1, <1>2, <2>1 DEF Accounted
  <2>7. Heard'
    BY <1>2, <2>1, <2>2 DEF Heard
  <2> QED BY <2>1, <2>3, <2>4, <2>5, <2>6, <2>7
<1>5. CASE remote # base[p]
  <2>1. UNCHANGED <<remote, last, heard>>
    BY <1>5 DEF _put
  <2>2. \/ beatAt' = [beatAt EXCEPT ![p] = "read"] /\ tries[p] > 1
        \/ beatAt' = [beatAt EXCEPT ![p] = "idle"]
    BY <1>5 DEF _put
  <2>3. BeatTypes' /\ MergedIsOwn'
    BY <1>1, <1>3, <2>1, <2>2 DEF MergedIsOwn, merge_heartbeat
  <2>4. Dated'
    BY <1>1, <1>2, <2>2 DEF Dated
  <2>5. Accounted' /\ Heard'
    BY <1>1, <2>1 DEF Accounted, Heard
  <2> QED BY <2>1, <2>3, <2>4, <2>5
<1> QED BY <1>4, <1>5

LEMMA BeatStep == BeatInv /\ [BeatNext]_beatVars => BeatInv'
<1> SUFFICES ASSUME BeatInv, [BeatNext]_beatVars PROVE BeatInv'
  OBVIOUS
<1>1. ASSUME NEW p \in Beats, _put_lost(p) PROVE BeatInv'
  BY <1>1 DEF _put_lost, Raise, BeatInv, BeatTypes, BeatTypeOK, MergedIsOwn, Accounted, Dated, Heard, merge_heartbeat
<1>2. CASE UNCHANGED beatVars
  BY <1>2 DEF beatVars, BeatInv, BeatTypes, BeatTypeOK, MergedIsOwn, Accounted, Dated, Heard, merge_heartbeat
<1> QED BY <1>1, <1>2, BeginKeeps, ReadKeeps, PutKeeps DEF BeatNext

\* Every key of the file holds the time of a beat or none, a beat has tried no
\* more often than MAX_RETRIES allows, and it stands at one of beat's three
\* places: idle, reading, putting. (beat, _read_remote, _put)
THEOREM BeatsTyped == BeatSpec => []BeatTypeOK
<1>1. BeatInv => BeatTypeOK
  BY DEF BeatInv, BeatTypes
<1> QED BY BeatInitial, BeatStep, <1>1, PTL DEF BeatSpec

\* A write of one key never loses another's, whoever raced it and whichever
\* answer was lost: the file is what the last write taken of each key carried,
\* and whoever was told it is recorded has its key there. (beat, _read_remote,
\* merge_heartbeat)
THEOREM NoBeatIsLost == BeatSpec => []NoLostBeat
<1>1. BeatInv => NoLostBeat
  BY KeyOf DEF BeatInv, NoLostBeat, Accounted, Heard
<1> QED BY BeatInitial, BeatStep, <1>1, PTL DEF BeatSpec
==============================================================================
