------------------------------ MODULE TierZero ------------------------------
(* sanctum cloud setup --backend github: the host's public-safe files, staged *)
(* into a clone that outlives the run, scanned, committed and pushed.         *)
(* (backends/github.py, secret_scanner.py)                                    *)
(*                                                                            *)
(* A file's text is a version, or "secret" when it holds a credential.  Files *)
(* get into the clone by the wizard's copying and by other hands, these at    *)
(* any time; the scan of what is staged reads the clone, the commit the index. *)
EXTENDS Naturals, FiniteSets

CONSTANTS Dotfiles,     \* files the wizard copies
          Strays,       \* files someone drops into the clone
          MaxTurns      \* runs and edits (bound)

ASSUME TierAssumption == Dotfiles \cap Strays = {} /\ MaxTurns \in Nat

Files == Dotfiles \cup Strays
Texts == {"absent", "first", "second", "secret"}

VARIABLES home,                 \* the dotfiles
          tree, index, head,    \* the clone's files, its index, its last commit
          origin,               \* what GitHub holds
          slipped,              \* files changed in the clone between a staging and its scan
          at, told, turns
gitVars == <<index, head, origin>>
tierVars == <<home, tree, gitVars, slipped, at, told, turns>>

Turn == turns < MaxTurns /\ turns' = turns + 1
Done(what) == at' = "idle" /\ told' = what
Nowhere == [f \in Files |-> "absent"]

TierInit ==
    /\ home \in [Dotfiles -> {"first", "secret"}]
    /\ tree = Nowhere /\ index = Nowhere /\ head = Nowhere /\ origin = Nowhere
    /\ slipped = {} /\ at = "idle" /\ told = "nothing" /\ turns = 0

\* A dotfile is edited between two runs; a file of the clone changes at any time.
EditHome(f, t) == /\ Turn /\ at = "idle" /\ home' = [home EXCEPT ![f] = t]
                  /\ UNCHANGED <<tree, gitVars, slipped, at, told>>
DropFile(f, t) == /\ Turn /\ tree' = [tree EXCEPT ![f] = t]
                  /\ slipped' = IF at \in {"status", "staged"} THEN slipped \cup {f} ELSE slipped
                  /\ UNCHANGED <<home, gitVars, at, told>>

\* The repository is there or is created, the clone made or fetched.
github_wizard(ok) ==
    /\ Turn /\ at = "idle" /\ IF ok THEN at' = "copy" /\ UNCHANGED told ELSE Done("failed")
    /\ UNCHANGED <<home, tree, gitVars, slipped>>

\* A dotfile that is gone is not copied; its last copy stays in the clone.
Written == {f \in Dotfiles : home[f] # "absent"}

_copy_dotfiles ==
    /\ at = "copy" /\ at' = "scan"
    /\ tree' = [f \in Files |-> IF f \in Written THEN home[f] ELSE tree[f]]
    /\ UNCHANGED <<home, gitVars, slipped, told, turns>>

scan_paths(fs) == {f \in fs : tree[f] = "secret"}

\* The files this run wrote are scanned; then push, or not.
_prescan(persist) ==
    /\ at = "scan"
    /\ IF scan_paths(Written) # {} THEN Done("refused")
         ELSE IF persist THEN at' = "add" /\ UNCHANGED told ELSE Done("not pushed")
    /\ UNCHANGED <<home, tree, gitVars, slipped, turns>>

\* git add -A: the whole clone; a clean status after it is nothing to do.
_add ==
    /\ at = "add" /\ index' = tree /\ at' = "status"
    /\ UNCHANGED <<home, tree, head, origin, slipped, told, turns>>
_status ==
    /\ at = "status"
    /\ IF tree = head /\ index = head THEN Done("up to date") ELSE at' = "staged" /\ UNCHANGED told
    /\ UNCHANGED <<home, tree, gitVars, slipped, turns>>

\* (mutant) only what this run wrote is scanned again
StagedScanOfWritten ==
    /\ at = "staged"
    /\ IF scan_paths({f \in Written : index[f] # head[f]}) # {}
         THEN index' = head /\ UNCHANGED head /\ Done("refused")
         ELSE IF index = head THEN Done("failed") /\ UNCHANGED <<index, head>>
         ELSE head' = index /\ at' = "push" /\ UNCHANGED <<index, told>>
    /\ UNCHANGED <<home, tree, origin, slipped, turns>>

\* The files that are staged are scanned again, whoever put them there, as the
\* clone holds them: refused and unstaged, or committed as they were staged.
\* With nothing staged git refuses.
_commit ==
    /\ at = "staged"
    /\ IF scan_paths({f \in Files : index[f] # head[f]}) # {}
         THEN index' = head /\ UNCHANGED head /\ Done("refused")
         ELSE IF index = head THEN Done("failed") /\ UNCHANGED <<index, head>>
         ELSE head' = index /\ at' = "push" /\ UNCHANGED <<index, told>>
    /\ UNCHANGED <<home, tree, origin, slipped, turns>>

_push(ok) ==
    /\ at = "push" /\ Done(IF ok THEN "pushed" ELSE "failed")
    /\ origin' = IF ok THEN head ELSE origin
    /\ UNCHANGED <<home, tree, index, head, slipped, turns>>

TierNext ==
    \/ \E f \in Dotfiles, t \in Texts : EditHome(f, t)
    \/ \E f \in Strays, t \in Texts : DropFile(f, t)
    \/ \E ok \in BOOLEAN : github_wizard(ok) \/ _prescan(ok) \/ _push(ok)
    \/ _copy_dotfiles \/ _add \/ _status \/ _commit

---------------------------------------------------------------------------
TierTypeOK ==
    /\ home \in [Dotfiles -> Texts] /\ tree \in [Files -> Texts]
    /\ \A g \in {index, head, origin} : g \in [Files -> Texts]
    /\ at \in {"idle", "copy", "scan", "add", "status", "staged", "push"}
    /\ slipped \subseteq Files

\* No text the scanner knows for a credential reaches GitHub, nor a commit that
\* a later push would carry there, whichever way its file got into the clone,
\* unless the file was changed there between the staging and the scan.
NoSecretPushed == \A f \in Files \ slipped : origin[f] # "secret" /\ head[f] # "secret"

\* "Scan the actual staged set here and refuse before committing"
\* (_commit_and_push): no commit holds a text the scanner knows.
StagedIsScanned == \A f \in Files : head[f] # "secret"

\* "nothing to commit -- repo already up to date": GitHub holds what the clone
\* holds.
UpToDateIsPushed == told = "up to date" => origin = head
=============================================================================
