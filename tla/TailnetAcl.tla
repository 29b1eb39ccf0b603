----------------------------- MODULE TailnetAcl -----------------------------
(* sanctum tailnet: the policy pushed to the coordination server, and the     *)
(* OAuth client its commands act with.  (commands/tailnet.py, net/tailnet.py) *)
(*                                                                            *)
(* The server's policy may also be edited in its console, at any time.  A     *)
(* call's reply may be lost whether or not the server acted on it.            *)
EXTENDS Naturals, FiniteSets

CONSTANTS Policies,     \* policies someone could write; "bad" is not valid
          Alike,        \* pairs of a file and a policy held that diff_acl finds in sync
          Clients,      \* OAuth clients
          MaxEvents     \* commands, edits and clients removed (bound)

ASSUME TailnetAssumption == "bad" \in Policies /\ MaxEvents \in Nat
ASSUME AlikeAssumption == Alike \subseteq Policies \X Policies

NoId == "none"
Scopes == {"acl", "devices"}
Lost == 0

VARIABLES live, local,             \* the server's policy, the operator's file
          grants,                  \* what each client may do; {} once removed
          kc, row,                 \* Keychain id and secret; the custody row
          cmd, held,               \* the command under way and what it has read
          backup, said, events
acl == <<live, local>>
custody == <<kc, row>>
command == <<cmd, held>>
tailnetVars == <<acl, grants, custody, command, backup, said, events>>

Event == events < MaxEvents /\ events' = events + 1
AtRest == [cmd |-> "idle", held |-> [token |-> NoId, body |-> "bad", go |-> FALSE]]

\* A token is minted only from an id and a secret of one client that still is.
_resolve_token == IF kc.id # NoId /\ kc.id = kc.secret /\ grants[kc.id] # {} THEN kc.id ELSE NoId

\* The status of a call made with a token: the server's own, or none.
Code(c, scope, ok) == IF scope \notin grants[c] THEN 403 ELSE IF ok THEN 200 ELSE 400
Codes(c, scope, ok) == {Lost, Code(c, scope, ok)}

TailnetInit ==
    /\ live \in Policies \ {"bad"} /\ local \in Policies
    /\ grants \in [Clients -> SUBSET Scopes]
    /\ kc = [id |-> NoId, secret |-> NoId] /\ row = FALSE
    /\ cmd = "idle" /\ held = AtRest.held
    /\ backup = {} /\ said = "nothing" /\ events = 0

\* The world.
EditLive(p) == /\ Event /\ p \in Policies \ {"bad", live} /\ live' = p
               /\ UNCHANGED <<local, grants, custody, command, backup, said>>
EditLocal(p) == /\ Event /\ p \in Policies \ {local} /\ local' = p
                /\ UNCHANGED <<live, grants, custody, command, backup, said>>
Regrant(c, s) == /\ Event /\ grants' = [grants EXCEPT ![c] = s] /\ grants' # grants
                 /\ UNCHANGED <<acl, custody, command, backup, said>>

---------------------------------------------------------------------------
\* apply: the file and the token, read once.

Fail(why) == cmd' = "idle" /\ held' = AtRest.held /\ said' = why

tailnet_apply(go) ==
    /\ Event /\ cmd = "idle"
    /\ IF _resolve_token = NoId
         THEN Fail("no credential")
         ELSE /\ cmd' = "validate" /\ said' = "nothing"
              /\ held' = [token |-> _resolve_token, body |-> local, go |-> go]
    /\ UNCHANGED <<acl, grants, custody, backup>>

_validate(code) ==
    /\ cmd = "validate" /\ code \in Codes(held.token, "acl", held.body # "bad")
    /\ CASE code # 200 -> Fail("not valid")
         [] code = 200 /\ ~held.go -> Fail("dry run")
         [] OTHER -> cmd' = "backup" /\ said' = "valid" /\ UNCHANGED held
    /\ UNCHANGED <<acl, grants, custody, backup, events>>

\* Best-effort: the push follows whatever comes of it.
_back_up(code, wrote) ==
    /\ cmd = "backup" /\ code \in Codes(held.token, "acl", TRUE) /\ cmd' = "push"
    /\ backup' = IF code = 200 /\ wrote THEN backup \cup {live} ELSE backup
    /\ UNCHANGED <<acl, grants, custody, held, said, events>>

\* (mutant) the file is read again for the push
PushReadsAgain(applied, code) ==
    /\ cmd = "push" /\ code \in Codes(held.token, "acl", TRUE)
    /\ applied => "acl" \in grants[held.token]
    /\ code = 200 => applied
    /\ live' = IF applied THEN local ELSE live
    /\ IF code = 200 THEN cmd' = "verify" /\ said' = "applied" /\ UNCHANGED held
                     ELSE Fail("policy unchanged")
    /\ UNCHANGED <<local, grants, custody, backup, events>>

\* Anything but 200 is reported as a policy left unchanged.
_push(applied, code) ==
    /\ cmd = "push" /\ code \in Codes(held.token, "acl", TRUE)
    /\ applied => "acl" \in grants[held.token]
    /\ code = 200 => applied
    /\ live' = IF applied THEN held.body ELSE live
    /\ IF code = 200 THEN cmd' = "verify" /\ said' = "applied" /\ UNCHANGED held
                     ELSE Fail("policy unchanged")
    /\ UNCHANGED <<local, grants, custody, backup, events>>

\* Comments, blanks and trailing commas stripped from both texts, in strings too,
\* and what is left compared: neither does a policy that differs always show, nor
\* is the server's own text of the policy pushed always found in sync.
diff_acl(file, policy) == <<file, policy>> \in Alike

\* The server's policy read again, and compared with the text pushed.
_verify(code) ==
    /\ cmd = "verify" /\ code \in Codes(held.token, "acl", TRUE)
    /\ Fail(IF code = 200 /\ diff_acl(held.body, live) THEN "verified" ELSE "unconfirmed")
    /\ UNCHANGED <<acl, grants, custody, backup, events>>

---------------------------------------------------------------------------
\* creds: the client the operator pasted is proved before it is stored.

tailnet_creds(c) ==
    /\ Event /\ cmd = "idle"
    /\ IF grants[c] = {} THEN Fail("cannot mint")
         ELSE cmd' = "scopes" /\ said' = "nothing" /\ held' = [AtRest.held EXCEPT !.token = c]
    /\ UNCHANGED <<acl, grants, custody, backup>>

_scopes(acl_code, dev_code) ==
    /\ cmd = "scopes" /\ acl_code \in Codes(held.token, "acl", TRUE)
    /\ dev_code \in Codes(held.token, "devices", TRUE)
    /\ IF acl_code = 200 /\ dev_code = 200 THEN cmd' = "store id" /\ UNCHANGED <<held, said>>
                                         ELSE Fail("missing scope")
    /\ UNCHANGED <<acl, grants, custody, backup, events>>

\* The id, then the secret: two Keychain writes, either of which may fail.
_store_creds(ok) ==
    /\ \/ /\ cmd = "store id"
          /\ IF ok THEN kc' = [kc EXCEPT !.id = held.token] /\ cmd' = "store secret" /\ UNCHANGED <<held, said>>
                   ELSE Fail("keychain") /\ UNCHANGED kc
       \/ /\ cmd = "store secret"
          /\ kc' = IF ok THEN [kc EXCEPT !.secret = held.token] ELSE kc
          /\ Fail(IF ok THEN "stored" ELSE "keychain")
    /\ row' \in {row, row \/ ok}
    /\ UNCHANGED <<acl, grants, backup, events>>

---------------------------------------------------------------------------
\* doctor: each row from its own probe; one that fails is UNKNOWN.

classify_reachability(ping, ssh) ==
    CASE ssh = "open" -> "OK" [] ssh = "closed" -> "DOWN" [] OTHER -> "UNKNOWN"
classify_cred(code) ==
    CASE code = 200 -> "OK" [] code \in {Lost, 401, 403} -> "DOWN" [] OTHER -> "ATTENTION"
classify_daemon_skew(cli, daemon) ==
    CASE NoId \in {cli, daemon} -> "UNKNOWN" [] cli = daemon /\ cli # NoId -> "OK" [] OTHER -> "ATTENTION"
_trifecta_row == IF NoId \in {kc.id, kc.secret} THEN "ATTENTION" ELSE "OK"
_spine_row(up) == CASE up = "yes" -> "OK" [] up = "no" -> "DOWN" [] OTHER -> "UNKNOWN"

_probe_cred(code) == IF _resolve_token = NoId THEN Lost ELSE code
_drift_row(code) ==
    IF _resolve_token = NoId \/ code # 200 THEN "UNKNOWN"
    ELSE IF diff_acl(local, live) THEN "OK" ELSE "ATTENTION"

build_tailnet_report(rows) ==
    CASE "DOWN" \in rows -> "DEGRADED"
      [] "ATTENTION" \in rows /\ "DOWN" \notin rows -> "ATTENTION"
      [] OTHER -> "GREEN"

tailnet_doctor(spine, ssh, code) ==
    /\ Event /\ cmd = "idle"
    /\ code \in IF _resolve_token = NoId THEN {Lost} ELSE Codes(_resolve_token, "acl", TRUE)
    /\ said' = build_tailnet_report({_spine_row(spine), classify_reachability("yes", ssh),
                    classify_cred(_probe_cred(code)), _drift_row(code), _trifecta_row})
    /\ UNCHANGED <<acl, grants, custody, command, backup>>

\* ssh: over the tailnet, else directly; nothing is kept.
tailnet_ssh(first, second) ==
    /\ Event /\ cmd = "idle"
    /\ said' = IF first \/ second THEN "connected" ELSE "run the doctor"
    /\ UNCHANGED <<acl, grants, custody, command, backup>>

TailnetNext ==
    \/ \E p \in Policies : EditLive(p) \/ EditLocal(p)
    \/ \E c \in Clients, s \in SUBSET Scopes : Regrant(c, s)
    \/ \E go \in BOOLEAN : tailnet_apply(go) \/ _store_creds(go)
    \/ \E c \in Clients : tailnet_creds(c)
    \/ \E n \in {Lost, 200, 400, 403} :
         \/ _validate(n) \/ _verify(n)
         \/ \E b \in BOOLEAN : _back_up(n, b) \/ _push(b, n)
         \/ \E m \in {Lost, 200, 403} : _scopes(n, m)
         \/ \E u, h \in {"yes", "no", "?"} : tailnet_doctor(u, CASE h = "yes" -> "open" [] h = "no" -> "closed" [] OTHER -> h, n)
    \/ \E a, b \in BOOLEAN : tailnet_ssh(a, b)

---------------------------------------------------------------------------
TailnetTypeOK ==
    /\ live \in Policies /\ local \in Policies /\ backup \subseteq Policies
    /\ kc \in [id : Clients \cup {NoId}, secret : Clients \cup {NoId}] /\ row \in BOOLEAN
    /\ cmd \in {"idle", "validate", "backup", "push", "verify", "scopes", "store id", "store secret"}
    /\ held \in [token : Clients \cup {NoId}, body : Policies, go : BOOLEAN]

\* "continuing - push is validated" (tailnet_apply): the server never comes to
\* hold a policy its validation refuses, however the file is edited between the
\* validation, the backup and the push, and whichever of the calls lost its reply.
PushIsValidated == live # "bad"

\* "apply FAILED (HTTP ...) -- policy unchanged": after a push that is reported to
\* have failed the server holds what it held before it. (tailnet_apply)
UnchangedIsUnchanged == [][(said' = "policy unchanged" /\ said # said') => live' = live]_tailnetVars
=============================================================================
