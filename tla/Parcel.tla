------------------------------- MODULE Parcel -------------------------------
(* A file parcel of the mesh: signed, served from its sender's disk, fetched  *)
(* address by address into <name>.partial and renamed into the inbox.         *)
(* Receives on one Mac share the inbox, and here the name. (mesh/files.py)    *)
EXTENDS Naturals, Sequences

CONSTANTS Receivers,    \* sanctum mesh receive commands that may run at once
          MaxReceives   \* tickets pasted (bound)

ASSUME ParcelAssumption == MaxReceives \in Nat

\* A chunk that an address serves: of whatever its sender's file holds then.
Chunks == {"x", "y"}
Contents == {<<"x">>, <<"y", "y">>}  \* the bytes a parcel may be signed for
\* A ticket whose signature verifies, with the addresses that are allowed.
Tickets == [signed : Contents, urls : 1..2]
NoFile == 0
Inodes == 1..(2 * MaxReceives)

VARIABLES stage, ticket,   \* of each receive: where it is; its signed bytes and the addresses left
          handle, got,     \* its open file; the bytes it hashed
          bytes,           \* what each file of the disk holds
          partial, saved,  \* the files at the two names
          opened, pasted   \* files created; tickets pasted
parcelVars == <<stage, ticket, handle, got, bytes, partial, saved, opened, pasted>>

ParcelInit ==
    /\ stage = [r \in Receivers |-> "idle"] /\ handle = [r \in Receivers |-> NoFile]
    /\ ticket = [r \in Receivers |-> [signed |-> <<>>, urls |-> 0]] /\ got = [r \in Receivers |-> <<>>]
    /\ bytes = [i \in Inodes |-> <<>>] /\ partial = NoFile /\ saved = NoFile /\ opened = 0 /\ pasted = 0

\* The name is looked up in the inbox, once.
receive_parcel(r, t) ==
    /\ stage[r] \in {"idle", "saved", "failed"} /\ pasted < MaxReceives /\ pasted' = pasted + 1
    /\ ticket' = [ticket EXCEPT ![r] = t]
    /\ stage' = [stage EXCEPT ![r] = IF saved # NoFile THEN "failed" ELSE "next"]
    /\ UNCHANGED <<handle, got, bytes, partial, saved, opened>>

\* (mutant) the partial file that was left is not emptied
LeftAsItIs(r) ==
    /\ stage[r] = "next" /\ ticket[r].urls > 0
    /\ ticket' = [ticket EXCEPT ![r].urls = @ - 1]
    /\ stage' = [stage EXCEPT ![r] = "body"] /\ got' = [got EXCEPT ![r] = <<>>]
    /\ opened' = IF partial = NoFile THEN opened + 1 ELSE opened
    /\ partial' = IF partial = NoFile THEN opened' ELSE partial
    /\ handle' = [handle EXCEPT ![r] = partial']
    /\ UNCHANGED <<bytes, saved, pasted>>

\* The next address answers 200: the partial file is opened, and emptied.
_open(r) ==
    /\ stage[r] = "next" /\ ticket[r].urls > 0
    /\ ticket' = [ticket EXCEPT ![r].urls = @ - 1]
    /\ stage' = [stage EXCEPT ![r] = "body"] /\ got' = [got EXCEPT ![r] = <<>>]
    /\ opened' = IF partial = NoFile THEN opened + 1 ELSE opened
    /\ partial' = IF partial = NoFile THEN opened' ELSE partial
    /\ handle' = [handle EXCEPT ![r] = partial'] /\ bytes' = [bytes EXCEPT ![partial'] = <<>>]
    /\ UNCHANGED <<saved, pasted>>

\* It refuses, or no address is left.
_refused(r) ==
    /\ stage[r] = "next"
    /\ IF ticket[r].urls > 0 THEN ticket' = [ticket EXCEPT ![r].urls = @ - 1] /\ UNCHANGED stage
       ELSE stage' = [stage EXCEPT ![r] = "failed"] /\ UNCHANGED ticket
    /\ UNCHANGED <<handle, got, bytes, partial, saved, opened, pasted>>

\* What the file holds once a chunk is written at an offset, past its end if
\* someone else emptied it.
Written(file, offset, chunk) ==
    [i \in 1..(IF Len(file) > offset THEN Len(file) ELSE offset + 1) |->
        IF i = offset + 1 THEN chunk ELSE IF i <= Len(file) THEN file[i] ELSE "hole"]

\* A chunk is summed and written; one past the signed size ends the fetch, and
\* the partial file stays.
_chunk(r, chunk) ==
    /\ stage[r] = "body" /\ Len(got[r]) <= Len(ticket[r].signed)
    /\ IF Len(got[r]) = Len(ticket[r].signed)
         THEN /\ stage' = [stage EXCEPT ![r] = "next"] /\ handle' = [handle EXCEPT ![r] = NoFile]
              /\ UNCHANGED <<got, bytes>>
         ELSE /\ got' = [got EXCEPT ![r] = Append(@, chunk)]
              /\ bytes' = [bytes EXCEPT ![handle[r]] = Written(@, Len(got[r]), chunk)]
              /\ UNCHANGED <<stage, handle>>
    /\ UNCHANGED <<ticket, partial, saved, opened, pasted>>

\* The connection breaks, or the body ends: what does not match is deleted.
_fetch_ends(r, broken) ==
    /\ stage[r] = "body" /\ handle' = [handle EXCEPT ![r] = NoFile]
    /\ IF broken \/ got[r] # ticket[r].signed
         THEN partial' = NoFile /\ stage' = [stage EXCEPT ![r] = "next"]
         ELSE stage' = [stage EXCEPT ![r] = "rename"] /\ UNCHANGED partial
    /\ UNCHANGED <<ticket, got, bytes, saved, opened, pasted>>

\* The partial file takes the name in the inbox, or is not there any more.
_replace(r) ==
    /\ stage[r] = "rename"
    /\ IF partial = NoFile THEN stage' = [stage EXCEPT ![r] = "failed"] /\ UNCHANGED saved
       ELSE stage' = [stage EXCEPT ![r] = "saved"] /\ saved' = partial
    /\ partial' = NoFile /\ UNCHANGED <<ticket, handle, got, bytes, opened, pasted>>

\* Ctrl-C; the operator moves the file aside.
Stop(r) ==
    /\ stage[r] \in {"next", "body", "rename"} /\ stage' = [stage EXCEPT ![r] = "failed"]
    /\ handle' = [handle EXCEPT ![r] = NoFile] /\ UNCHANGED <<ticket, got, bytes, partial, saved, opened, pasted>>
MoveAside ==
    /\ saved # NoFile /\ saved' = NoFile /\ UNCHANGED <<stage, ticket, handle, got, bytes, partial, opened, pasted>>

ParcelNext ==
    \/ MoveAside
    \/ \E r \in Receivers :
         \/ _open(r) \/ _refused(r) \/ _replace(r) \/ Stop(r)
         \/ \E t \in Tickets : receive_parcel(r, t)
         \/ \E chunk \in Chunks : _chunk(r, chunk)
         \/ \E broken \in BOOLEAN : _fetch_ends(r, broken)

---------------------------------------------------------------------------
\* "The receiver checks the signature and the sha256, then writes the file":
\* when a receive says saved, the file in the inbox holds the signed bytes,
\* whatever was served, left behind or interrupted before.  (The sum is taken
\* of the stream, not of the file.)
SavedIsSigned ==
    [][\A r \in Receivers : stage[r] = "rename" /\ stage'[r] = "saved" =>
          bytes'[saved'] = ticket[r].signed]_parcelVars
=============================================================================
