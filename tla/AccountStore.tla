---------------------------- MODULE AccountStore ----------------------------
(***************************************************************************)
(* The account tables of songdock (src/internal/store): artists, users,    *)
(* memberships, invitations and token revocations, with one action for     *)
(* each repository method that writes them.  A method of the SQLite        *)
(* repository is one transaction, and SQLite lets only one writer commit   *)
(* on a given snapshot, so a method is one atomic step.  An error return   *)
(* rolls the transaction back and changes nothing: an action's guard is    *)
(* the conjunction of the conditions under which the method commits.       *)
(*                                                                         *)
(* Abstracted: names, password hashes and NULL/'' spellings; e-mail        *)
(* addresses are already normalized; a code stands for its HMAC (the       *)
(* tables hold only the hash, and the hash is injective for our purposes). *)
(* Rows are functions from ids to a row or NoRow.                          *)
(***************************************************************************)
EXTENDS Naturals, FiniteSets

CONSTANTS
    ArtistIDs, UserIDs, InvitationIDs,  \* the ids AUTOINCREMENT may hand out
    Slugs, Emails, Codes,
    NoRow,                              \* no row under this id
    InvitationLifetime,                 \* store.go: InvitationLifetime
    MaxTime                             \* bound on the clock

ASSUME NoRowAssumption == NoRow \notin Slugs \cup Emails
ASSUME LifetimeAssumption == InvitationLifetime \in Nat \ {0}
ASSUME MaxTimeAssumption == MaxTime \in Nat

VARIABLES
    artists,        \* id -> slug or NoRow
    users,          \* id -> e-mail or NoRow
    userArtists,    \* the pairs <<user, artist>> of table user_artists
    invitations,    \* id -> Invitation or NoRow
    revocations,    \* the ids in table user_token_revocations
    everUsed,       \* the ids each AUTOINCREMENT sequence has passed
    issued,         \* code -> what it was issued for, or NoRow (history)
    redemptions,    \* the pairs <<code, user>> ever redeemed (history)
    clock           \* the current second

tables == <<artists, users, userArtists, invitations, revocations, everUsed>>
storeVars == <<tables, issued, redemptions, clock>>

Invitation ==
    [email : Emails, artist : ArtistIDs, code : Codes, expires : Nat,
     accepted : BOOLEAN, revoked : BOOLEAN]
Grant == [email : Emails, artist : ArtistIDs, expires : Nat]

ASSUME NoRowIsNoRecord == NoRow \notin Invitation \cup Grant

Rows(table) == {id \in DOMAIN table : table[id] # NoRow}

StoreInit ==
    /\ artists = [a \in ArtistIDs |-> NoRow]
    /\ users = [u \in UserIDs |-> NoRow]
    /\ userArtists = {}
    /\ invitations = [i \in InvitationIDs |-> NoRow]
    /\ revocations = {}
    /\ everUsed = [artists |-> {}, users |-> {}, invitations |-> {}]
    /\ issued = [c \in Codes |-> NoRow]
    /\ redemptions = {}
    /\ clock = 0

-----------------------------------------------------------------------------
(* AUTOINCREMENT: a new row gets an id that no row of its table ever had. *)

\* Variant: without AUTOINCREMENT an id is free again once its row is gone.
NewUserID_Reuses == UserIDs \ Rows(users)

NewArtistID == ArtistIDs \ everUsed.artists
NewUserID == UserIDs \ everUsed.users
NewInvitationID == InvitationIDs \ everUsed.invitations

\* newInvitationCode draws 16 random bytes: never a code drawn before.
FreshCode(c) == issued[c] = NoRow

\* Variant: the expiry is never looked at.
InvitationStatus_NeverExpires(inv) ==
    IF inv.accepted THEN "accepted"
    ELSE IF inv.revoked THEN "revoked"
    ELSE "active"

InvitationStatus(inv) ==
    IF inv.accepted THEN "accepted"
    ELSE IF inv.revoked THEN "revoked"
    ELSE IF inv.expires <= clock THEN "expired"
    ELSE "active"

\* The rows a lookup by code hash returns.
InvitationsWithCode(c) == {i \in Rows(invitations) : invitations[i].code = c}

-----------------------------------------------------------------------------
(* Artists *)

CreateArtist(a, slug) ==
    /\ a \in NewArtistID
    /\ \A other \in Rows(artists) : artists[other] # slug
    /\ artists' = [artists EXCEPT ![a] = slug]
    /\ everUsed' = [everUsed EXCEPT !.artists = @ \cup {a}]
    /\ UNCHANGED <<users, userArtists, invitations, revocations,
                   issued, redemptions, clock>>

\* Variant: the administrators are not counted.
ArtistHasAdmins_Uncounted(a) == FALSE

ArtistHasAdmins(a) == \E m \in userArtists : m[2] = a

\* Its songs and their artwork are in module SongArtwork.
DeleteArtist(a) ==
    /\ artists[a] # NoRow
    /\ ~ArtistHasAdmins(a)
    /\ invitations' = [i \in InvitationIDs |->
           IF invitations[i] # NoRow /\ invitations[i].artist = a
           THEN NoRow ELSE invitations[i]]
    /\ userArtists' = {m \in userArtists : m[2] # a}
    /\ artists' = [artists EXCEPT ![a] = NoRow]
    /\ UNCHANGED <<users, revocations, everUsed, issued, redemptions, clock>>

-----------------------------------------------------------------------------
(* Invitations *)

\* Bound: an invitation's whole life fits the bounded clock.
LifeFitsClock == clock + InvitationLifetime <= MaxTime

NewInvitation(e, a, c) ==
    [email |-> e, artist |-> a, code |-> c,
     expires |-> clock + InvitationLifetime,
     accepted |-> FALSE, revoked |-> FALSE]

NewGrant(e, a) ==
    [email |-> e, artist |-> a, expires |-> clock + InvitationLifetime]

CreateUserInvitation(i, e, c, a) ==
    /\ LifeFitsClock
    /\ i \in NewInvitationID
    /\ FreshCode(c)
    /\ \A u \in Rows(users) : users[u] # e
    /\ \A j \in Rows(invitations) : invitations[j].email # e
    /\ artists[a] # NoRow
    /\ invitations' = [invitations EXCEPT ![i] = NewInvitation(e, a, c)]
    /\ everUsed' = [everUsed EXCEPT !.invitations = @ \cup {i}]
    /\ issued' = [issued EXCEPT ![c] = NewGrant(e, a)]
    /\ UNCHANGED <<artists, users, userArtists, revocations,
                   redemptions, clock>>

\* Variant: an accepted invitation may be reissued too.
Reissuable_Accepted(inv) == InvitationStatus(inv) # "active"

\* invitationReissueStatus: only what no longer works may be reissued.
Reissuable(inv) == InvitationStatus(inv) \in {"revoked", "expired"}

\* The row keeps its id and its e-mail; the old code is overwritten.
ReissueUserInvitation(i, c, a) ==
    /\ LifeFitsClock
    /\ FreshCode(c)
    /\ artists[a] # NoRow
    /\ invitations[i] # NoRow
    /\ Reissuable(invitations[i])
    /\ invitations' = [invitations EXCEPT
           ![i] = NewInvitation(invitations[i].email, a, c)]
    /\ issued' = [issued EXCEPT ![c] = NewGrant(invitations[i].email, a)]
    /\ UNCHANGED <<artists, users, userArtists, revocations, everUsed,
                   redemptions, clock>>

\* An expired invitation may still be revoked.
RevokeInvitation(i) ==
    /\ invitations[i] # NoRow
    /\ ~invitations[i].accepted
    /\ ~invitations[i].revoked
    /\ invitations' = [invitations EXCEPT ![i].revoked = TRUE]
    /\ UNCHANGED <<artists, users, userArtists, revocations, everUsed,
                   issued, redemptions, clock>>

\* Variant: the status found by the lookup is trusted.
Redeemable_StatusTrusted(i, c, e) ==
    /\ invitations[i] # NoRow
    /\ invitations[i].code = c
    /\ \A u \in Rows(users) : users[u] # e

\* Variant: the row is looked up again by id alone.
Redeemable_ByIdOnly(i, c, e) ==
    /\ invitations[i] # NoRow
    /\ InvitationStatus(invitations[i]) = "active"
    /\ \A u \in Rows(users) : users[u] # e

\* The row is looked up again by id AND hash, and its status tested again:
\* i, c and e come from a FindInvitationByCodeHash made some time before.
Redeemable(i, c, e) ==
    /\ invitations[i] # NoRow
    /\ invitations[i].code = c
    /\ InvitationStatus(invitations[i]) = "active"
    /\ \A u \in Rows(users) : users[u] # e

RedeemInvitation(i, c, e, u) ==
    /\ Redeemable(i, c, e)
    /\ u \in NewUserID
    /\ users' = [users EXCEPT ![u] = e]
    /\ userArtists' = userArtists \cup {<<u, invitations[i].artist>>}
    /\ invitations' = [invitations EXCEPT ![i].accepted = TRUE]
    /\ everUsed' = [everUsed EXCEPT !.users = @ \cup {u}]
    /\ redemptions' = redemptions \cup {<<c, u>>}
    /\ UNCHANGED <<artists, revocations, issued, clock>>

-----------------------------------------------------------------------------
(* Users *)

DeleteUser(u) ==
    /\ users[u] # NoRow
    /\ revocations' = revocations \cup {u}
    /\ userArtists' = {m \in userArtists : m[1] # u}
    /\ invitations' = [i \in InvitationIDs |->
           IF invitations[i] # NoRow /\ invitations[i].email = users[u]
           THEN NoRow ELSE invitations[i]]
    /\ users' = [users EXCEPT ![u] = NoRow]
    /\ UNCHANGED <<artists, everUsed, issued, redemptions, clock>>

Tick ==
    /\ clock < MaxTime
    /\ clock' = clock + 1
    /\ UNCHANGED <<tables, issued, redemptions>>

-----------------------------------------------------------------------------
(* The platform administrator's operations: each is one repository call. *)

PlatformAdminNext ==
    \/ \E a \in ArtistIDs, slug \in Slugs : CreateArtist(a, slug)
    \/ \E a \in ArtistIDs : DeleteArtist(a)
    \/ \E i \in InvitationIDs, e \in Emails, c \in Codes, a \in ArtistIDs :
           CreateUserInvitation(i, e, c, a)
    \/ \E i \in InvitationIDs, c \in Codes, a \in ArtistIDs :
           ReissueUserInvitation(i, c, a)
    \/ \E i \in InvitationIDs : RevokeInvitation(i)
    \/ \E u \in UserIDs : DeleteUser(u)

\* The store on its own: a registration calls RedeemInvitation with the row
\* that a lookup of its code returns at that very moment.
StoreNext ==
    \/ PlatformAdminNext
    \/ \E c \in Codes, u \in UserIDs : \E i \in InvitationsWithCode(c) :
           RedeemInvitation(i, c, invitations[i].email, u)
    \/ Tick

StoreSpec == StoreInit /\ [][StoreNext]_storeVars

\* Time passes; nobody is obliged to do anything else.
FairStoreSpec == StoreSpec /\ WF_storeVars(Tick)

-----------------------------------------------------------------------------
(* Properties *)

\* Every table holds rows of its schema (migrate.go), and ids and codes in
\* use are recorded as used.
StoreTypeOK ==
    /\ artists \in [ArtistIDs -> Slugs \cup {NoRow}]
    /\ users \in [UserIDs -> Emails \cup {NoRow}]
    /\ userArtists \subseteq UserIDs \X ArtistIDs
    /\ invitations \in [InvitationIDs -> Invitation \cup {NoRow}]
    /\ revocations \subseteq UserIDs
    /\ everUsed \in [artists : SUBSET ArtistIDs, users : SUBSET UserIDs,
                     invitations : SUBSET InvitationIDs]
    /\ issued \in [Codes -> Grant \cup {NoRow}]
    /\ redemptions \subseteq Codes \X UserIDs
    /\ clock \in Nat

\* No transaction ever leaves a membership or an invitation that points at a
\* row that is gone, so the foreign keys of the schema (and PRAGMA
\* foreign_keys=ON) never make DeleteUser or DeleteArtist fail half-way.
ForeignKeysHold ==
    /\ \A m \in userArtists : users[m[1]] # NoRow /\ artists[m[2]] # NoRow
    /\ \A i \in Rows(invitations) : artists[invitations[i].artist] # NoRow

\* The UNIQUE constraints are never what stops a registration: an e-mail has
\* an invitation that was accepted exactly when it has an account, so the
\* INSERT INTO users of a redemption cannot collide.  CreateUserInvitation
\* (no account, no invitation), RedeemInvitation (both in one transaction)
\* and DeleteUser (deletes by e-mail) keep this together.
AcceptedIffAccount ==
    \A i \in Rows(invitations) :
        invitations[i].accepted <=>
            \E u \in Rows(users) : users[u] = invitations[i].email

\* An account that exists administers the one artist its code was issued
\* for, whatever happens to other accounts, artists and invitations: no
\* method but DeleteUser takes a membership away, and DeleteArtist refuses
\* an artist that has administrators (store.go: ErrArtistHasAdmins).
AccountKeepsItsArtist ==
    \A r \in redemptions : users[r[2]] # NoRow =>
        /\ users[r[2]] = issued[r[1]].email
        /\ {m \in userArtists : m[1] = r[2]} = {<<r[2], issued[r[1]].artist>>}

\* A code opens at most one account in the whole history of the database,
\* even after that account and its invitation row have been deleted.
OneAccountPerCode ==
    \A r1, r2 \in redemptions : r1[1] = r2[1] \/ r1[2] = r2[2] => r1 = r2

\* Tokens are revoked by user id, for ever (sqlite_user.go:109).  That is
\* enough exactly because the revoked ids are those of the deleted accounts:
\* a deleted one is never missing and a live one is never locked out.
RevokedExactlyDeleted == revocations = everUsed.users \ Rows(users)

\* What a step may never take back.
NothingIsTakenBack ==
    /\ everUsed.users \subseteq everUsed'.users
    /\ \A u \in everUsed.users : users'[u] \in {users[u], NoRow}
    /\ \A m \in userArtists : m \in userArtists' \/ m[1] \in revocations'
    /\ revocations \subseteq revocations'
    /\ \A c \in Codes : issued[c] # NoRow => issued'[c] = issued[c]
    /\ redemptions \subseteq redemptions'

\* An id names one account for ever: it never passes to another e-mail, not
\* even after the account is deleted (tokens name accounts by id), and a
\* membership ends only together with its account.
IdsAreForEver == [][NothingIsTakenBack]_storeVars

\* A registration with this code would get past its lookup now.
Works(c) == \E i \in InvitationsWithCode(c) :
                InvitationStatus(invitations[i]) = "active"

\* The state of each code that the tables and the history stand for.
CodeFate(c) ==
    IF issued[c] = NoRow THEN "unissued"
    ELSE IF \E r \in redemptions : r[1] = c THEN "used"
    ELSE IF Works(c) THEN "open"
    ELSE "closed"

Promise == INSTANCE InvitationCodes WITH
    fate <- [c \in Codes |-> CodeFate(c)],
    holders <- redemptions

\* The tables implement the promise of InvitationCodes: revoking, expiring,
\* reissuing or deleting an invitation closes its code for ever, and a code
\* is used at most once and only while it is open.
CodesSpec == Promise!CodesSpec

\* An open code stops working even if nobody does anything: it is used,
\* revoked or deleted, or the clock reaches its expiry.
OpenCodesClose ==
    \A c \in Codes : CodeFate(c) = "open" ~> CodeFate(c) \in {"used", "closed"}

-----------------------------------------------------------------------------
(* The inductive invariant: what the properties above rest on. *)

\* A row's id has been handed out, so AUTOINCREMENT will not repeat it.
IdsOfRowsAreUsed ==
    /\ Rows(artists) \subseteq everUsed.artists
    /\ Rows(users) \subseteq everUsed.users
    /\ Rows(invitations) \subseteq everUsed.invitations

\* The UNIQUE columns.
UniqueColumns ==
    /\ \A u, v \in Rows(users) : users[u] = users[v] => u = v
    /\ \A i, j \in Rows(invitations) :
          invitations[i].email = invitations[j].email => i = j

\* A row still says what its code was issued for.
RowsMatchGrants ==
    \A i \in Rows(invitations) :
        LET inv == invitations[i] IN
        issued[inv.code] = [email |-> inv.email, artist |-> inv.artist,
                            expires |-> inv.expires]

\* A code that has opened an account was issued, its account had a fresh
\* id, and a row that still carries the code is accepted.
RedemptionsAreFinal ==
    \A r \in redemptions :
        /\ issued[r[1]] # NoRow
        /\ r[2] \in everUsed.users
        /\ \A i \in InvitationsWithCode(r[1]) : invitations[i].accepted

StoreInv ==
    /\ StoreTypeOK
    /\ IdsOfRowsAreUsed
    /\ UniqueColumns
    /\ ForeignKeysHold
    /\ AcceptedIffAccount
    /\ RevokedExactlyDeleted
    /\ RowsMatchGrants
    /\ RedemptionsAreFinal
    /\ OneAccountPerCode
    /\ AccountKeepsItsArtist

=============================================================================
