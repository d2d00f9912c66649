----------------------------- MODULE PgAccounts -----------------------------
(***************************************************************************)
(* The PostgreSQL repository (src/internal/store/postgres.go) over the     *)
(* tables of AccountStore, statement by statement: replicas and pooled     *)
(* connections run several transactions at once, in READ COMMITTED.        *)
(*                                                                         *)
(* A statement reads the committed tables as they are when it runs; what a *)
(* transaction has written is kept in its record until COMMIT.  A          *)
(* statement that must wait for a row or a unique key of another           *)
(* transaction is not enabled until that one has ended, and then sees what *)
(* it left.  (A DELETE that waits does not see rows added meanwhile; the   *)
(* same rows may be added right after it here.)  The last statement of a   *)
(* transaction that may wait is one step with what follows it and COMMIT:  *)
(* from there on nothing can stop it but an abort, and until COMMIT        *)
(* nobody sees what it has written.  DELETE FROM artists is two steps: it  *)
(* takes the row, and its referential check may then wait once more.       *)
(*                                                                         *)
(* Songs are left out, see SongArtwork: one that is added before DELETE    *)
(* FROM songs goes with its artist, one that is added after it makes       *)
(* DELETE FROM artists fail on the foreign key.                            *)
(*                                                                         *)
(* Any error, a lost connection or a detected deadlock rolls back: Abort   *)
(* is possible at each moment, so the statements state when they succeed.  *)
(***************************************************************************)
EXTENDS AccountStore

CONSTANT Transactions       \* connections (postgresMaxOpenConns is 10)

VARIABLE tx                 \* the open transaction of each connection

pgVars == <<storeVars, tx>>

Ops == {"idle", "delete artist", "invite", "reissue", "redeem", "delete user"}
Stages == {"begin", "count", "read", "lock", "revocation", "invitations",
           "members", "artist", "check", "user", "insert", "update"}

\* artist .. code are the arguments and what the transaction has read, admins
\* whether it has counted any; invs and members are the rows it has locked,
\* with or without deleting them.
Transaction ==
    [op : Ops, at : Stages, artist : ArtistIDs \cup {NoRow},
     inv : InvitationIDs \cup {NoRow}, user : UserIDs \cup {NoRow},
     email : Emails \cup {NoRow}, code : Codes \cup {NoRow},
     invs : SUBSET InvitationIDs, members : SUBSET (UserIDs \X ArtistIDs),
     admins : BOOLEAN]

Idle == [op |-> "idle", at |-> "begin", artist |-> NoRow, inv |-> NoRow,
         user |-> NoRow, email |-> NoRow, code |-> NoRow,
         invs |-> {}, members |-> {}, admins |-> FALSE]

PgInit == StoreInit /\ tx = [t \in Transactions |-> Idle]

Others(t) == Transactions \ {t}
At(t, op, stage) == tx[t].op = op /\ tx[t].at = stage

\* t has run a statement that leaves its transaction as `new`.
Runs(t, new) == tx' = [tx EXCEPT ![t] = new]
Ends(t) == Runs(t, Idle)

\* The transaction tx[t] with a row locked.
WithInvitation(t, i) == [tx[t] EXCEPT !.invs = {i}]

FreeInvitations(t, rows) == \A o \in Others(t) : rows \cap tx[o].invs = {}
FreeMembers(t, rows) == \A o \in Others(t) : rows \cap tx[o].members = {}

\* o has deleted the row of a and not committed yet.
HoldsArtist(o, a) == At(o, "delete artist", "check") /\ tx[o].artist = a

\* A row that references a can be written, or the row of a be deleted.
FreeArtist(t, a) == \A o \in Others(t) : ~HoldsArtist(o, a)

\* newInvitationCode: not drawn before, and not by an open transaction.
NewCode(c) == FreshCode(c) /\ \A t \in Transactions : tx[t].code # c

-----------------------------------------------------------------------------
(* DeleteArtist: DELETEs after a count that locks nothing *)

BeginDeleteArtist(t, a) ==
    /\ tx[t] = Idle
    /\ artists[a] # NoRow
    /\ Runs(t, [Idle EXCEPT !.op = "delete artist", !.at = "count",
                            !.artist = a])
    /\ UNCHANGED storeVars

\* Variant: the count is not looked at.
CountAdmins_Ignored(t) ==
    /\ At(t, "delete artist", "count")
    /\ Runs(t, [tx[t] EXCEPT !.at = "invitations",
                             !.admins = ArtistHasAdmins(tx[t].artist)])
    /\ UNCHANGED storeVars

CountAdmins(t) ==
    /\ At(t, "delete artist", "count")
    /\ ~ArtistHasAdmins(tx[t].artist)
    /\ Runs(t, [tx[t] EXCEPT !.at = "invitations"])
    /\ UNCHANGED storeVars

ArtistInvitations(a) == {i \in Rows(invitations) : invitations[i].artist = a}
ArtistMembers(a) == {m \in userArtists : m[2] = a}

DeleteArtistInvitations(t) ==
    LET rows == ArtistInvitations(tx[t].artist) IN
    /\ At(t, "delete artist", "invitations")
    /\ FreeInvitations(t, rows)
    /\ Runs(t, [tx[t] EXCEPT !.at = "members", !.invs = rows])
    /\ UNCHANGED storeVars

\* Variant: the DELETE is not part of the transaction.
DeleteArtistMembers_OnItsOwn(t) ==
    /\ At(t, "delete artist", "members")
    /\ userArtists' = {m \in userArtists : m[2] # tx[t].artist}
    /\ Runs(t, [tx[t] EXCEPT !.at = "artist"])
    /\ UNCHANGED <<artists, users, invitations, revocations, everUsed,
                   issued, redemptions, clock>>

DeleteArtistMembers(t) ==
    LET rows == ArtistMembers(tx[t].artist) IN
    /\ At(t, "delete artist", "members")
    /\ FreeMembers(t, rows)
    /\ Runs(t, [tx[t] EXCEPT !.at = "artist", !.members = rows])
    /\ UNCHANGED storeVars

\* Variant: without the foreign keys nothing stops the DELETE.
Unreferenced_NoForeignKeys(t, a) == TRUE

\* No row references the artist but those that t has deleted.
Unreferenced(t, a) ==
    /\ \A i \in Rows(invitations) \ tx[t].invs : invitations[i].artist # a
    /\ \A m \in userArtists \ tx[t].members : m[2] # a

\* DELETE FROM artists takes the row,
LockArtistRow(t) ==
    /\ At(t, "delete artist", "artist")
    /\ FreeArtist(t, tx[t].artist)
    /\ Runs(t, [tx[t] EXCEPT !.at = "check"])
    /\ UNCHANGED storeVars

\* and fails if a row still references it.  The check waits for one that
\* another transaction has locked or deleted.  COMMIT.
DeleteArtistRow(t) ==
    /\ At(t, "delete artist", "check")
    /\ Unreferenced(t, tx[t].artist)
    /\ invitations' = [i \in InvitationIDs |->
           IF i \in tx[t].invs THEN NoRow ELSE invitations[i]]
    /\ userArtists' = userArtists \ tx[t].members
    /\ artists' = [artists EXCEPT ![tx[t].artist] = NoRow]
    /\ Ends(t)
    /\ UNCHANGED <<users, revocations, everUsed, issued, redemptions, clock>>

-----------------------------------------------------------------------------
(* CreateUserInvitation *)

BeginInvite(t, e, c, a) ==
    /\ tx[t] = Idle
    /\ NewCode(c)
    /\ \A u \in Rows(users) : users[u] # e
    /\ Runs(t, [Idle EXCEPT !.op = "invite", !.at = "read", !.artist = a,
                            !.email = e, !.code = c])
    /\ UNCHANGED storeVars

NotInvited(e) == \A i \in Rows(invitations) : invitations[i].email # e

ReadForInvite(t) ==
    /\ At(t, "invite", "read")
    /\ NotInvited(tx[t].email)
    /\ artists[tx[t].artist] # NoRow
    /\ Runs(t, [tx[t] EXCEPT !.at = "insert"])
    /\ UNCHANGED storeVars

\* An invite and a reissue write the whole row, which references the artist,
\* and COMMIT.
CommitInvitation(t, i, e) ==
    /\ LifeFitsClock
    /\ artists[tx[t].artist] # NoRow
    /\ invitations' = [invitations EXCEPT
           ![i] = NewInvitation(e, tx[t].artist, tx[t].code)]
    /\ issued' = [issued EXCEPT ![tx[t].code] = NewGrant(e, tx[t].artist)]
    /\ Ends(t)
    /\ UNCHANGED <<artists, users, userArtists, revocations, redemptions,
                   clock>>

InsertInvitation(t, i) ==
    /\ At(t, "invite", "insert")
    /\ i \in NewInvitationID
    /\ NotInvited(tx[t].email)
    /\ FreeArtist(t, tx[t].artist)
    /\ CommitInvitation(t, i, tx[t].email)
    /\ everUsed' = [everUsed EXCEPT !.invitations = @ \cup {i}]

-----------------------------------------------------------------------------
(* ReissueUserInvitation *)

BeginReissue(t, i, c, a) ==
    /\ tx[t] = Idle
    /\ NewCode(c)
    /\ artists[a] # NoRow
    /\ Runs(t, [Idle EXCEPT !.op = "reissue", !.at = "lock", !.artist = a,
                            !.inv = i, !.code = c])
    /\ UNCHANGED storeVars

\* SELECT ... FOR UPDATE, and invitationReissueStatus
LockForReissue(t) ==
    LET i == tx[t].inv IN
    /\ At(t, "reissue", "lock")
    /\ FreeInvitations(t, {i})
    /\ invitations[i] # NoRow
    /\ Reissuable(invitations[i])
    /\ Runs(t, [WithInvitation(t, i) EXCEPT !.at = "update"])
    /\ UNCHANGED storeVars

\* A reference that the UPDATE leaves as it is locks no artist.
UpdateReissued(t) ==
    LET i == tx[t].inv IN
    /\ At(t, "reissue", "update")
    /\ ~invitations[i].accepted
    /\ invitations[i].artist = tx[t].artist \/ FreeArtist(t, tx[t].artist)
    /\ CommitInvitation(t, i, invitations[i].email)
    /\ UNCHANGED everUsed

-----------------------------------------------------------------------------
(* RedeemInvitation, after the FindInvitationByCodeHash of the handler *)

BeginRedeem(t, c) ==
    /\ tx[t] = Idle
    /\ \E i \in InvitationsWithCode(c) :
           /\ InvitationStatus(invitations[i]) = "active"
           /\ Runs(t, [Idle EXCEPT !.op = "redeem", !.at = "lock", !.inv = i,
                                   !.email = invitations[i].email, !.code = c])
    /\ UNCHANGED storeVars

\* Variant: the SELECT is not FOR UPDATE.
LockForRedeem_PlainSelect(t) ==
    LET i == tx[t].inv IN
    /\ At(t, "redeem", "lock")
    /\ invitations[i] # NoRow
    /\ invitations[i].code = tx[t].code
    /\ InvitationStatus(invitations[i]) = "active"
    /\ Runs(t, [tx[t] EXCEPT !.artist = invitations[i].artist, !.at = "user"])
    /\ UNCHANGED storeVars

\* SELECT ... WHERE id AND hash FOR UPDATE, and postgresInvitationStatus
LockForRedeem(t) ==
    LET i == tx[t].inv IN
    /\ At(t, "redeem", "lock")
    /\ FreeInvitations(t, {i})
    /\ invitations[i] # NoRow
    /\ invitations[i].code = tx[t].code
    /\ InvitationStatus(invitations[i]) = "active"
    /\ Runs(t, [WithInvitation(t, i) EXCEPT
                    !.artist = invitations[i].artist, !.at = "user"])
    /\ UNCHANGED storeVars

\* o has inserted the row of a user with this e-mail.
HoldsEmail(o, e) == At(o, "redeem", "update") /\ tx[o].email = e

\* An id that a transaction has drawn is used up even if it rolls back.
InsertUser(t, u) ==
    /\ At(t, "redeem", "user")
    /\ u \in NewUserID
    /\ \A v \in Rows(users) : users[v] # tx[t].email
    /\ \A o \in Others(t) : ~HoldsEmail(o, tx[t].email)
    /\ everUsed' = [everUsed EXCEPT !.users = @ \cup {u}]
    /\ Runs(t, [tx[t] EXCEPT !.at = "update", !.user = u])
    /\ UNCHANGED <<artists, users, userArtists, invitations, revocations,
                   issued, redemptions, clock>>

\* INSERT INTO user_artists, which references the artist; UPDATE ... SET
\* accepted_at WHERE id AND hash AND accepted_at IS NULL, which must find one
\* row; COMMIT.
AcceptInvitation(t) ==
    LET i == tx[t].inv
        u == tx[t].user IN
    /\ At(t, "redeem", "update")
    /\ artists[tx[t].artist] # NoRow
    /\ FreeArtist(t, tx[t].artist)
    /\ FreeInvitations(t, {i})
    /\ invitations[i] # NoRow
    /\ invitations[i].code = tx[t].code
    /\ ~invitations[i].accepted
    /\ users' = [users EXCEPT ![u] = tx[t].email]
    /\ userArtists' = userArtists \cup {<<u, tx[t].artist>>}
    /\ invitations' = [invitations EXCEPT ![i].accepted = TRUE]
    /\ redemptions' = redemptions \cup {<<tx[t].code, u>>}
    /\ Ends(t)
    /\ UNCHANGED <<artists, revocations, everUsed, issued, clock>>

-----------------------------------------------------------------------------
(* RevokeInvitation *)

PgRevokeInvitation(t, i) ==
    /\ tx[t] = Idle
    /\ FreeInvitations(t, {i})
    /\ RevokeInvitation(i)
    /\ UNCHANGED tx

-----------------------------------------------------------------------------
(* DeleteUser *)

BeginDeleteUser(t, u) ==
    /\ tx[t] = Idle
    /\ users[u] # NoRow
    /\ Runs(t, [Idle EXCEPT !.op = "delete user", !.at = "revocation",
                            !.user = u, !.email = users[u]])
    /\ UNCHANGED storeVars

\* Variant: the revocation is not part of the transaction.
InsertRevocation_OnItsOwn(t) ==
    /\ At(t, "delete user", "revocation")
    /\ revocations' = revocations \cup {tx[t].user}
    /\ Runs(t, [tx[t] EXCEPT !.at = "members"])
    /\ UNCHANGED <<artists, users, userArtists, invitations, everUsed,
                   issued, redemptions, clock>>

\* o has written the revocation of u.
HoldsRevocation(o, u) ==
    /\ tx[o].op = "delete user"
    /\ tx[o].at # "revocation"
    /\ tx[o].user = u

\* INSERT ... ON CONFLICT DO UPDATE waits for another deletion of u.
InsertRevocation(t) ==
    /\ At(t, "delete user", "revocation")
    /\ \A o \in Others(t) : ~HoldsRevocation(o, tx[t].user)
    /\ Runs(t, [tx[t] EXCEPT !.at = "members"])
    /\ UNCHANGED storeVars

UserMembers(u) == {m \in userArtists : m[1] = u}

DeleteUserMembers(t) ==
    LET rows == UserMembers(tx[t].user) IN
    /\ At(t, "delete user", "members")
    /\ FreeMembers(t, rows)
    /\ Runs(t, [tx[t] EXCEPT !.at = "invitations", !.members = rows])
    /\ UNCHANGED storeVars

\* Variant: the accepted invitation is left behind.
UserInvitations_Kept(e) == {}

UserInvitations(e) == {i \in Rows(invitations) : invitations[i].email = e}

\* The DELETEs of the invitations and of the user, which no membership may
\* reference any more, and COMMIT.
DeleteUserRows(t) ==
    LET u == tx[t].user
        rows == UserInvitations(tx[t].email) IN
    /\ At(t, "delete user", "invitations")
    /\ FreeInvitations(t, rows)
    /\ \A m \in userArtists \ tx[t].members : m[1] # u
    /\ revocations' = revocations \cup {u}
    /\ userArtists' = userArtists \ tx[t].members
    /\ invitations' = [i \in InvitationIDs |->
           IF i \in rows THEN NoRow ELSE invitations[i]]
    /\ users' = [users EXCEPT ![u] = NoRow]
    /\ Ends(t)
    /\ UNCHANGED <<artists, everUsed, issued, redemptions, clock>>

-----------------------------------------------------------------------------
\* An error return, a lost connection, a deadlock PostgreSQL has broken: the
\* deferred Rollback.
Abort(t) ==
    /\ tx[t] # Idle
    /\ Ends(t)
    /\ UNCHANGED storeVars

\* CreateArtist is one INSERT, a transaction of its own.
PgCreateArtist(a, slug) == CreateArtist(a, slug) /\ UNCHANGED tx

PgTick == Tick /\ UNCHANGED tx

DeleteArtistStep(t) ==
    \/ \E a \in ArtistIDs : BeginDeleteArtist(t, a)
    \/ CountAdmins(t)
    \/ DeleteArtistInvitations(t)
    \/ DeleteArtistMembers(t)
    \/ LockArtistRow(t)
    \/ DeleteArtistRow(t)

InvitationStep(t) ==
    \/ \E e \in Emails, c \in Codes, a \in ArtistIDs : BeginInvite(t, e, c, a)
    \/ ReadForInvite(t)
    \/ \E i \in InvitationIDs : InsertInvitation(t, i)
    \/ \E i \in InvitationIDs, c \in Codes, a \in ArtistIDs :
           BeginReissue(t, i, c, a)
    \/ LockForReissue(t)
    \/ UpdateReissued(t)
    \/ \E i \in InvitationIDs : PgRevokeInvitation(t, i)

UserStep(t) ==
    \/ \E c \in Codes : BeginRedeem(t, c)
    \/ LockForRedeem(t)
    \/ \E u \in UserIDs : InsertUser(t, u)
    \/ AcceptInvitation(t)
    \/ \E u \in UserIDs : BeginDeleteUser(t, u)
    \/ InsertRevocation(t)
    \/ DeleteUserMembers(t)
    \/ DeleteUserRows(t)

PgNext ==
    \/ \E t \in Transactions :
           DeleteArtistStep(t) \/ InvitationStep(t) \/ UserStep(t) \/ Abort(t)
    \/ \E a \in ArtistIDs, slug \in Slugs : PgCreateArtist(a, slug)
    \/ PgTick

PgSpec == PgInit /\ [][PgNext]_pgVars

-----------------------------------------------------------------------------
(* Properties.  OneAccountPerCode and ForeignKeysHold of AccountStore are   *)
(* checked here too, of the committed tables.                               *)

PgTypeOK == StoreTypeOK /\ tx \in [Transactions -> Transaction]

\* An accepted invitation has its account, although DeleteUser removes the
\* two in different statements while other transactions run.
AcceptedHasAccount ==
    \A i \in Rows(invitations) : invitations[i].accepted =>
        \E u \in Rows(users) : users[u] = invitations[i].email

\* An account loses the artist its code was issued for only with the artist:
\* no interleaving of statements leaves it a member of another artist, or of
\* none while its artist exists.
AccountKeepsArtistThatExists ==
    \A r \in redemptions :
        LET own == issued[r[1]].artist
            member == {m \in userArtists : m[1] = r[2]} IN
        users[r[2]] # NoRow =>
            member = {<<r[2], own>>} \/ (member = {} /\ artists[own] = NoRow)

\* Tokens of an account are refused from the commit of its deletion on, and
\* of no account that still exists.
DeletedAccountsAreRevoked ==
    \A r \in redemptions : users[r[2]] = NoRow <=> r[2] \in revocations

\* A registration that commits finds the offer it was made of still standing:
\* no revocation or reissue commits between its check and its commit
\* (SELECT ... FOR UPDATE).  Its expiry is as of the check.
RedeemedWhileOffered ==
    [][\A r \in redemptions' \ redemptions : \E i \in Rows(invitations) :
           /\ invitations[i].code = r[1]
           /\ ~invitations[i].revoked
           /\ ~invitations[i].accepted
           /\ invitations'[i] # NoRow /\ invitations'[i].accepted]_pgVars

\* The rows that the next statement of t has to lock: those it deletes or
\* selects FOR UPDATE, and at the end of DELETE FROM artists those that still
\* reference the artist.
WantedInvitations(t) ==
    {i \in InvitationIDs :
        \/ /\ At(t, "delete artist", "invitations")
           /\ i \in ArtistInvitations(tx[t].artist)
        \/ /\ At(t, "delete artist", "check")
           /\ i \in ArtistInvitations(tx[t].artist) \ tx[t].invs
        \/ /\ At(t, "delete user", "invitations")
           /\ i \in UserInvitations(tx[t].email)
        \/ /\ At(t, "reissue", "lock") \/ At(t, "redeem", "lock")
           /\ i = tx[t].inv}

WantedMembers(t) ==
    {m \in userArtists :
        \/ At(t, "delete artist", "members") /\ m[2] = tx[t].artist
        \/ /\ At(t, "delete artist", "check")
           /\ m[2] = tx[t].artist /\ m \notin tx[t].members
        \/ At(t, "delete user", "members") /\ m[1] = tx[t].user}

\* The next statement of t needs the row of its artist to stay: it deletes
\* the row or writes a reference to it.
WantsArtist(t) ==
    \/ At(t, "delete artist", "artist")
    \/ At(t, "invite", "insert")
    \/ /\ At(t, "reissue", "update")
       /\ invitations[tx[t].inv].artist # tx[t].artist
    \/ At(t, "redeem", "update")

\* A statement of t waits for o: for an invitation, a membership or an artist
\* that o has locked or deleted, or for a unique key it has written.
\*
\* Left out are waits that close no circle.  What is one step with COMMIT
\* waits for nothing once it holds its last lock, so that a wait for it ends:
\* the registration and the invitations that hold their artist, RevokeInvitation,
\* the DELETE FROM users.  And an INSERT of an invitation may wait for a row
\* with its e-mail, but nobody waits for a transaction that invites except
\* another one with that e-mail.
WaitsFor(t, o) ==
    /\ o # t
    /\ \/ WantedInvitations(t) \cap tx[o].invs # {}
       \/ WantedMembers(t) \cap tx[o].members # {}
       \/ WantsArtist(t) /\ HoldsArtist(o, tx[t].artist)
       \/ At(t, "redeem", "user") /\ HoldsEmail(o, tx[t].email)
       \/ /\ At(t, "delete user", "revocation")
          /\ HoldsRevocation(o, tx[t].user)

\* t deletes an artist and meets a row that was added too late: a registration
\* since the count, or an invitation or a membership since its own DELETEs.
LateReference(t) ==
    \/ /\ At(t, "delete artist", "members")
       /\ ~tx[t].admins
       /\ ArtistHasAdmins(tx[t].artist)
    \/ /\ At(t, "delete artist", "check")
       /\ ~Unreferenced(t, tx[t].artist)

\* Transactions over the invitations, memberships and accounts wait for each
\* other in a circle (which PostgreSQL breaks by Abort) only if one of them
\* deletes an artist that was given a registration or an invitation meanwhile.
\* The order in which the repository methods take their locks leaves no other
\* deadlock.  (A DELETE takes its rows at once here: two deletions that meet
\* the rows of one artist in different orders are not distinguished.)
DeadlocksNeedLateReference ==
    \A ring \in (SUBSET Transactions) \ {{}} :
        (\A t \in ring : \E o \in ring : WaitsFor(t, o)) =>
            \E t \in ring : LateReference(t)

-----------------------------------------------------------------------------
(* What the transactions make of the methods of AccountStore. *)

\* The accounts that were ever committed.
Known == {r[2] : r \in redemptions}

\* The methods, over the committed tables: an id that a transaction has
\* drawn counts as used only if its account was committed.
Methods == INSTANCE AccountStore WITH
    everUsed <- [everUsed EXCEPT !.users = Known]

\* A registration whose invitation has expired since its check.
LateRedemption(i, u) ==
    LET inv == invitations[i] IN
    /\ InvitationStatus(inv) = "expired"
    /\ \A v \in Rows(users) : users[v] # inv.email
    /\ u \notin Known
    /\ users' = [users EXCEPT ![u] = inv.email]
    /\ userArtists' = userArtists \cup {<<u, inv.artist>>}
    /\ invitations' = [invitations EXCEPT ![i].accepted = TRUE]
    /\ redemptions' = redemptions \cup {<<inv.code, u>>}
    /\ UNCHANGED <<artists, revocations, issued, clock>>

\* The deletion of an artist who has got an administrator since the count.
LateDeletion(a) ==
    /\ artists[a] # NoRow
    /\ ArtistHasAdmins(a)
    /\ artists' = [artists EXCEPT ![a] = NoRow]
    /\ userArtists' = userArtists \ ArtistMembers(a)
    /\ invitations' = [i \in InvitationIDs |->
           IF i \in ArtistInvitations(a) THEN NoRow ELSE invitations[i]]
    /\ UNCHANGED <<users, revocations, everUsed, issued, redemptions, clock>>

\* An invitation for an e-mail that has got an account since the check and
\* has lost its invitation to one of the other overlaps.
LateInvitation(i, e, c, a) ==
    /\ \E u \in Rows(users) : users[u] = e
    /\ NotInvited(e)
    /\ i \in NewInvitationID
    /\ FreshCode(c)
    /\ artists[a] # NoRow
    /\ invitations' = [invitations EXCEPT ![i] = NewInvitation(e, a, c)]
    /\ issued' = [issued EXCEPT ![c] = NewGrant(e, a)]
    /\ everUsed' = [everUsed EXCEPT !.invitations = @ \cup {i}]
    /\ UNCHANGED <<artists, users, userArtists, revocations, redemptions,
                   clock>>

\* A second deletion of one account: its e-mail loses its invitations again.
RepeatedDeletion(e) ==
    /\ invitations' = [i \in InvitationIDs |->
           IF i \in UserInvitations(e) THEN NoRow ELSE invitations[i]]
    /\ UNCHANGED <<artists, users, userArtists, revocations, everUsed,
                   issued, redemptions, clock>>

Overlap ==
    \/ \E i \in Rows(invitations), u \in UserIDs : LateRedemption(i, u)
    \/ \E a \in ArtistIDs : LateDeletion(a)
    \/ \E i \in InvitationIDs, e \in Emails, c \in Codes, a \in ArtistIDs :
           LateInvitation(i, e, c, a)
    \/ \E u \in revocations, t \in Transactions :
           /\ HoldsRevocation(t, u)
           /\ RepeatedDeletion(tx[t].email)

\* READ COMMITTED transactions that run at once do to the committed tables
\* what the methods of AccountStore do one after the other, but for the four
\* overlaps above: each check that no lock protects is named there, and no
\* other one can be out of date when its transaction commits.
OverlapsAreNamed == [][Methods!StoreNext \/ Overlap]_(Methods!storeVars)

\* store.go:19: an artist that still has administrators is not deleted.
DeletedArtistHadNoAdmins ==
    [][\A a \in ArtistIDs : artists[a] # NoRow /\ artists'[a] = NoRow =>
           ~ArtistHasAdmins(a)]_pgVars

-----------------------------------------------------------------------------
(* The inductive invariant: what the properties above rest on. *)

\* Only committed accounts have rows, memberships and revocations, and codes
\* were issued for artists whose ids will not come back.
OnlyKnownAccounts ==
    /\ Rows(users) \subseteq Known
    /\ revocations \subseteq Known
    /\ \A c \in Codes :
           issued[c] # NoRow => issued[c].artist \in everUsed.artists

\* What a transaction has read and locked is still so at its next statement.

DeleteArtistJob(s) ==
    /\ s.at \in {"count", "invitations", "members", "artist", "check"}
    /\ s.artist \in ArtistIDs
    /\ ~s.admins
    /\ s.at \in {"count", "invitations"} => s.invs = {}
    /\ s.at \notin {"artist", "check"} => s.members = {}
    /\ \A i \in s.invs : invitations[i].artist = s.artist
    /\ \A m \in s.members : m[2] = s.artist

InviteJob(s) ==
    /\ s.at \in {"read", "insert"}
    /\ s.artist \in ArtistIDs
    /\ s.email \in Emails
    /\ s.code \in Codes /\ s.code # NoRow
    /\ FreshCode(s.code)
    /\ s.invs = {} /\ s.members = {}

ReissueJob(s) ==
    /\ s.at \in {"lock", "update"}
    /\ s.artist \in ArtistIDs
    /\ s.inv \in InvitationIDs
    /\ s.code \in Codes /\ s.code # NoRow
    /\ FreshCode(s.code)
    /\ s.invs = IF s.at = "lock" THEN {} ELSE {s.inv}
    /\ s.members = {}
    /\ s.at = "update" => Reissuable(invitations[s.inv])

RedeemJob(s) ==
    /\ s.at \in {"lock", "user", "update"}
    /\ s.inv \in InvitationIDs
    /\ s.code \in Codes
    /\ issued[s.code] # NoRow
    /\ s.email = issued[s.code].email
    /\ s.invs = IF s.at = "lock" THEN {} ELSE {s.inv}
    /\ s.members = {}
    /\ s.at # "lock" =>
           /\ s.artist = issued[s.code].artist
           /\ invitations[s.inv].code = s.code
           /\ ~invitations[s.inv].accepted
           /\ ~invitations[s.inv].revoked
    /\ s.at = "update" =>
           /\ s.user \in everUsed.users \ Known
           /\ \A v \in Rows(users) : users[v] # s.email

DeleteUserJob(s) ==
    /\ s.at \in {"revocation", "members", "invitations"}
    /\ s.user \in Known
    /\ s.email \in Emails
    /\ users[s.user] \in {s.email, NoRow}
    /\ s.invs = {}
    /\ s.at # "invitations" => s.members = {}
    /\ \A m \in s.members : m[1] = s.user

Job(s) ==
    /\ s.op = "idle" => s = Idle
    /\ s.op = "delete artist" => DeleteArtistJob(s)
    /\ s.op = "invite" => InviteJob(s)
    /\ s.op = "reissue" => ReissueJob(s)
    /\ s.op = "redeem" => RedeemJob(s)
    /\ s.op = "delete user" => DeleteUserJob(s)

\* A locked row stands and is locked by one transaction only, a drawn code
\* is nobody else's, and two registrations that have inserted their users
\* have different ids and e-mails.
LocksExclude ==
    \A t \in Transactions :
        /\ \A i \in tx[t].invs : invitations[i] # NoRow
        /\ FreeInvitations(t, tx[t].invs)
        /\ tx[t].op \in {"invite", "reissue"} =>
               \A o \in Others(t) : tx[o].code # tx[t].code
        /\ At(t, "redeem", "update") =>
               \A o \in Others(t) : At(o, "redeem", "update") =>
                   tx[o].user # tx[t].user /\ tx[o].email # tx[t].email

PgInv ==
    /\ PgTypeOK
    /\ IdsOfRowsAreUsed
    /\ UniqueColumns
    /\ ForeignKeysHold
    /\ RowsMatchGrants
    /\ RedemptionsAreFinal
    /\ OneAccountPerCode
    /\ OnlyKnownAccounts
    /\ AcceptedHasAccount
    /\ AccountKeepsArtistThatExists
    /\ DeletedAccountsAreRevoked
    /\ \A t \in Transactions : Job(tx[t])
    /\ LocksExclude

=============================================================================
