-------------------------- MODULE PgAccounts_proofs --------------------------
(***************************************************************************)
(* The statements of the PostgreSQL repository keep the tables whole for   *)
(* any number of connections, ids, codes and e-mails.                      *)
(***************************************************************************)
EXTENDS PgAccounts, AccountStore_proofs

USE NoRowAssumption, LifetimeAssumption, MaxTimeAssumption, NoRowIsNoRecord

-----------------------------------------------------------------------------
(* What holds by itself of the tables, of a transaction, and of both. *)

\* The part of the invariant that speaks of the committed tables only.
TablesInv ==
    /\ StoreTypeOK
    /\ IdsOfRowsAreUsed
    /\ UniqueColumns
    /\ ForeignKeysHold
    /\ RowsMatchGrants
    /\ RedemptionsAreFinal
    /\ OneAccountPerCode
    /\ OnlyKnownAccounts
    /\ AcceptedHasAccount
    /\ AccountKeepsArtistThatExists
    /\ DeletedAccountsAreRevoked

TxType == tx \in [Transactions -> Transaction]

Jobs == \A t \in Transactions : Job(tx[t])

LEMMA PartsOfPgInv == PgInv <=> TablesInv /\ TxType /\ Jobs /\ LocksExclude
  BY DEF PgInv, TablesInv, TxType, Jobs, PgTypeOK

LEMMA IdleIsWell == Idle \in Transaction /\ Job(Idle)
<1>1. Idle \in Transaction
  BY DEF Idle, Transaction, Ops, Stages
<1>2. Idle.op = "idle"
  BY DEF Idle
<1>3. QED
  BY <1>1, <1>2 DEF Job

\* A row and a grant of the right type have fields of the right type.
LEMMA FieldTypes ==
    ASSUME StoreTypeOK
    PROVE  /\ \A i \in Rows(invitations) :
                 /\ i \in InvitationIDs
                 /\ invitations[i] \in Invitation
                 /\ invitations[i].email \in Emails
                 /\ invitations[i].artist \in ArtistIDs
                 /\ invitations[i].code \in Codes
                 /\ invitations[i].expires \in Nat
                 /\ invitations[i].accepted \in BOOLEAN
                 /\ invitations[i].revoked \in BOOLEAN
           /\ \A c \in Codes : issued[c] # NoRow =>
                 /\ issued[c] \in Grant
                 /\ issued[c].email \in Emails
                 /\ issued[c].artist \in ArtistIDs
  BY RowsOfTables DEF StoreTypeOK, Invitation, Grant

\* A row's code was issued, for what the row says.
LEMMA RowsHaveGrants ==
    ASSUME StoreTypeOK, RowsMatchGrants, NEW i \in Rows(invitations)
    PROVE  /\ invitations[i].code \in Codes
           /\ issued[invitations[i].code] # NoRow
           /\ issued[invitations[i].code].email = invitations[i].email
           /\ issued[invitations[i].code].artist = invitations[i].artist
<1>1. /\ invitations[i].code \in Codes
      /\ invitations[i].email \in Emails
      /\ invitations[i].artist \in ArtistIDs
      /\ invitations[i].expires \in Nat
  BY FieldTypes
<1>2. [email |-> invitations[i].email, artist |-> invitations[i].artist,
       expires |-> invitations[i].expires] \in Grant
  BY <1>1 DEF Grant
<1>3. QED
  BY <1>1, <1>2 DEF RowsMatchGrants

\* The type of a transaction's fields.
LEMMA TxFields ==
    ASSUME TxType, NEW t \in Transactions
    PROVE  /\ tx[t] \in Transaction
           /\ tx[t].invs \subseteq InvitationIDs
           /\ tx[t].members \subseteq UserIDs \X ArtistIDs
           /\ tx[t].at \in Stages
           /\ tx[t].op \in Ops
  BY DEF TxType, Transaction

-----------------------------------------------------------------------------
(* A step that leaves the tables alone: one transaction reads or locks. *)

LEMMA SameTables ==
    ASSUME TablesInv, UNCHANGED storeVars
    PROVE  TablesInv'
  BY DEF TablesInv, storeVars, tables, StoreTypeOK, IdsOfRowsAreUsed, Rows,
     UniqueColumns, ForeignKeysHold, RowsMatchGrants, RedemptionsAreFinal,
     InvitationsWithCode, OneAccountPerCode, OnlyKnownAccounts, Known,
     AcceptedHasAccount, AccountKeepsArtistThatExists,
     DeletedAccountsAreRevoked

\* What has expired stays expired.
LEMMA StaysReissuable ==
    ASSUME clock \in Nat, clock' \in Nat, clock <= clock',
           NEW inv \in Invitation, Reissuable(inv)
    PROVE  Reissuable(inv)'
<1>1. inv.expires \in Nat
  BY DEF Invitation
<1>2. inv.expires <= clock => inv.expires <= clock'
  BY <1>1
<1>3. QED
  BY <1>2 DEF Reissuable, InvitationStatus

\* What a transaction has read stays so while the others leave the rows it
\* has locked, its code and, of a registration or a deletion, its account.
LEMMA JobSurvives ==
    ASSUME NEW t \in Transactions, NEW s \in Transaction,
           Job(s), tx'[t] = s,
           StoreTypeOK,
           clock' \in Nat, clock <= clock',
           \A i \in s.invs : invitations'[i] = invitations[i],
           \A i \in s.invs : invitations[i] \in Invitation,
           s.code \in Codes => issued'[s.code] = issued[s.code],
           everUsed.users \subseteq everUsed'.users,
           Known \subseteq Known',
           s.op = "redeem" /\ s.at = "update" =>
               /\ s.user \notin Known'
               /\ \A v \in Rows(users)' : users'[v] # s.email,
           s.op = "delete user" => users'[s.user] \in {users[s.user], NoRow}
    PROVE  Job(tx[t])'
<1> USE DEF Job
<1>1. s \in Transaction
  OBVIOUS
<1>2. CASE s.op = "idle"
  BY <1>2
<1>3. CASE s.op = "delete artist"
  BY <1>3 DEF DeleteArtistJob
<1>4. CASE s.op = "invite"
  BY <1>4 DEF InviteJob, FreshCode
<1>5. CASE s.op = "reissue"
  <2>1. ReissueJob(s)
    BY <1>5
  <2>2. ASSUME s.at = "update" PROVE Reissuable(invitations[s.inv])'
    <3>1. /\ invitations[s.inv] \in Invitation
          /\ invitations'[s.inv] = invitations[s.inv]
          /\ Reissuable(invitations[s.inv])
      BY <2>1, <2>2 DEF ReissueJob
    <3>2. clock \in Nat
      BY DEF StoreTypeOK
    <3>3. QED
      BY <3>1, <3>2, StaysReissuable DEF Reissuable, InvitationStatus
  <2>3. QED
    BY <1>5, <2>1, <2>2 DEF ReissueJob, FreshCode
<1>6. CASE s.op = "redeem"
  <2>1. RedeemJob(s)
    BY <1>6
  <2>2. QED
    BY <1>6, <2>1 DEF RedeemJob
<1>7. CASE s.op = "delete user"
  BY <1>7 DEF DeleteUserJob
<1>8. QED
  BY <1>2, <1>3, <1>4, <1>5, <1>6, <1>7 DEF Transaction, Ops

\* What the others must leave room for when t goes on as `new`.
Apart(t, new) ==
    /\ \A i \in new.invs : invitations[i] # NoRow
    /\ FreeInvitations(t, new.invs)
    /\ \A o \in Others(t) :
           new.op \in {"invite", "reissue"} \/
           tx[o].op \in {"invite", "reissue"} => tx[o].code # new.code

\* A transaction keeps its code apart from the others' by keeping its code.
LEMMA StaysApart ==
    ASSUME LocksExclude, NEW t \in Transactions, NEW new,
           new.op = tx[t].op, new.code = tx[t].code,
           \A i \in new.invs : invitations[i] # NoRow,
           FreeInvitations(t, new.invs)
    PROVE  Apart(t, new)
  BY DEF Apart, LocksExclude, Others

\* A transaction with no code and no lock is apart from every other.
LEMMA EmptyHandedApart ==
    ASSUME PgInv, NEW t \in Transactions, NEW new,
           new.op \notin {"invite", "reissue"}, new.code = NoRow,
           new.invs = {}
    PROVE  Apart(t, new)
  BY DEF Apart, PgInv, FreeInvitations, Others, Job, InviteJob, ReissueJob

\* A statement that reads, or locks rows that nobody else has locked.
LEMMA QuietStep ==
    ASSUME PgInv, NEW t \in Transactions, NEW new \in Transaction,
           Job(new), Apart(t, new), Runs(t, new), UNCHANGED storeVars,
           new.op = "redeem" => new.at # "update"
    PROVE  PgInv'
<1>1. TablesInv /\ TxType /\ Jobs /\ LocksExclude
  BY PartsOfPgInv
<1>2. TablesInv'
  BY <1>1, SameTables
<1>3. /\ TxType'
      /\ tx'[t] = new
      /\ \A o \in Others(t) : tx'[o] = tx[o]
  BY <1>1 DEF TxType, Runs, Others
<1>4. Jobs'
  <2>1. ASSUME NEW o \in Transactions PROVE Job(tx[o])'
    <3> DEFINE s == tx'[o]
    <3>1. s \in Transaction /\ Job(s)
      BY <1>1, <1>3 DEF Jobs, Others, TxType
    <3>2. \A i \in s.invs : i \in InvitationIDs /\ invitations[i] # NoRow
      BY <1>1, <1>3 DEF LocksExclude, Apart, Others, Transaction, TxType
    <3>3. \A i \in s.invs : invitations[i] \in Invitation
      BY <1>1, <3>2 DEF TablesInv, StoreTypeOK
    <3>4. s.op = "redeem" => RedeemJob(s)
      BY <3>1 DEF Job
    <3>5. UNCHANGED <<users, invitations, issued, redemptions, everUsed,
                      clock>>
      BY DEF storeVars, tables
    <3>6. Known' = Known /\ Rows(users)' = Rows(users)
      BY <3>5 DEF Known, Rows
    <3> HIDE DEF s
    <3>7. QED
      BY <1>1, <3>1, <3>3, <3>4, <3>5, <3>6, JobSurvives
         DEF RedeemJob, TablesInv, StoreTypeOK, s
  <2>2. QED
    BY <2>1 DEF Jobs
<1>5. LocksExclude'
  <2>1. invitations' = invitations
    BY DEF storeVars, tables
  <2>2. ASSUME NEW s \in Transactions
        PROVE  /\ \A i \in tx'[s].invs : invitations[i] # NoRow
               /\ \A o \in Others(s) : tx'[s].invs \cap tx'[o].invs = {}
               /\ tx'[s].op \in {"invite", "reissue"} =>
                     \A o \in Others(s) : tx'[o].code # tx'[s].code
               /\ At(s, "redeem", "update")' =>
                     \A o \in Others(s) : At(o, "redeem", "update")' =>
                         /\ tx'[o].user # tx'[s].user
                         /\ tx'[o].email # tx'[s].email
    <3>1. CASE s = t
      BY <3>1, <1>3 DEF Apart, FreeInvitations, At, Others
    <3>2. CASE s # t
      BY <3>2, <1>1, <1>3
         DEF Apart, LocksExclude, FreeInvitations, At, Others
    <3>3. QED
      BY <3>1, <3>2
  <2>3. QED
    BY <2>1, <2>2 DEF LocksExclude, FreeInvitations, Others
<1>6. QED
  BY <1>2, <1>3, <1>4, <1>5, PartsOfPgInv DEF PgInv, TablesInv, TxType,
     Jobs, PgTypeOK

-----------------------------------------------------------------------------
(* The statements that read or lock. *)

LEMMA BeginDeleteArtistInv ==
    ASSUME PgInv, NEW t \in Transactions, NEW a \in ArtistIDs,
           BeginDeleteArtist(t, a)
    PROVE  PgInv'
<1> DEFINE new == [Idle EXCEPT !.op = "delete artist", !.at = "count",
                               !.artist = a]
<1>1. new \in Transaction
  BY DEF Idle, Transaction, Ops, Stages
<1>2. /\ new.op = "delete artist" /\ new.at = "count" /\ new.artist = a
      /\ new.invs = {} /\ new.members = {} /\ new.admins = FALSE
      /\ new.code = NoRow
  BY DEF Idle
<1>3. Job(new)
  BY <1>2 DEF Job, DeleteArtistJob
<1>4. Apart(t, new)
  BY <1>2, EmptyHandedApart
<1>5. QED
  BY <1>1, <1>2, <1>3, <1>4, QuietStep DEF BeginDeleteArtist

LEMMA CountAdminsInv ==
    ASSUME PgInv, NEW t \in Transactions, CountAdmins(t)
    PROVE  PgInv'
<1> DEFINE new == [tx[t] EXCEPT !.at = "invitations"]
<1>1. /\ tx[t] \in Transaction
      /\ DeleteArtistJob(tx[t])
      /\ tx[t].op = "delete artist" /\ tx[t].at = "count"
      /\ LocksExclude
  BY TxFields, PartsOfPgInv DEF CountAdmins, At, Jobs, Job
<1>2. /\ new \in Transaction
      /\ new.op = "delete artist" /\ new.at = "invitations"
      /\ new.artist = tx[t].artist /\ new.invs = tx[t].invs
      /\ new.members = tx[t].members /\ new.admins = tx[t].admins
      /\ new.code = tx[t].code
  BY <1>1 DEF Transaction, Stages
<1>3. Job(new)
  BY <1>1, <1>2 DEF Job, DeleteArtistJob
<1>4. Apart(t, new)
  BY <1>1, <1>2, StaysApart DEF LocksExclude
<1>5. QED
  BY <1>2, <1>3, <1>4, QuietStep DEF CountAdmins

LEMMA DeleteArtistInvitationsInv ==
    ASSUME PgInv, NEW t \in Transactions, DeleteArtistInvitations(t)
    PROVE  PgInv'
<1> DEFINE rows == ArtistInvitations(tx[t].artist)
           new == [tx[t] EXCEPT !.at = "members", !.invs = rows]
<1>1. /\ tx[t] \in Transaction
      /\ DeleteArtistJob(tx[t])
      /\ tx[t].op = "delete artist" /\ tx[t].at = "invitations"
      /\ LocksExclude /\ StoreTypeOK
  BY TxFields, PartsOfPgInv
     DEF DeleteArtistInvitations, At, Jobs, Job, TablesInv
<1>2. /\ rows \subseteq InvitationIDs
      /\ \A i \in rows : /\ invitations[i] # NoRow
                         /\ invitations[i].artist = tx[t].artist
  BY <1>1, FieldTypes DEF ArtistInvitations, Rows
<1>3. /\ new \in Transaction
      /\ new.op = "delete artist" /\ new.at = "members"
      /\ new.artist = tx[t].artist /\ new.invs = rows
      /\ new.members = tx[t].members /\ new.admins = tx[t].admins
      /\ new.code = tx[t].code
  BY <1>1, <1>2 DEF Transaction, Stages
<1>4. Job(new)
  BY <1>1, <1>2, <1>3 DEF Job, DeleteArtistJob
<1>5. Apart(t, new)
  BY <1>1, <1>2, <1>3, StaysApart DEF DeleteArtistInvitations
<1>6. QED
  BY <1>3, <1>4, <1>5, QuietStep DEF DeleteArtistInvitations

LEMMA DeleteArtistMembersInv ==
    ASSUME PgInv, NEW t \in Transactions, DeleteArtistMembers(t)
    PROVE  PgInv'
<1> DEFINE rows == ArtistMembers(tx[t].artist)
           new == [tx[t] EXCEPT !.at = "artist", !.members = rows]
<1>1. /\ tx[t] \in Transaction
      /\ DeleteArtistJob(tx[t])
      /\ tx[t].op = "delete artist" /\ tx[t].at = "members"
      /\ LocksExclude /\ StoreTypeOK
  BY TxFields, PartsOfPgInv
     DEF DeleteArtistMembers, At, Jobs, Job, TablesInv
<1>2. /\ rows \subseteq UserIDs \X ArtistIDs
      /\ \A m \in rows : m[2] = tx[t].artist
  BY <1>1 DEF ArtistMembers, StoreTypeOK
<1>3. /\ new \in Transaction
      /\ new.op = "delete artist" /\ new.at = "artist"
      /\ new.artist = tx[t].artist /\ new.invs = tx[t].invs
      /\ new.members = rows /\ new.admins = tx[t].admins
      /\ new.code = tx[t].code
  BY <1>1, <1>2 DEF Transaction, Stages
<1>4. Job(new)
  BY <1>1, <1>2, <1>3 DEF Job, DeleteArtistJob
<1>5. Apart(t, new)
  BY <1>1, <1>3, StaysApart DEF LocksExclude
<1>6. QED
  BY <1>3, <1>4, <1>5, QuietStep DEF DeleteArtistMembers

LEMMA LockArtistRowInv ==
    ASSUME PgInv, NEW t \in Transactions, LockArtistRow(t)
    PROVE  PgInv'
<1> DEFINE new == [tx[t] EXCEPT !.at = "check"]
<1>1. /\ tx[t] \in Transaction
      /\ DeleteArtistJob(tx[t])
      /\ tx[t].op = "delete artist" /\ tx[t].at = "artist"
      /\ LocksExclude
  BY TxFields, PartsOfPgInv DEF LockArtistRow, At, Jobs, Job
<1>2. /\ new \in Transaction
      /\ new.op = "delete artist" /\ new.at = "check"
      /\ new.artist = tx[t].artist /\ new.invs = tx[t].invs
      /\ new.members = tx[t].members /\ new.admins = tx[t].admins
      /\ new.code = tx[t].code
  BY <1>1 DEF Transaction, Stages
<1>3. Job(new)
  BY <1>1, <1>2 DEF Job, DeleteArtistJob
<1>4. Apart(t, new)
  BY <1>1, <1>2, StaysApart DEF LocksExclude
<1>5. QED
  BY <1>2, <1>3, <1>4, QuietStep DEF LockArtistRow

LEMMA BeginInviteInv ==
    ASSUME PgInv, NEW t \in Transactions, NEW e \in Emails, NEW c \in Codes,
           NEW a \in ArtistIDs, BeginInvite(t, e, c, a)
    PROVE  PgInv'
<1> DEFINE new == [Idle EXCEPT !.op = "invite", !.at = "read", !.artist = a,
                               !.email = e, !.code = c]
<1>1. new \in Transaction
  BY DEF Idle, Transaction, Ops, Stages
<1>2. /\ new.op = "invite" /\ new.at = "read" /\ new.artist = a
      /\ new.email = e /\ new.code = c
      /\ new.invs = {} /\ new.members = {}
  BY DEF Idle
<1>3. /\ tx[t].code = NoRow
      /\ FreshCode(c)
      /\ \A o \in Transactions : tx[o].code # c
  BY DEF BeginInvite, NewCode, Idle
<1>4. Job(new)
  BY <1>2, <1>3 DEF Job, InviteJob
<1>5. Apart(t, new)
  BY <1>2, <1>3 DEF Apart, FreeInvitations, Others
<1>6. QED
  BY <1>1, <1>2, <1>4, <1>5, QuietStep DEF BeginInvite

LEMMA ReadForInviteInv ==
    ASSUME PgInv, NEW t \in Transactions, ReadForInvite(t)
    PROVE  PgInv'
<1> DEFINE new == [tx[t] EXCEPT !.at = "insert"]
<1>1. /\ tx[t] \in Transaction
      /\ InviteJob(tx[t])
      /\ tx[t].op = "invite" /\ tx[t].at = "read"
      /\ LocksExclude
  BY TxFields, PartsOfPgInv DEF ReadForInvite, At, Jobs, Job
<1>2. /\ new \in Transaction
      /\ new.op = "invite" /\ new.at = "insert"
      /\ new.artist = tx[t].artist /\ new.email = tx[t].email
      /\ new.code = tx[t].code
      /\ new.invs = tx[t].invs /\ new.members = tx[t].members
  BY <1>1 DEF Transaction, Stages
<1>3. Job(new)
  BY <1>1, <1>2 DEF Job, InviteJob
<1>4. Apart(t, new)
  BY <1>1, <1>2, StaysApart DEF LocksExclude
<1>5. QED
  BY <1>2, <1>3, <1>4, QuietStep DEF ReadForInvite

LEMMA BeginReissueInv ==
    ASSUME PgInv, NEW t \in Transactions, NEW i \in InvitationIDs,
           NEW c \in Codes, NEW a \in ArtistIDs, BeginReissue(t, i, c, a)
    PROVE  PgInv'
<1> DEFINE new == [Idle EXCEPT !.op = "reissue", !.at = "lock",
                               !.artist = a, !.inv = i, !.code = c]
<1>1. new \in Transaction
  BY DEF Idle, Transaction, Ops, Stages
<1>2. /\ new.op = "reissue" /\ new.at = "lock" /\ new.artist = a
      /\ new.inv = i /\ new.code = c
      /\ new.invs = {} /\ new.members = {}
  BY DEF Idle
<1>3. /\ tx[t].code = NoRow
      /\ FreshCode(c)
      /\ \A o \in Transactions : tx[o].code # c
  BY DEF BeginReissue, NewCode, Idle
<1>4. Job(new)
  BY <1>2, <1>3 DEF Job, ReissueJob
<1>5. Apart(t, new)
  BY <1>2, <1>3 DEF Apart, FreeInvitations, Others
<1>6. QED
  BY <1>1, <1>2, <1>4, <1>5, QuietStep DEF BeginReissue

LEMMA LockForReissueInv ==
    ASSUME PgInv, NEW t \in Transactions, LockForReissue(t)
    PROVE  PgInv'
<1> DEFINE i == tx[t].inv
           new == [WithInvitation(t, i) EXCEPT !.at = "update"]
<1>1. /\ tx[t] \in Transaction
      /\ ReissueJob(tx[t])
      /\ tx[t].op = "reissue" /\ tx[t].at = "lock"
      /\ LocksExclude
  BY TxFields, PartsOfPgInv DEF LockForReissue, At, Jobs, Job
<1>2. i \in InvitationIDs
  BY <1>1 DEF ReissueJob
<1>3. /\ new \in Transaction
      /\ new.op = "reissue" /\ new.at = "update"
      /\ new.artist = tx[t].artist /\ new.inv = i
      /\ new.code = tx[t].code
      /\ new.invs = {i} /\ new.members = tx[t].members
  BY <1>1, <1>2 DEF WithInvitation, Transaction, Stages
<1>4. Job(new)
  BY <1>1, <1>3 DEF Job, ReissueJob, LockForReissue
<1>5. Apart(t, new)
  BY <1>1, <1>3, StaysApart DEF LockForReissue
<1>6. QED
  BY <1>3, <1>4, <1>5, QuietStep DEF LockForReissue

\* The offer that a registration has read says what its code was issued for.
LEMMA BeginRedeemInv ==
    ASSUME PgInv, NEW t \in Transactions, NEW c \in Codes, BeginRedeem(t, c)
    PROVE  PgInv'
<1>1. PICK i \in InvitationsWithCode(c) :
         Runs(t, [Idle EXCEPT !.op = "redeem", !.at = "lock", !.inv = i,
                              !.email = invitations[i].email, !.code = c])
  BY DEF BeginRedeem
<1> DEFINE e == invitations[i].email
           new == [Idle EXCEPT !.op = "redeem", !.at = "lock", !.inv = i,
                               !.email = e, !.code = c]
<1>2. TablesInv
  BY PartsOfPgInv
<1>3. /\ i \in Rows(invitations) /\ i \in InvitationIDs
      /\ invitations[i].code = c /\ e \in Emails
      /\ issued[c] # NoRow /\ issued[c].email = e
  BY <1>2, FieldTypes, RowsHaveGrants DEF InvitationsWithCode, TablesInv
<1>4. new \in Transaction
  BY <1>3 DEF Idle, Transaction, Ops, Stages
<1>5. /\ new.op = "redeem" /\ new.at = "lock" /\ new.inv = i
      /\ new.email = e /\ new.code = c
      /\ new.invs = {} /\ new.members = {}
  BY DEF Idle
<1>6. Job(new)
  BY <1>3, <1>5 DEF Job, RedeemJob
<1>7. Apart(t, new)
  <2>1. ASSUME NEW o \in Transactions,
               tx[o].op \in {"invite", "reissue"}
        PROVE  issued[tx[o].code] = NoRow
    BY <2>1 DEF PgInv, Job, InviteJob, ReissueJob, FreshCode
  <2>2. QED
    BY <1>3, <1>5, <2>1 DEF Apart, FreeInvitations, Others
<1>8. QED
  BY <1>1, <1>4, <1>5, <1>6, <1>7, QuietStep DEF BeginRedeem

LEMMA LockForRedeemInv ==
    ASSUME PgInv, NEW t \in Transactions, LockForRedeem(t)
    PROVE  PgInv'
<1> DEFINE i == tx[t].inv
           new == [WithInvitation(t, i) EXCEPT
                       !.artist = invitations[i].artist, !.at = "user"]
<1>1. /\ tx[t] \in Transaction
      /\ RedeemJob(tx[t])
      /\ tx[t].op = "redeem" /\ tx[t].at = "lock"
      /\ LocksExclude /\ TablesInv
  BY TxFields, PartsOfPgInv DEF LockForRedeem, At, Jobs, Job
<1>2. i \in Rows(invitations)
  BY <1>1 DEF RedeemJob, Rows, LockForRedeem, TablesInv, StoreTypeOK
<1>3. /\ i \in InvitationIDs
      /\ invitations[i].artist \in ArtistIDs
      /\ issued[tx[t].code].artist = invitations[i].artist
      /\ invitations[i].code = tx[t].code
      /\ ~invitations[i].accepted /\ ~invitations[i].revoked
  BY <1>1, <1>2, FieldTypes, RowsHaveGrants
     DEF TablesInv, LockForRedeem, InvitationStatus
<1>4. /\ new \in Transaction
      /\ new.op = "redeem" /\ new.at = "user"
      /\ new.artist = invitations[i].artist /\ new.inv = i
      /\ new.code = tx[t].code /\ new.email = tx[t].email
      /\ new.invs = {i} /\ new.members = tx[t].members
  BY <1>1, <1>3 DEF WithInvitation, Transaction, Stages
<1>5. Job(new)
  BY <1>1, <1>3, <1>4 DEF Job, RedeemJob
<1>6. Apart(t, new)
  <2>1. invitations[i] # NoRow /\ FreeInvitations(t, {i})
    BY DEF LockForRedeem
  <2> HIDE DEF new
  <2>2. QED
    BY <1>1, <1>4, <2>1, StaysApart
<1>7. QED
  BY <1>4, <1>5, <1>6, QuietStep DEF LockForRedeem

LEMMA BeginDeleteUserInv ==
    ASSUME PgInv, NEW t \in Transactions, NEW u \in UserIDs,
           BeginDeleteUser(t, u)
    PROVE  PgInv'
<1> DEFINE new == [Idle EXCEPT !.op = "delete user", !.at = "revocation",
                               !.user = u, !.email = users[u]]
<1>1. TablesInv
  BY PartsOfPgInv
<1>2. users[u] \in Emails /\ u \in Known
  BY <1>1 DEF BeginDeleteUser, TablesInv, StoreTypeOK, OnlyKnownAccounts,
     Rows
<1>3. new \in Transaction
  BY <1>2 DEF Idle, Transaction, Ops, Stages
<1>4. /\ new.op = "delete user" /\ new.at = "revocation"
      /\ new.user = u /\ new.email = users[u] /\ new.code = NoRow
      /\ new.invs = {} /\ new.members = {}
  BY DEF Idle
<1>5. Job(new)
  BY <1>2, <1>4 DEF Job, DeleteUserJob
<1>6. Apart(t, new)
  BY <1>4, EmptyHandedApart
<1>7. QED
  BY <1>3, <1>4, <1>5, <1>6, QuietStep DEF BeginDeleteUser

LEMMA InsertRevocationInv ==
    ASSUME PgInv, NEW t \in Transactions, InsertRevocation(t)
    PROVE  PgInv'
<1> DEFINE new == [tx[t] EXCEPT !.at = "members"]
<1>1. /\ tx[t] \in Transaction
      /\ DeleteUserJob(tx[t])
      /\ tx[t].op = "delete user" /\ tx[t].at = "revocation"
      /\ LocksExclude
  BY TxFields, PartsOfPgInv DEF InsertRevocation, At, Jobs, Job
<1>2. /\ new \in Transaction
      /\ new.op = "delete user" /\ new.at = "members"
      /\ new.user = tx[t].user /\ new.email = tx[t].email
      /\ new.code = tx[t].code
      /\ new.invs = tx[t].invs /\ new.members = tx[t].members
  BY <1>1 DEF Transaction, Stages
<1>3. Job(new)
  BY <1>1, <1>2 DEF Job, DeleteUserJob
<1>4. Apart(t, new)
  BY <1>1, <1>2, StaysApart DEF LocksExclude
<1>5. QED
  BY <1>2, <1>3, <1>4, QuietStep DEF InsertRevocation

LEMMA DeleteUserMembersInv ==
    ASSUME PgInv, NEW t \in Transactions, DeleteUserMembers(t)
    PROVE  PgInv'
<1> DEFINE rows == UserMembers(tx[t].user)
           new == [tx[t] EXCEPT !.at = "invitations", !.members = rows]
<1>1. /\ tx[t] \in Transaction
      /\ DeleteUserJob(tx[t])
      /\ tx[t].op = "delete user" /\ tx[t].at = "members"
      /\ LocksExclude /\ StoreTypeOK
  BY TxFields, PartsOfPgInv DEF DeleteUserMembers, At, Jobs, Job, TablesInv
<1>2. /\ rows \subseteq UserIDs \X ArtistIDs
      /\ \A m \in rows : m[1] = tx[t].user
  BY <1>1 DEF UserMembers, StoreTypeOK
<1>3. /\ new \in Transaction
      /\ new.op = "delete user" /\ new.at = "invitations"
      /\ new.user = tx[t].user /\ new.email = tx[t].email
      /\ new.code = tx[t].code
      /\ new.invs = tx[t].invs /\ new.members = rows
  BY <1>1, <1>2 DEF Transaction, Stages
<1>4. Job(new)
  BY <1>1, <1>2, <1>3 DEF Job, DeleteUserJob
<1>5. Apart(t, new)
  BY <1>1, <1>3, StaysApart DEF LocksExclude
<1>6. QED
  BY <1>3, <1>4, <1>5, QuietStep DEF DeleteUserMembers

\* A rollback gives up code and locks.
LEMMA AbortInv ==
    ASSUME PgInv, NEW t \in Transactions, Abort(t)
    PROVE  PgInv'
<1>1. /\ Idle.op = "idle" /\ Idle.code = NoRow /\ Idle.invs = {}
  BY DEF Idle
<1>2. Apart(t, Idle)
  BY <1>1, EmptyHandedApart
<1>3. QED
  BY <1>1, <1>2, IdleIsWell, QuietStep DEF Abort, Ends

-----------------------------------------------------------------------------
(* The steps that change the tables: what they must leave to the others. *)

\* The step leaves o what it has read, locked, drawn and inserted.
Undisturbed(o) ==
    /\ \A i \in tx[o].invs : invitations'[i] = invitations[i]
    /\ tx[o].code \in Codes => issued'[tx[o].code] = issued[tx[o].code]
    /\ At(o, "redeem", "update") =>
           /\ tx[o].user \notin Known'
           /\ \A v \in Rows(users)' : users'[v] # tx[o].email
    /\ tx[o].op = "delete user" =>
           users'[tx[o].user] \in {users[tx[o].user], NoRow}

\* Time and the histories only grow.
Grows ==
    /\ clock' \in Nat /\ clock <= clock'
    /\ everUsed.users \subseteq everUsed'.users
    /\ Known \subseteq Known'

LEMMA UndisturbedJob ==
    ASSUME PgInv, Grows, NEW o \in Transactions, Undisturbed(o),
           tx'[o] = tx[o]
    PROVE  Job(tx[o])'
<1>1. /\ tx[o] \in Transaction /\ Job(tx[o]) /\ StoreTypeOK
      /\ \A i \in tx[o].invs : i \in InvitationIDs /\ invitations[i] # NoRow
  BY TxFields, PartsOfPgInv DEF Jobs, TablesInv, LocksExclude
<1>2. \A i \in tx[o].invs : invitations[i] \in Invitation
  BY <1>1 DEF StoreTypeOK
<1>3. QED
  BY <1>1, <1>2, JobSurvives DEF Undisturbed, Grows, At

\* A step on the tables that ends transactions, or none.
LEMMA TablesStep ==
    ASSUME PgInv, TablesInv', TxType', Grows,
           \A o \in Transactions :
               tx'[o] = Idle \/ (tx'[o] = tx[o] /\ Undisturbed(o))
    PROVE  PgInv'
<1>1. Jobs'
  <2>1. ASSUME NEW o \in Transactions PROVE Job(tx[o])'
    <3>1. CASE tx'[o] = Idle
      BY <3>1 DEF Job, Idle
    <3>2. CASE tx'[o] = tx[o] /\ Undisturbed(o)
      BY <3>2, UndisturbedJob
    <3>3. QED
      BY <3>1, <3>2
  <2>2. QED
    BY <2>1 DEF Jobs
<1>2. LocksExclude'
  <2>1. /\ Idle.op = "idle" /\ Idle.code = NoRow /\ Idle.invs = {}
    BY DEF Idle
  <2>2. ASSUME NEW s \in Transactions,
               tx[s].op \in {"invite", "reissue"}
        PROVE  tx[s].code # NoRow
    BY <2>2 DEF PgInv, Job, InviteJob, ReissueJob
  <2>3. ASSUME NEW s \in Transactions
        PROVE  /\ \A i \in tx'[s].invs : invitations'[i] # NoRow
               /\ \A o \in Others(s) : tx'[s].invs \cap tx'[o].invs = {}
               /\ tx'[s].op \in {"invite", "reissue"} =>
                     \A o \in Others(s) : tx'[o].code # tx'[s].code
               /\ At(s, "redeem", "update")' =>
                     \A o \in Others(s) : At(o, "redeem", "update")' =>
                         /\ tx'[o].user # tx'[s].user
                         /\ tx'[o].email # tx'[s].email
    <3>1. CASE tx'[s] = Idle
      BY <3>1, <2>1 DEF At
    <3>2. CASE tx'[s] = tx[s] /\ Undisturbed(s)
      <4>1. \A i \in tx[s].invs : invitations'[i] # NoRow
        BY <3>2 DEF Undisturbed, PgInv, LocksExclude
      <4>2. ASSUME NEW o \in Others(s)
            PROVE  /\ tx[s].invs \cap tx'[o].invs = {}
                   /\ tx[s].op \in {"invite", "reissue"} =>
                         tx'[o].code # tx[s].code
                   /\ At(s, "redeem", "update") =>
                         (At(o, "redeem", "update")' =>
                             /\ tx'[o].user # tx[s].user
                             /\ tx'[o].email # tx[s].email)
        <5>1. CASE tx'[o] = Idle
          BY <5>1, <2>1, <2>2 DEF At
        <5>2. CASE tx'[o] = tx[o]
          BY <5>2 DEF PgInv, LocksExclude, FreeInvitations, Others, At
        <5>3. QED
          BY <5>1, <5>2 DEF Others
      <4>3. QED
        BY <3>2, <4>1, <4>2 DEF At
    <3>3. QED
      BY <3>1, <3>2
  <2>4. QED
    BY <2>3 DEF LocksExclude, FreeInvitations, Others
<1>3. QED
  BY <1>1, <1>2 DEF PgInv, TablesInv, TxType, Jobs, PgTypeOK

\* The step of a transaction that commits.
LEMMA CommitStep ==
    ASSUME PgInv, NEW t \in Transactions, Ends(t), TablesInv', Grows,
           \A o \in Others(t) : Undisturbed(o)
    PROVE  PgInv'
<1>1. /\ TxType'
      /\ tx'[t] = Idle
      /\ \A o \in Others(t) : tx'[o] = tx[o]
  BY IdleIsWell, PartsOfPgInv DEF Ends, Runs, TxType, Others
<1>2. QED
  BY <1>1, TablesStep DEF Others

\* The step of no transaction, or of one that begins and ends with it.
LEMMA LoneStep ==
    ASSUME PgInv, UNCHANGED tx, TablesInv', Grows,
           \A o \in Transactions : Undisturbed(o)
    PROVE  PgInv'
  BY TablesStep, PartsOfPgInv DEF TxType

\* While the accounts stay as they are, registrations and deletions that
\* have begun are undisturbed.
LEMMA AccountsUntouched ==
    ASSUME PgInv, UNCHANGED <<users, redemptions>>,
           NEW o \in Transactions,
           \A i \in tx[o].invs : invitations'[i] = invitations[i],
           tx[o].code \in Codes => issued'[tx[o].code] = issued[tx[o].code]
    PROVE  Undisturbed(o)
<1>1. Known' = Known /\ Rows(users)' = Rows(users)
  BY DEF Known, Rows
<1>2. At(o, "redeem", "update") => RedeemJob(tx[o])
  BY PartsOfPgInv DEF At, Jobs, Job
<1>3. QED
  BY <1>1, <1>2 DEF Undisturbed, At, RedeemJob

-----------------------------------------------------------------------------
(* The tables after each step that changes them. *)

\* A new artist has an id that no code was issued for.
LEMMA CreateArtistTables ==
    ASSUME TablesInv, NEW a \in ArtistIDs, NEW slug \in Slugs,
           CreateArtist(a, slug)
    PROVE  TablesInv'
<1> USE DEF TablesInv
<1>1. StoreTypeOK'
  BY CreateArtistType
<1>2. /\ UNCHANGED <<users, userArtists, invitations, revocations, issued,
                     redemptions>>
      /\ everUsed' = [everUsed EXCEPT !.artists = @ \cup {a}]
      /\ artists' = [artists EXCEPT ![a] = slug]
      /\ a \notin everUsed.artists
      /\ slug # NoRow
  BY DEF CreateArtist, NewArtistID
<1>3. /\ everUsed'.artists = everUsed.artists \cup {a}
      /\ everUsed'.users = everUsed.users
      /\ everUsed'.invitations = everUsed.invitations
  BY <1>2 DEF StoreTypeOK
<1>4. /\ Rows(artists)' = Rows(artists) \cup {a}
      /\ Rows(users)' = Rows(users)
      /\ Rows(invitations)' = Rows(invitations)
      /\ Known' = Known
  BY <1>2 DEF Rows, Known, StoreTypeOK
<1>5. \A b \in ArtistIDs : b # a => artists'[b] = artists[b]
  BY <1>2 DEF StoreTypeOK
<1>6. artists'[a] # NoRow
  BY <1>2 DEF StoreTypeOK
<1>7. IdsOfRowsAreUsed'
  BY <1>3, <1>4 DEF IdsOfRowsAreUsed
<1>8. UniqueColumns' /\ OneAccountPerCode' /\ RowsMatchGrants'
  BY <1>2, <1>4 DEF UniqueColumns, OneAccountPerCode, RowsMatchGrants
<1>9. RedemptionsAreFinal' /\ AcceptedHasAccount'
  BY <1>2, <1>3, <1>4
     DEF RedemptionsAreFinal, AcceptedHasAccount, InvitationsWithCode
<1>10. ForeignKeysHold'
  BY <1>2, <1>4, <1>5, <1>6, FieldTypes DEF ForeignKeysHold, StoreTypeOK
<1>11. OnlyKnownAccounts' /\ DeletedAccountsAreRevoked'
  BY <1>2, <1>3, <1>4 DEF OnlyKnownAccounts, DeletedAccountsAreRevoked
<1>12. AccountKeepsArtistThatExists'
  <2>1. \A r \in redemptions :
           /\ issued[r[1]].artist \in ArtistIDs
           /\ issued[r[1]].artist # a
    BY <1>2, FieldTypes DEF RedemptionsAreFinal, OnlyKnownAccounts,
       StoreTypeOK
  <2>2. QED
    BY <1>2, <1>5, <2>1 DEF AccountKeepsArtistThatExists
<1>13. QED
  BY <1>1, <1>7, <1>8, <1>9, <1>10, <1>11, <1>12

LEMMA TickTables ==
    ASSUME TablesInv, Tick
    PROVE  TablesInv'
<1>1. StoreTypeOK'
  BY TickType DEF TablesInv
<1>2. QED
  BY <1>1 DEF Tick, TablesInv, tables, IdsOfRowsAreUsed, Rows,
     UniqueColumns, ForeignKeysHold, RowsMatchGrants, RedemptionsAreFinal,
     InvitationsWithCode, OneAccountPerCode, OnlyKnownAccounts, Known,
     AcceptedHasAccount, AccountKeepsArtistThatExists,
     DeletedAccountsAreRevoked

\* An id that has been drawn is one that nobody has.
LEMMA DrawnIdTables ==
    ASSUME TablesInv, NEW u \in UserIDs,
           everUsed' = [everUsed EXCEPT !.users = @ \cup {u}],
           UNCHANGED <<artists, users, userArtists, invitations,
                       revocations, issued, redemptions, clock>>
    PROVE  TablesInv'
<1> USE DEF TablesInv
<1>1. /\ everUsed'.artists = everUsed.artists
      /\ everUsed'.users = everUsed.users \cup {u}
      /\ everUsed'.invitations = everUsed.invitations
      /\ StoreTypeOK'
  BY DEF StoreTypeOK
<1>2. IdsOfRowsAreUsed' /\ RedemptionsAreFinal' /\ OnlyKnownAccounts'
  BY <1>1 DEF IdsOfRowsAreUsed, RedemptionsAreFinal, OnlyKnownAccounts,
     InvitationsWithCode, Rows, Known
<1>3. /\ UniqueColumns' /\ ForeignKeysHold' /\ RowsMatchGrants'
      /\ OneAccountPerCode' /\ AcceptedHasAccount'
      /\ AccountKeepsArtistThatExists' /\ DeletedAccountsAreRevoked'
  BY DEF Rows, UniqueColumns, ForeignKeysHold, RowsMatchGrants,
     OneAccountPerCode, AcceptedHasAccount, AccountKeepsArtistThatExists,
     DeletedAccountsAreRevoked
<1>4. QED
  BY <1>1, <1>2, <1>3

\* A revocation changes nothing else of the row.
LEMMA RevokeInvitationTables ==
    ASSUME TablesInv, NEW i \in InvitationIDs, RevokeInvitation(i)
    PROVE  TablesInv'
<1> USE DEF TablesInv
<1>1. StoreTypeOK'
  BY RevokeInvitationType
<1>2. /\ UNCHANGED <<artists, users, userArtists, revocations, everUsed,
                     issued, redemptions, clock>>
      /\ i \in Rows(invitations)
  BY DEF RevokeInvitation, Rows, StoreTypeOK
<1>3. /\ Rows(invitations)' = Rows(invitations)
      /\ \A j \in Rows(invitations) :
            /\ invitations'[j].email = invitations[j].email
            /\ invitations'[j].artist = invitations[j].artist
            /\ invitations'[j].code = invitations[j].code
            /\ invitations'[j].expires = invitations[j].expires
            /\ invitations'[j].accepted = invitations[j].accepted
  <2>1. \A j \in InvitationIDs : j # i => invitations'[j] = invitations[j]
    BY DEF RevokeInvitation, StoreTypeOK
  <2>2. /\ invitations[i] \in Invitation
        /\ invitations'[i] = [invitations[i] EXCEPT !.revoked = TRUE]
    BY <1>2, FieldTypes DEF RevokeInvitation, StoreTypeOK
  <2>3. /\ invitations'[i] # NoRow
        /\ invitations'[i].email = invitations[i].email
        /\ invitations'[i].artist = invitations[i].artist
        /\ invitations'[i].code = invitations[i].code
        /\ invitations'[i].expires = invitations[i].expires
        /\ invitations'[i].accepted = invitations[i].accepted
    BY <2>2 DEF Invitation
  <2>4. Rows(invitations)' = {j \in InvitationIDs : invitations'[j] # NoRow}
    BY <1>1 DEF Rows, StoreTypeOK
  <2>5. Rows(invitations)' = Rows(invitations)
    BY <1>2, <2>1, <2>3, <2>4, RowsOfTables
  <2>6. QED
    BY <2>1, <2>3, <2>5, RowsOfTables
<1>4. Rows(users)' = Rows(users) /\ Rows(artists)' = Rows(artists)
      /\ Known' = Known
  BY <1>2 DEF Rows, Known
<1>5. IdsOfRowsAreUsed' /\ UniqueColumns' /\ ForeignKeysHold'
  BY <1>2, <1>3, <1>4 DEF IdsOfRowsAreUsed, UniqueColumns, ForeignKeysHold
<1>6. RowsMatchGrants'
  BY <1>2, <1>3 DEF RowsMatchGrants
<1>7. RedemptionsAreFinal' /\ AcceptedHasAccount'
  BY <1>2, <1>3, <1>4
     DEF RedemptionsAreFinal, AcceptedHasAccount, InvitationsWithCode
<1>8. /\ OneAccountPerCode' /\ OnlyKnownAccounts'
      /\ AccountKeepsArtistThatExists' /\ DeletedAccountsAreRevoked'
  BY <1>2, <1>4 DEF OneAccountPerCode, OnlyKnownAccounts,
     AccountKeepsArtistThatExists, DeletedAccountsAreRevoked
<1>9. QED
  BY <1>1, <1>5, <1>6, <1>7, <1>8

\* Where rows of invitations only disappear.
LEMMA FewerInvitations ==
    ASSUME TablesInv, StoreTypeOK', UNCHANGED <<issued, redemptions>>,
           NEW gone \in SUBSET InvitationIDs,
           invitations' = [i \in InvitationIDs |->
               IF i \in gone THEN NoRow ELSE invitations[i]]
    PROVE  /\ Rows(invitations)' = Rows(invitations) \ gone
           /\ \A i \in Rows(invitations)' :
                 /\ i \in Rows(invitations)
                 /\ invitations'[i] = invitations[i]
           /\ RowsMatchGrants'
           /\ \A i, j \in Rows(invitations)' :
                 invitations'[i].email = invitations'[j].email => i = j
           /\ \A r \in redemptions : \A i \in InvitationsWithCode(r[1])' :
                 invitations'[i].accepted
<1> USE DEF TablesInv
<1>1. Rows(invitations)' = {i \in InvitationIDs : invitations'[i] # NoRow}
  BY DEF StoreTypeOK, Rows
<1>2. Rows(invitations)' = Rows(invitations) \ gone
  BY <1>1, RowsOfTables
<1>3. \A i \in Rows(invitations)' :
         i \in Rows(invitations) /\ invitations'[i] = invitations[i]
  BY <1>2, RowsOfTables
<1>4. RowsMatchGrants'
  BY <1>3 DEF RowsMatchGrants
<1>5. \A i, j \in Rows(invitations)' :
         invitations'[i].email = invitations'[j].email => i = j
  BY <1>3 DEF UniqueColumns
<1>6. \A r \in redemptions : \A i \in InvitationsWithCode(r[1])' :
         invitations'[i].accepted
  BY <1>3 DEF RedemptionsAreFinal, InvitationsWithCode
<1>7. QED
  BY <1>2, <1>3, <1>4, <1>5, <1>6

\* An artist goes with all invitations and memberships that referenced it;
\* accounts that lose their artist lose it for ever.
LEMMA DeleteArtistRowTables ==
    ASSUME PgInv, NEW t \in Transactions, DeleteArtistRow(t)
    PROVE  TablesInv'
<1> DEFINE a == tx[t].artist
<1>1. /\ TablesInv /\ StoreTypeOK
      /\ tx[t] \in Transaction
      /\ DeleteArtistJob(tx[t])
  BY PartsOfPgInv, TxFields DEF DeleteArtistRow, At, Jobs, Job, TablesInv
<1>2. /\ a \in ArtistIDs
      /\ tx[t].invs \in SUBSET InvitationIDs
      /\ \A m \in tx[t].members : m[2] = a
  BY <1>1, TxFields, PartsOfPgInv DEF DeleteArtistJob
<1>3. /\ UNCHANGED <<users, revocations, everUsed, issued, redemptions,
                     clock>>
      /\ artists' = [artists EXCEPT ![a] = NoRow]
      /\ userArtists' = userArtists \ tx[t].members
      /\ invitations' = [i \in InvitationIDs |->
             IF i \in tx[t].invs THEN NoRow ELSE invitations[i]]
      /\ \A i \in Rows(invitations) \ tx[t].invs : invitations[i].artist # a
      /\ \A m \in userArtists \ tx[t].members : m[2] # a
  BY DEF DeleteArtistRow, Unreferenced
<1> HIDE DEF a
<1>4. StoreTypeOK'
  BY <1>1, <1>2, <1>3 DEF StoreTypeOK
<1>5. /\ Rows(invitations)' = Rows(invitations) \ tx[t].invs
      /\ \A i \in Rows(invitations)' :
            i \in Rows(invitations) /\ invitations'[i] = invitations[i]
      /\ RowsMatchGrants'
      /\ \A i, j \in Rows(invitations)' :
            invitations'[i].email = invitations'[j].email => i = j
      /\ \A r \in redemptions : \A i \in InvitationsWithCode(r[1])' :
            invitations'[i].accepted
  BY <1>1, <1>2, <1>3, <1>4, FewerInvitations
<1>6. /\ Rows(users)' = Rows(users) /\ Known' = Known
      /\ Rows(artists)' \subseteq Rows(artists)
      /\ \A b \in ArtistIDs : b # a => artists'[b] = artists[b]
      /\ artists'[a] = NoRow
  BY <1>1, <1>2, <1>3, <1>4 DEF Rows, Known, StoreTypeOK
<1>7. IdsOfRowsAreUsed' /\ UniqueColumns'
  BY <1>1, <1>3, <1>5, <1>6 DEF TablesInv, IdsOfRowsAreUsed, UniqueColumns
<1>8. ForeignKeysHold'
  BY <1>1, <1>3, <1>5, <1>6, FieldTypes
     DEF TablesInv, ForeignKeysHold, StoreTypeOK
<1>9. RedemptionsAreFinal' /\ OneAccountPerCode'
  BY <1>1, <1>3, <1>5 DEF TablesInv, RedemptionsAreFinal, OneAccountPerCode
<1>10. OnlyKnownAccounts' /\ DeletedAccountsAreRevoked'
  BY <1>1, <1>3, <1>6 DEF TablesInv, OnlyKnownAccounts,
     DeletedAccountsAreRevoked
<1>11. AcceptedHasAccount'
  BY <1>1, <1>3, <1>5, <1>6 DEF TablesInv, AcceptedHasAccount
<1>12. AccountKeepsArtistThatExists'
  <2> SUFFICES ASSUME NEW r \in redemptions, users[r[2]] # NoRow
               PROVE  LET own == issued[r[1]].artist
                          member == {m \in userArtists' : m[1] = r[2]} IN
                      \/ member = {<<r[2], own>>}
                      \/ member = {} /\ artists'[own] = NoRow
    BY <1>3 DEF AccountKeepsArtistThatExists
  <2> DEFINE own == issued[r[1]].artist
             before == {m \in userArtists : m[1] = r[2]}
             after == {m \in userArtists' : m[1] = r[2]}
  <2>1. \/ before = {<<r[2], own>>}
        \/ before = {} /\ artists[own] = NoRow
    BY <1>1 DEF TablesInv, AccountKeepsArtistThatExists
  <2>2. own \in ArtistIDs
    BY <1>1, FieldTypes DEF TablesInv, RedemptionsAreFinal, StoreTypeOK
  <2>3. after \subseteq before
    BY <1>3
  <2>4. CASE own = a
    <3>1. \A m \in after : m[2] # a
      BY <1>3
    <3>2. after = {}
      BY <2>1, <2>3, <2>4, <3>1
    <3>3. QED
      BY <1>6, <2>4, <3>2
  <2>5. CASE own # a
    <3>1. before \cap tx[t].members = {}
      BY <1>2, <2>1, <2>5
    <3>2. after = before
      BY <1>3, <3>1
    <3>3. QED
      BY <1>6, <2>1, <2>2, <2>5, <3>2
  <2>6. QED
    BY <2>4, <2>5
<1>13. QED
  BY <1>4, <1>5, <1>7, <1>8, <1>9, <1>10, <1>11, <1>12 DEF TablesInv

\* An account goes with its memberships, the invitations of its e-mail and a
\* revocation; when it had gone already, with invitations only.
LEMMA DeleteUserRowsTables ==
    ASSUME PgInv, NEW t \in Transactions, DeleteUserRows(t)
    PROVE  TablesInv'
<1> DEFINE u == tx[t].user
           e == tx[t].email
           rows == UserInvitations(e)
<1>1. /\ TablesInv /\ StoreTypeOK
      /\ tx[t] \in Transaction
      /\ DeleteUserJob(tx[t])
  BY PartsOfPgInv, TxFields DEF DeleteUserRows, At, Jobs, Job, TablesInv
<1>2. /\ u \in Known /\ u \in UserIDs
      /\ users[u] \in {e, NoRow}
      /\ \A m \in tx[t].members : m[1] = u
      /\ rows \in SUBSET InvitationIDs
      /\ rows = {i \in Rows(invitations) : invitations[i].email = e}
  BY <1>1, RowsOfTables
     DEF DeleteUserJob, Known, StoreTypeOK, UserInvitations
<1>3. /\ UNCHANGED <<artists, everUsed, issued, redemptions, clock>>
      /\ users' = [users EXCEPT ![u] = NoRow]
      /\ revocations' = revocations \cup {u}
      /\ userArtists' = userArtists \ tx[t].members
      /\ invitations' = [i \in InvitationIDs |->
             IF i \in rows THEN NoRow ELSE invitations[i]]
      /\ \A m \in userArtists \ tx[t].members : m[1] # u
  BY DEF DeleteUserRows
<1> HIDE DEF u, e, rows
<1>4. StoreTypeOK'
  BY <1>1, <1>2, <1>3 DEF StoreTypeOK
<1>5. /\ Rows(invitations)' = Rows(invitations) \ rows
      /\ \A i \in Rows(invitations)' :
            i \in Rows(invitations) /\ invitations'[i] = invitations[i]
      /\ RowsMatchGrants'
      /\ \A i, j \in Rows(invitations)' :
            invitations'[i].email = invitations'[j].email => i = j
      /\ \A r \in redemptions : \A i \in InvitationsWithCode(r[1])' :
            invitations'[i].accepted
  BY <1>1, <1>2, <1>3, <1>4, FewerInvitations
<1>6. /\ Rows(users)' = Rows(users) \ {u} /\ Known' = Known
      /\ Rows(artists)' = Rows(artists)
      /\ \A v \in UserIDs : v # u => users'[v] = users[v]
      /\ users'[u] = NoRow
  BY <1>1, <1>2, <1>3, <1>4 DEF Rows, Known, StoreTypeOK
<1>7. IdsOfRowsAreUsed' /\ UniqueColumns'
  <2>1. \A v \in Rows(users)' : v \in Rows(users) /\ users'[v] = users[v]
    BY <1>1, <1>6, RowsOfTables
  <2>2. IdsOfRowsAreUsed'
    BY <1>1, <1>3, <1>5, <1>6 DEF TablesInv, IdsOfRowsAreUsed
  <2>3. \A v, w \in Rows(users)' : users'[v] = users'[w] => v = w
    BY <1>1, <2>1 DEF TablesInv, UniqueColumns
  <2>4. QED
    BY <1>5, <2>2, <2>3 DEF UniqueColumns
<1>8. ForeignKeysHold'
  <2>1. \A m \in userArtists' : m \in userArtists /\ m[1] # u
    BY <1>3
  <2>2. QED
    BY <1>1, <1>3, <1>5, <1>6, <2>1 DEF TablesInv, ForeignKeysHold,
       StoreTypeOK
<1>9. RedemptionsAreFinal' /\ OneAccountPerCode'
  BY <1>1, <1>3, <1>5 DEF TablesInv, RedemptionsAreFinal, OneAccountPerCode
<1>10. OnlyKnownAccounts'
  BY <1>1, <1>2, <1>3, <1>6 DEF TablesInv, OnlyKnownAccounts
<1>11. DeletedAccountsAreRevoked'
  <2>1. \A r \in redemptions : r[2] \in UserIDs
    BY <1>1 DEF StoreTypeOK
  <2>2. QED
    BY <1>1, <1>3, <1>6, <2>1 DEF TablesInv, DeletedAccountsAreRevoked
<1>12. AcceptedHasAccount'
  <2> SUFFICES ASSUME NEW i \in Rows(invitations)', invitations'[i].accepted
               PROVE  \E v \in Rows(users)' :
                          users'[v] = invitations'[i].email
    BY DEF AcceptedHasAccount
  <2>1. /\ i \in Rows(invitations) /\ i \notin rows
        /\ invitations'[i] = invitations[i]
    BY <1>5
  <2>2. PICK v \in Rows(users) : users[v] = invitations[i].email
    BY <1>1, <2>1 DEF TablesInv, AcceptedHasAccount
  <2>3. invitations[i].email # e
    BY <1>2, <2>1
  <2>4. v # u /\ v \in UserIDs
    BY <1>1, <1>2, <2>2, <2>3, RowsOfTables
  <2>5. QED
    BY <1>6, <2>1, <2>2, <2>4
<1>13. AccountKeepsArtistThatExists'
  <2> SUFFICES ASSUME NEW r \in redemptions, users'[r[2]] # NoRow
               PROVE  LET own == issued[r[1]].artist
                          member == {m \in userArtists' : m[1] = r[2]} IN
                      \/ member = {<<r[2], own>>}
                      \/ member = {} /\ artists[own] = NoRow
    BY <1>3 DEF AccountKeepsArtistThatExists
  <2>1. r[2] # u /\ r[2] \in UserIDs
    BY <1>1, <1>6 DEF StoreTypeOK
  <2>2. users[r[2]] # NoRow
    BY <1>6, <2>1
  <2>3. {m \in userArtists' : m[1] = r[2]} = {m \in userArtists : m[1] = r[2]}
    BY <1>2, <1>3, <2>1
  <2>4. QED
    BY <1>1, <2>2, <2>3 DEF TablesInv, AccountKeepsArtistThatExists
<1>14. QED
  BY <1>4, <1>5, <1>7, <1>8, <1>9, <1>10, <1>11, <1>12, <1>13
     DEF TablesInv

\* A new or reissued invitation has a code that nothing in the tables names
\* and an e-mail that no other invitation has.
LEMMA CommitInvitationTables ==
    ASSUME PgInv, NEW t \in Transactions, NEW i \in InvitationIDs,
           NEW e \in Emails, CommitInvitation(t, i, e),
           tx[t].artist \in ArtistIDs, tx[t].code \in Codes,
           FreshCode(tx[t].code),
           everUsed' \in [artists : SUBSET ArtistIDs, users : SUBSET UserIDs,
                          invitations : SUBSET InvitationIDs],
           everUsed'.artists = everUsed.artists,
           everUsed'.users = everUsed.users,
           everUsed'.invitations = everUsed.invitations \cup {i},
           \A j \in Rows(invitations) : j # i => invitations[j].email # e
    PROVE  TablesInv'
<1> DEFINE a == tx[t].artist
           c == tx[t].code
           new == NewInvitation(e, a, c)
<1>1. TablesInv /\ StoreTypeOK
  BY PartsOfPgInv DEF TablesInv
<1>2. /\ UNCHANGED <<artists, users, userArtists, revocations, redemptions,
                     clock>>
      /\ artists[a] # NoRow
      /\ invitations' = [invitations EXCEPT ![i] = new]
      /\ issued' = [issued EXCEPT ![c] = NewGrant(e, a)]
      /\ a \in ArtistIDs /\ c \in Codes /\ issued[c] = NoRow
  BY DEF CommitInvitation, FreshCode
<1> HIDE DEF a, c
<1>3. /\ new \in Invitation /\ new # NoRow
      /\ new.email = e /\ new.artist = a /\ new.code = c
      /\ new.accepted = FALSE
      /\ NewGrant(e, a) = [email |-> new.email, artist |-> new.artist,
                           expires |-> new.expires]
      /\ NewGrant(e, a) \in Grant
      /\ NewGrant(e, a).artist = a
      /\ NewGrant(e, a) # NoRow
  BY <1>1, <1>2, NewInvitationType DEF NewInvitation, NewGrant, StoreTypeOK
<1> HIDE DEF new
<1>4. StoreTypeOK'
  BY <1>1, <1>2, <1>3 DEF StoreTypeOK
<1>5. /\ Rows(invitations)' = Rows(invitations) \cup {i}
      /\ invitations'[i] = new
      /\ \A j \in Rows(invitations) : j # i => invitations'[j] = invitations[j]
  <2>1. Rows(invitations)' = {j \in InvitationIDs : invitations'[j] # NoRow}
    BY <1>4 DEF StoreTypeOK, Rows
  <2>2. QED
    BY <1>1, <1>2, <1>3, <2>1, RowsOfTables DEF StoreTypeOK
<1>6. /\ Rows(users)' = Rows(users) /\ Rows(artists)' = Rows(artists)
      /\ Known' = Known
  BY <1>2 DEF Rows, Known
<1>7. /\ issued'[c] = NewGrant(e, a)
      /\ \A d \in Codes : d # c => issued'[d] = issued[d]
      /\ \A d \in Codes : issued[d] # NoRow =>
            d # c /\ issued'[d] = issued[d]
  BY <1>1, <1>2 DEF StoreTypeOK
<1>8. IdsOfRowsAreUsed'
  BY <1>1, <1>5, <1>6 DEF TablesInv, IdsOfRowsAreUsed
<1>9. UniqueColumns'
  <2>1. \A j, k \in Rows(invitations)' :
           invitations'[j].email = invitations'[k].email => j = k
    BY <1>1, <1>3, <1>5 DEF TablesInv, UniqueColumns
  <2>2. QED
    BY <1>1, <1>2, <1>6, <2>1 DEF TablesInv, UniqueColumns
<1>10. ForeignKeysHold'
  BY <1>1, <1>2, <1>3, <1>5 DEF TablesInv, ForeignKeysHold
<1>11. RowsMatchGrants'
  <2> SUFFICES ASSUME NEW j \in Rows(invitations)'
               PROVE  issued'[invitations'[j].code] =
                         [email |-> invitations'[j].email,
                          artist |-> invitations'[j].artist,
                          expires |-> invitations'[j].expires]
    BY DEF RowsMatchGrants
  <2>1. CASE j = i
    BY <1>3, <1>5, <1>7, <2>1
  <2>2. CASE j # i
    <3>1. j \in Rows(invitations) /\ invitations'[j] = invitations[j]
      BY <1>5, <2>2
    <3>2. issued'[invitations[j].code] = issued[invitations[j].code]
      BY <1>1, <1>7, <3>1, RowsHaveGrants DEF TablesInv
    <3>3. QED
      BY <1>1, <3>1, <3>2 DEF TablesInv, RowsMatchGrants
  <2>3. QED
    BY <2>1, <2>2
<1>12. \A r \in redemptions :
          /\ r[1] \in Codes /\ r[1] # c /\ r[2] \in everUsed.users
          /\ issued[r[1]] # NoRow /\ issued'[r[1]] = issued[r[1]]
  BY <1>1, <1>7 DEF TablesInv, RedemptionsAreFinal, StoreTypeOK
<1>13. RedemptionsAreFinal'
  <2>1. ASSUME NEW r \in redemptions, NEW j \in InvitationsWithCode(r[1])'
        PROVE  invitations'[j].accepted
    <3>1. /\ j \in Rows(invitations)' /\ invitations'[j].code = r[1]
      BY DEF InvitationsWithCode
    <3>2. j # i
      BY <1>3, <1>5, <1>12, <3>1
    <3>3. j \in InvitationsWithCode(r[1]) /\ invitations'[j] = invitations[j]
      BY <1>5, <3>1, <3>2 DEF InvitationsWithCode
    <3>4. QED
      BY <1>1, <3>3 DEF TablesInv, RedemptionsAreFinal
  <2>2. QED
    BY <1>2, <1>12, <2>1 DEF RedemptionsAreFinal
<1>14. OnlyKnownAccounts'
  <2>1. a \in everUsed.artists
    BY <1>1, <1>2 DEF TablesInv, IdsOfRowsAreUsed, Rows, StoreTypeOK
  <2>2. ASSUME NEW d \in Codes, issued'[d] # NoRow
        PROVE  issued'[d].artist \in everUsed'.artists
    BY <1>1, <1>3, <1>7, <2>1, <2>2 DEF TablesInv, OnlyKnownAccounts
  <2>3. QED
    BY <1>1, <1>2, <1>6, <2>2 DEF TablesInv, OnlyKnownAccounts
<1>15. OneAccountPerCode' /\ DeletedAccountsAreRevoked'
  BY <1>1, <1>2 DEF TablesInv, OneAccountPerCode, DeletedAccountsAreRevoked
<1>16. AcceptedHasAccount'
  BY <1>1, <1>2, <1>3, <1>5, <1>6 DEF TablesInv, AcceptedHasAccount
<1>17. AccountKeepsArtistThatExists'
  BY <1>1, <1>2, <1>12 DEF TablesInv, AccountKeepsArtistThatExists
<1>18. QED
  BY <1>4, <1>8, <1>9, <1>10, <1>11, <1>13, <1>14, <1>15, <1>16, <1>17
     DEF TablesInv

\* What holds when a registration commits: its invitation is locked and has
\* stayed as it was read, its id and its e-mail are nobody's.
LEMMA AtAcceptance ==
    ASSUME PgInv, NEW t \in Transactions, At(t, "redeem", "update")
    PROVE  /\ tx[t].inv \in Rows(invitations)
           /\ tx[t].inv \in tx[t].invs
           /\ invitations[tx[t].inv].code = tx[t].code
           /\ invitations[tx[t].inv].email = tx[t].email
           /\ invitations[tx[t].inv].artist = tx[t].artist
           /\ ~invitations[tx[t].inv].accepted
           /\ ~invitations[tx[t].inv].revoked
           /\ tx[t].email \in Emails /\ tx[t].artist \in ArtistIDs
           /\ tx[t].code \in Codes
           /\ tx[t].user \in UserIDs
           /\ tx[t].user \in everUsed.users \ Known
           /\ \A v \in Rows(users) : users[v] # tx[t].email
<1>1. /\ TablesInv /\ StoreTypeOK /\ LocksExclude
      /\ tx[t] \in Transaction
      /\ RedeemJob(tx[t])
  BY PartsOfPgInv, TxFields DEF At, Jobs, Job, TablesInv
<1>2. /\ tx[t].inv \in InvitationIDs
      /\ tx[t].invs = {tx[t].inv}
      /\ tx[t].code \in Codes
      /\ issued[tx[t].code] # NoRow
      /\ tx[t].email = issued[tx[t].code].email
      /\ tx[t].artist = issued[tx[t].code].artist
      /\ invitations[tx[t].inv].code = tx[t].code
      /\ ~invitations[tx[t].inv].accepted
      /\ ~invitations[tx[t].inv].revoked
      /\ tx[t].user \in everUsed.users \ Known
      /\ \A v \in Rows(users) : users[v] # tx[t].email
  BY <1>1 DEF RedeemJob, At
<1>3. tx[t].inv \in Rows(invitations)
  BY <1>1, <1>2, RowsOfTables DEF LocksExclude
<1>4. /\ tx[t].email \in Emails /\ tx[t].artist \in ArtistIDs
      /\ tx[t].user \in UserIDs
  BY <1>1, <1>2, FieldTypes DEF StoreTypeOK
<1>5. /\ invitations[tx[t].inv].email = tx[t].email
      /\ invitations[tx[t].inv].artist = tx[t].artist
  BY <1>1, <1>2, <1>3, RowsHaveGrants DEF TablesInv
<1>6. QED
  BY <1>2, <1>3, <1>4, <1>5

LEMMA AcceptInvitationTables ==
    ASSUME PgInv, NEW t \in Transactions, AcceptInvitation(t)
    PROVE  TablesInv'
<1> DEFINE i == tx[t].inv
           u == tx[t].user
           e == tx[t].email
           a == tx[t].artist
           c == tx[t].code
<1>1. TablesInv /\ StoreTypeOK
  BY PartsOfPgInv DEF TablesInv
<1>2. /\ i \in Rows(invitations) /\ i \in InvitationIDs
      /\ invitations[i] \in Invitation
      /\ invitations[i].code = c /\ invitations[i].email = e
      /\ invitations[i].artist = a
      /\ ~invitations[i].accepted
      /\ e \in Emails /\ a \in ArtistIDs /\ c \in Codes /\ u \in UserIDs
      /\ u \in everUsed.users /\ u \notin Known
      /\ \A v \in Rows(users) : users[v] # e
  BY <1>1, AtAcceptance, RowsOfTables DEF AcceptInvitation
<1>3. /\ UNCHANGED <<artists, revocations, everUsed, issued, clock>>
      /\ users' = [users EXCEPT ![u] = e]
      /\ userArtists' = userArtists \cup {<<u, a>>}
      /\ invitations' = [invitations EXCEPT ![i].accepted = TRUE]
      /\ redemptions' = redemptions \cup {<<c, u>>}
      /\ artists[a] # NoRow
  BY DEF AcceptInvitation
<1> HIDE DEF i, u, e, a, c
<1>4. /\ invitations'[i] = [invitations[i] EXCEPT !.accepted = TRUE]
      /\ \A j \in Rows(invitations) : j # i => invitations'[j] = invitations[j]
      /\ invitations'[i] \in Invitation
      /\ invitations'[i].email = e /\ invitations'[i].artist = a
      /\ invitations'[i].code = c /\ invitations'[i].accepted
      /\ invitations'[i].expires = invitations[i].expires
  BY <1>1, <1>2, <1>3, RowsOfTables DEF StoreTypeOK, Invitation
<1>5. StoreTypeOK'
  BY <1>1, <1>2, <1>3, <1>4 DEF StoreTypeOK
<1>6. /\ Rows(invitations)' = Rows(invitations)
      /\ \A j \in Rows(invitations) :
            /\ invitations'[j].email = invitations[j].email
            /\ invitations'[j].artist = invitations[j].artist
            /\ invitations'[j].code = invitations[j].code
            /\ invitations'[j].expires = invitations[j].expires
            /\ invitations[j].accepted => invitations'[j].accepted
  <2>1. Rows(invitations)' = {j \in InvitationIDs : invitations'[j] # NoRow}
    BY <1>5 DEF StoreTypeOK, Rows
  <2>2. invitations'[i] # NoRow
    BY <1>4
  <2>3. \A j \in InvitationIDs : j # i => invitations'[j] = invitations[j]
    BY <1>1, <1>3 DEF StoreTypeOK
  <2>4. Rows(invitations)' = Rows(invitations)
    BY <1>1, <1>2, <2>1, <2>2, <2>3, RowsOfTables
  <2>5. QED
    BY <1>2, <1>4, <2>4
<1>7. /\ u \notin Rows(users)
      /\ Rows(users)' = Rows(users) \cup {u}
      /\ users'[u] = e
      /\ \A v \in UserIDs : v # u => users'[v] = users[v]
      /\ Known' = Known \cup {u}
      /\ Rows(artists)' = Rows(artists)
  <2>1. u \notin Rows(users)
    BY <1>1, <1>2 DEF TablesInv, OnlyKnownAccounts
  <2>2. /\ users'[u] = e
        /\ \A v \in UserIDs : v # u => users'[v] = users[v]
    BY <1>1, <1>2, <1>3 DEF StoreTypeOK
  <2>3. Rows(users)' = {v \in UserIDs : users'[v] # NoRow}
    BY <1>5 DEF StoreTypeOK, Rows
  <2>4. Rows(users)' = Rows(users) \cup {u}
    BY <1>1, <1>2, <2>2, <2>3, RowsOfTables
  <2>5. Known' = Known \cup {u}
    <3>1. <<c, u>>[2] = u
      OBVIOUS
    <3>2. \A x : x \in Known' <=> \E r \in redemptions' : x = r[2]
      BY DEF Known
    <3>3. \A x : x \in Known <=> \E r \in redemptions : x = r[2]
      BY DEF Known
    <3>4. \A r : r \in redemptions' <=> r \in redemptions \/ r = <<c, u>>
      BY <1>3
    <3>5. ASSUME NEW x \in Known' PROVE x \in Known \cup {u}
      BY <3>1, <3>2, <3>3, <3>4, <3>5
    <3>6. ASSUME NEW x \in Known \cup {u} PROVE x \in Known'
      <4>1. CASE x = u
        BY <3>1, <3>2, <3>4, <4>1
      <4>2. CASE x \in Known
        BY <3>2, <3>3, <3>4, <4>2
      <4>3. QED
        BY <3>6, <4>1, <4>2
    <3>7. QED
      BY <3>5, <3>6
  <2>6. Rows(artists)' = Rows(artists)
    BY <1>3 DEF Rows
  <2>7. QED
    BY <2>1, <2>2, <2>4, <2>5, <2>6
<1>8. \A r \in redemptions :
         /\ r[1] \in Codes /\ r[2] \in UserIDs
         /\ r[2] \in Known /\ r[2] # u /\ r[1] # c
  <2>1. ASSUME NEW r \in redemptions PROVE r[1] # c
    BY <1>1, <1>2 DEF TablesInv, RedemptionsAreFinal, InvitationsWithCode
  <2>2. QED
    BY <1>1, <1>2, <2>1 DEF StoreTypeOK, Known
<1>9. \A m \in userArtists : m[1] \in UserIDs /\ m[2] \in ArtistIDs /\ m[1] # u
  BY <1>1, <1>7, RowsOfTables DEF TablesInv, ForeignKeysHold, StoreTypeOK
<1>10. IdsOfRowsAreUsed'
  BY <1>1, <1>2, <1>3, <1>6, <1>7 DEF TablesInv, IdsOfRowsAreUsed
<1>11. UniqueColumns'
  <2>1. \A v, w \in Rows(users)' : users'[v] = users'[w] => v = w
    <3>1. \A v \in Rows(users) : users'[v] = users[v] /\ users'[v] # e
      BY <1>1, <1>2, <1>7, RowsOfTables
    <3>2. QED
      BY <1>1, <1>7, <3>1 DEF TablesInv, UniqueColumns
  <2>2. QED
    BY <1>1, <1>6, <2>1 DEF TablesInv, UniqueColumns
<1>12. ForeignKeysHold'
  <2>1. \A m \in userArtists' : users'[m[1]] # NoRow /\ artists[m[2]] # NoRow
    <3>1. \A m \in userArtists : users'[m[1]] # NoRow /\ artists[m[2]] # NoRow
      BY <1>1, <1>7, <1>9 DEF TablesInv, ForeignKeysHold
    <3>2. users'[u] # NoRow
      BY <1>2, <1>7
    <3>3. QED
      BY <1>3, <3>1, <3>2
  <2>2. QED
    BY <1>1, <1>3, <1>6, <2>1 DEF TablesInv, ForeignKeysHold
<1>13. RowsMatchGrants'
  BY <1>1, <1>3, <1>6 DEF TablesInv, RowsMatchGrants
<1>14. RedemptionsAreFinal'
  <2>1. ASSUME NEW r \in redemptions', NEW j \in InvitationsWithCode(r[1])'
        PROVE  invitations'[j].accepted
    <3>1. /\ j \in Rows(invitations) /\ invitations[j].code = r[1]
      BY <1>6 DEF InvitationsWithCode
    <3>2. CASE j = i
      BY <1>4, <3>2
    <3>3. CASE j # i
      <4>1. issued[invitations[j].code] = issued[c] => j = i
        BY <1>1, <1>2, <3>1, RowsHaveGrants DEF TablesInv, UniqueColumns
      <4>2. r \in redemptions
        BY <1>3, <3>1, <3>3, <4>1
      <4>3. invitations[j].accepted
        BY <1>1, <3>1, <4>2
           DEF TablesInv, RedemptionsAreFinal, InvitationsWithCode
      <4>4. QED
        BY <1>6, <3>1, <4>3
    <3>4. QED
      BY <3>2, <3>3
  <2>2. issued[c] # NoRow
    BY <1>1, <1>2, RowsHaveGrants DEF TablesInv
  <2>3. QED
    BY <1>1, <1>2, <1>3, <2>1, <2>2 DEF TablesInv, RedemptionsAreFinal
<1>15. OneAccountPerCode'
  BY <1>1, <1>3, <1>8 DEF TablesInv, OneAccountPerCode
<1>16. OnlyKnownAccounts' /\ DeletedAccountsAreRevoked'
  <2>1. u \notin revocations /\ users'[u] # NoRow
    BY <1>1, <1>2, <1>7 DEF TablesInv, OnlyKnownAccounts
  <2>2. OnlyKnownAccounts'
    BY <1>1, <1>3, <1>7 DEF TablesInv, OnlyKnownAccounts
  <2>3. ASSUME NEW r \in redemptions'
        PROVE  users'[r[2]] = NoRow <=> r[2] \in revocations
    <3>1. CASE r \in redemptions
      BY <1>1, <1>7, <1>8, <3>1 DEF TablesInv, DeletedAccountsAreRevoked
    <3>2. CASE r = <<c, u>>
      BY <2>1, <3>2
    <3>3. QED
      BY <1>3, <3>1, <3>2
  <2>4. QED
    BY <1>3, <2>2, <2>3 DEF DeletedAccountsAreRevoked
<1>17. AcceptedHasAccount'
  <2> SUFFICES ASSUME NEW j \in Rows(invitations)', invitations'[j].accepted
               PROVE  \E v \in Rows(users)' :
                          users'[v] = invitations'[j].email
    BY DEF AcceptedHasAccount
  <2>1. CASE j = i
    BY <1>4, <1>7, <2>1
  <2>2. CASE j # i
    <3>1. /\ j \in Rows(invitations) /\ invitations'[j] = invitations[j]
      BY <1>4, <1>6, <2>2
    <3>2. PICK v \in Rows(users) : users[v] = invitations[j].email
      BY <1>1, <3>1 DEF TablesInv, AcceptedHasAccount
    <3>3. users'[v] = users[v]
      BY <1>1, <1>7, RowsOfTables
    <3>4. QED
      BY <1>7, <3>1, <3>2, <3>3
  <2>3. QED
    BY <2>1, <2>2
<1>18. AccountKeepsArtistThatExists'
  <2> SUFFICES ASSUME NEW r \in redemptions', users'[r[2]] # NoRow
               PROVE  LET own == issued[r[1]].artist
                          member == {m \in userArtists' : m[1] = r[2]} IN
                      \/ member = {<<r[2], own>>}
                      \/ member = {} /\ artists[own] = NoRow
    BY <1>3 DEF AccountKeepsArtistThatExists
  <2>1. CASE r \in redemptions
    <3>1. users[r[2]] # NoRow
      BY <1>7, <1>8, <2>1
    <3>2. {m \in userArtists' : m[1] = r[2]} =
             {m \in userArtists : m[1] = r[2]}
      BY <1>3, <1>8, <2>1
    <3>3. QED
      BY <1>1, <2>1, <3>1, <3>2 DEF TablesInv, AccountKeepsArtistThatExists
  <2>2. CASE r = <<c, u>>
    <3>1. {m \in userArtists' : m[1] = u} = {<<u, a>>}
      BY <1>3, <1>9
    <3>2. issued[c].artist = a
      BY <1>1, <1>2, RowsHaveGrants DEF TablesInv
    <3>3. QED
      BY <2>2, <3>1, <3>2
  <2>3. QED
    BY <1>3, <2>1, <2>2
<1>19. QED
  BY <1>5, <1>10, <1>11, <1>12, <1>13, <1>14, <1>15, <1>16, <1>17, <1>18
     DEF TablesInv

-----------------------------------------------------------------------------
(* The steps that change the tables. *)

LEMMA LockedRows ==
    ASSUME PgInv, NEW o \in Transactions, NEW i \in tx[o].invs
    PROVE  i \in Rows(invitations) /\ i \in InvitationIDs
  BY TxFields, PartsOfPgInv, RowsOfTables DEF LocksExclude, TablesInv

LEMMA PgCreateArtistInv ==
    ASSUME PgInv, NEW a \in ArtistIDs, NEW slug \in Slugs,
           PgCreateArtist(a, slug)
    PROVE  PgInv'
<1>1. /\ TablesInv' /\ StoreTypeOK
      /\ UNCHANGED <<tx, users, invitations, issued, redemptions, clock>>
      /\ everUsed'.users = everUsed.users
  BY PartsOfPgInv, CreateArtistTables
     DEF PgCreateArtist, CreateArtist, TablesInv, StoreTypeOK
<1>2. Grows
  BY <1>1 DEF Grows, Known, StoreTypeOK
<1>3. QED
  BY <1>1, <1>2, AccountsUntouched, LoneStep

LEMMA PgTickInv == PgInv /\ PgTick => PgInv'
<1> SUFFICES ASSUME PgInv, PgTick PROVE PgInv'
  OBVIOUS
<1>1. /\ TablesInv' /\ StoreTypeOK
      /\ UNCHANGED <<tx, users, invitations, issued, redemptions, everUsed>>
      /\ clock' = clock + 1
  BY PartsOfPgInv, TickTables DEF PgTick, Tick, tables, TablesInv
<1>2. Grows
  BY <1>1 DEF Grows, Known, StoreTypeOK
<1>3. QED
  BY <1>1, <1>2, AccountsUntouched, LoneStep

LEMMA PgRevokeInvitationInv ==
    ASSUME PgInv, NEW t \in Transactions, NEW i \in InvitationIDs,
           PgRevokeInvitation(t, i)
    PROVE  PgInv'
<1>1. /\ TablesInv' /\ StoreTypeOK
      /\ UNCHANGED <<tx, users, issued, redemptions, everUsed, clock>>
      /\ \A j \in InvitationIDs : j # i => invitations'[j] = invitations[j]
  BY PartsOfPgInv, RevokeInvitationTables
     DEF PgRevokeInvitation, RevokeInvitation, TablesInv, StoreTypeOK
<1>2. Grows
  BY <1>1 DEF Grows, Known, StoreTypeOK
<1>3. \A o \in Transactions : i \notin tx[o].invs
  <2>1. tx[t].invs = {}
    BY DEF PgRevokeInvitation, Idle
  <2>2. QED
    BY <2>1 DEF PgRevokeInvitation, FreeInvitations, Others
<1>4. ASSUME NEW o \in Transactions PROVE Undisturbed(o)
  <2>1. \A j \in tx[o].invs : invitations'[j] = invitations[j]
    BY <1>1, <1>3, LockedRows
  <2>2. QED
    BY <1>1, <2>1, AccountsUntouched
<1>5. QED
  BY <1>1, <1>2, <1>4, LoneStep

LEMMA DeleteArtistRowInv ==
    ASSUME PgInv, NEW t \in Transactions, DeleteArtistRow(t)
    PROVE  PgInv'
<1>1. TablesInv' /\ StoreTypeOK
  BY PartsOfPgInv, DeleteArtistRowTables DEF TablesInv
<1>2. /\ Ends(t)
      /\ UNCHANGED <<users, issued, redemptions, everUsed, clock>>
      /\ \A i \in InvitationIDs :
            i \notin tx[t].invs => invitations'[i] = invitations[i]
  BY DEF DeleteArtistRow
<1>3. Grows
  BY <1>1, <1>2 DEF Grows, Known, StoreTypeOK
<1>4. ASSUME NEW o \in Others(t) PROVE Undisturbed(o)
  <2>1. o \in Transactions /\ tx[t].invs \cap tx[o].invs = {}
    BY DEF Others, PgInv, LocksExclude, FreeInvitations
  <2>2. \A i \in tx[o].invs : invitations'[i] = invitations[i]
    BY <1>2, <2>1, LockedRows
  <2>3. QED
    BY <1>2, <2>1, <2>2, AccountsUntouched
<1>5. QED
  BY <1>1, <1>2, <1>3, <1>4, CommitStep

\* A commit of one invitation row that nobody else has locked, under a code
\* that nobody else has drawn.
LEMMA CommitInvitationInv ==
    ASSUME PgInv, NEW t \in Transactions, NEW i \in InvitationIDs,
           NEW e \in Emails, CommitInvitation(t, i, e), TablesInv',
           tx[t].op \in {"invite", "reissue"},
           \A o \in Others(t) : i \notin tx[o].invs,
           everUsed'.users = everUsed.users
    PROVE  PgInv'
<1>1. StoreTypeOK
  BY PartsOfPgInv DEF TablesInv
<1>2. /\ Ends(t)
      /\ UNCHANGED <<users, redemptions, clock>>
      /\ \A j \in InvitationIDs : j # i => invitations'[j] = invitations[j]
      /\ \A d \in Codes : d # tx[t].code => issued'[d] = issued[d]
  BY <1>1 DEF CommitInvitation, StoreTypeOK
<1>3. Grows
  BY <1>1, <1>2 DEF Grows, Known, StoreTypeOK
<1>4. ASSUME NEW o \in Others(t) PROVE Undisturbed(o)
  <2>1. o \in Transactions /\ tx[o].code # tx[t].code
    BY DEF Others, PgInv, LocksExclude
  <2>2. \A j \in tx[o].invs : invitations'[j] = invitations[j]
    BY <1>2, <2>1, LockedRows
  <2>3. QED
    BY <1>2, <2>1, <2>2, AccountsUntouched
<1>5. QED
  BY <1>2, <1>3, <1>4, CommitStep

LEMMA InsertInvitationInv ==
    ASSUME PgInv, NEW t \in Transactions, NEW i \in InvitationIDs,
           InsertInvitation(t, i)
    PROVE  PgInv'
<1>1. /\ TablesInv /\ StoreTypeOK
      /\ InviteJob(tx[t]) /\ tx[t].op = "invite"
  BY PartsOfPgInv DEF InsertInvitation, At, Jobs, Job, TablesInv
<1>2. /\ tx[t].artist \in ArtistIDs /\ tx[t].email \in Emails
      /\ tx[t].code \in Codes /\ FreshCode(tx[t].code)
  BY <1>1 DEF InviteJob
<1>3. /\ CommitInvitation(t, i, tx[t].email)
      /\ everUsed' = [everUsed EXCEPT !.invitations = @ \cup {i}]
      /\ \A j \in Rows(invitations) : invitations[j].email # tx[t].email
      /\ i \notin Rows(invitations)
  BY <1>1 DEF InsertInvitation, NotInvited, NewInvitationID, TablesInv,
     IdsOfRowsAreUsed
<1>4. /\ everUsed' \in [artists : SUBSET ArtistIDs, users : SUBSET UserIDs,
                        invitations : SUBSET InvitationIDs]
      /\ everUsed'.artists = everUsed.artists
      /\ everUsed'.users = everUsed.users
      /\ everUsed'.invitations = everUsed.invitations \cup {i}
  BY <1>1, <1>3 DEF StoreTypeOK
<1>5. TablesInv'
  BY <1>2, <1>3, <1>4, CommitInvitationTables
<1>6. \A o \in Others(t) : i \notin tx[o].invs
  BY <1>3, LockedRows DEF Others
<1>7. QED
  BY <1>1, <1>2, <1>3, <1>4, <1>5, <1>6, CommitInvitationInv

LEMMA UpdateReissuedInv ==
    ASSUME PgInv, NEW t \in Transactions, UpdateReissued(t)
    PROVE  PgInv'
<1> DEFINE i == tx[t].inv
<1>1. /\ TablesInv /\ StoreTypeOK /\ LocksExclude
      /\ ReissueJob(tx[t]) /\ tx[t].op = "reissue" /\ tx[t].at = "update"
  BY PartsOfPgInv DEF UpdateReissued, At, Jobs, Job, TablesInv
<1>2. /\ tx[t].artist \in ArtistIDs /\ i \in InvitationIDs
      /\ tx[t].invs = {i}
      /\ tx[t].code \in Codes /\ FreshCode(tx[t].code)
  BY <1>1 DEF ReissueJob
<1>3. /\ i \in Rows(invitations)
      /\ invitations[i].email \in Emails
      /\ i \in everUsed.invitations
      /\ \A j \in Rows(invitations) :
            j # i => invitations[j].email # invitations[i].email
  BY <1>1, <1>2, LockedRows, FieldTypes
     DEF TablesInv, UniqueColumns, IdsOfRowsAreUsed
<1>4. /\ CommitInvitation(t, i, invitations[i].email)
      /\ everUsed' = everUsed
  BY DEF UpdateReissued
<1> HIDE DEF i
<1>5. everUsed'.invitations = everUsed.invitations \cup {i}
  BY <1>3, <1>4
<1>6. TablesInv'
  BY <1>1, <1>2, <1>3, <1>4, <1>5, CommitInvitationTables DEF StoreTypeOK
<1>7. \A o \in Others(t) : i \notin tx[o].invs
  BY <1>1, <1>2 DEF LocksExclude, FreeInvitations
<1>8. QED
  BY <1>1, <1>2, <1>3, <1>4, <1>6, <1>7, CommitInvitationInv

\* A user's id and e-mail are the transaction's own until it ends.
LEMMA InsertUserInv ==
    ASSUME PgInv, NEW t \in Transactions, NEW u \in UserIDs, InsertUser(t, u)
    PROVE  PgInv'
<1> DEFINE new == [tx[t] EXCEPT !.at = "update", !.user = u]
<1>1. /\ TablesInv /\ StoreTypeOK /\ TxType /\ LocksExclude
      /\ tx[t] \in Transaction
      /\ RedeemJob(tx[t]) /\ tx[t].op = "redeem" /\ tx[t].at = "user"
  BY PartsOfPgInv, TxFields DEF InsertUser, At, Jobs, Job, TablesInv
<1>2. /\ Runs(t, new)
      /\ u \notin everUsed.users
      /\ everUsed' = [everUsed EXCEPT !.users = @ \cup {u}]
      /\ \A v \in Rows(users) : users[v] # tx[t].email
      /\ \A o \in Others(t) : At(o, "redeem", "update") =>
             tx[o].email # tx[t].email
      /\ UNCHANGED <<artists, users, userArtists, invitations, revocations,
                     issued, redemptions, clock>>
  BY DEF InsertUser, NewUserID, HoldsEmail
<1>3. /\ new \in Transaction
      /\ new.op = "redeem" /\ new.at = "update" /\ new.user = u
      /\ new.inv = tx[t].inv /\ new.artist = tx[t].artist
      /\ new.email = tx[t].email /\ new.code = tx[t].code
      /\ new.invs = tx[t].invs /\ new.members = tx[t].members
  BY <1>1 DEF Transaction, Stages
<1> HIDE DEF new
<1>4. everUsed'.users = everUsed.users \cup {u}
  BY <1>1, <1>2 DEF StoreTypeOK
<1>5. TablesInv'
  BY <1>1, <1>2, DrawnIdTables
<1>6. /\ TxType'
      /\ tx'[t] = new
      /\ \A o \in Others(t) : tx'[o] = tx[o]
  BY <1>1, <1>2, <1>3 DEF TxType, Runs, Others
<1>7. /\ Known' = Known /\ Rows(users)' = Rows(users)
      /\ Known \subseteq everUsed.users
  BY <1>1, <1>2
     DEF Known, Rows, TablesInv, RedemptionsAreFinal
<1>8. Grows
  BY <1>1, <1>2, <1>4, <1>7 DEF Grows, StoreTypeOK
<1>9. Jobs'
  <2>1. ASSUME NEW o \in Others(t) PROVE Job(tx[o])'
    BY <1>2, <1>6, <1>8, AccountsUntouched, UndisturbedJob DEF Others
  <2>2. RedeemJob(tx[t])'
    BY <1>1, <1>2, <1>3, <1>4, <1>6, <1>7 DEF RedeemJob
  <2>3. Job(tx[t])'
    BY <1>3, <1>6, <2>2 DEF Job
  <2>4. QED
    BY <2>1, <2>3 DEF Jobs, Others
<1>10. LocksExclude'
  <2>1. ASSUME NEW o \in Transactions, At(o, "redeem", "update")
        PROVE  tx[o].user # u
    BY <1>2, <2>1, AtAcceptance
  <2>2. ASSUME NEW s \in Transactions
        PROVE  /\ \A i \in tx'[s].invs : invitations[i] # NoRow
               /\ \A o \in Others(s) : tx'[s].invs \cap tx'[o].invs = {}
               /\ tx'[s].op \in {"invite", "reissue"} =>
                     \A o \in Others(s) : tx'[o].code # tx'[s].code
               /\ At(s, "redeem", "update")' =>
                     \A o \in Others(s) : At(o, "redeem", "update")' =>
                         /\ tx'[o].user # tx'[s].user
                         /\ tx'[o].email # tx'[s].email
    <3>1. CASE s = t
      BY <1>1, <1>2, <1>3, <1>6, <2>1, <3>1
         DEF LocksExclude, FreeInvitations, At, Others
    <3>2. CASE s # t
      BY <1>1, <1>2, <1>3, <1>6, <2>1, <3>2
         DEF LocksExclude, FreeInvitations, At, Others
    <3>3. QED
      BY <3>1, <3>2
  <2>3. QED
    BY <1>2, <2>2 DEF LocksExclude, FreeInvitations, Others
<1>11. QED
  BY <1>5, <1>6, <1>9, <1>10 DEF PgInv, TablesInv, TxType, Jobs, PgTypeOK

LEMMA AcceptInvitationInv ==
    ASSUME PgInv, NEW t \in Transactions, AcceptInvitation(t)
    PROVE  PgInv'
<1> DEFINE i == tx[t].inv
           u == tx[t].user
           e == tx[t].email
<1>1. TablesInv' /\ StoreTypeOK
  BY PartsOfPgInv, AcceptInvitationTables DEF TablesInv
<1>2. /\ At(t, "redeem", "update")
      /\ i \in tx[t].invs /\ u \in UserIDs /\ u \notin Known
      /\ u \notin Rows(users)
  BY AtAcceptance, PartsOfPgInv
     DEF AcceptInvitation, TablesInv, OnlyKnownAccounts
<1>3. /\ Ends(t)
      /\ UNCHANGED <<issued, everUsed, clock>>
      /\ \A j \in InvitationIDs : j # i => invitations'[j] = invitations[j]
      /\ users' = [users EXCEPT ![u] = e]
      /\ redemptions' = redemptions \cup {<<tx[t].code, u>>}
  BY <1>1 DEF AcceptInvitation, StoreTypeOK
<1> HIDE DEF i, u, e
<1>4. /\ \A x : x \in Known' => x \in Known \/ x = u
      /\ Known \subseteq Known'
  BY <1>3 DEF Known
<1>5. /\ users'[u] = e
      /\ \A v \in UserIDs : v # u => users'[v] = users[v]
      /\ \A v \in Rows(users)' : v = u \/ v \in Rows(users)
  BY <1>1, <1>2, <1>3 DEF StoreTypeOK, Rows
<1>6. Grows
  BY <1>1, <1>3, <1>4 DEF Grows, StoreTypeOK
<1>7. ASSUME NEW o \in Others(t) PROVE Undisturbed(o)
  <2>1. /\ o \in Transactions /\ tx[t].invs \cap tx[o].invs = {}
        /\ At(o, "redeem", "update") => tx[o].user # u /\ tx[o].email # e
    BY <1>2 DEF Others, PgInv, LocksExclude, FreeInvitations, u, e
  <2>2. \A j \in tx[o].invs : invitations'[j] = invitations[j]
    BY <1>2, <1>3, <2>1, LockedRows
  <2>3. ASSUME At(o, "redeem", "update")
        PROVE  /\ tx[o].user \notin Known'
               /\ \A v \in Rows(users)' : users'[v] # tx[o].email
    <3>1. /\ tx[o].user \notin Known
          /\ \A v \in Rows(users) : users[v] # tx[o].email
      BY <2>1, <2>3, AtAcceptance
    <3>2. tx[o].user \notin Known'
      BY <1>4, <2>1, <2>3, <3>1
    <3>3. ASSUME NEW v \in Rows(users)' PROVE users'[v] # tx[o].email
      BY <1>1, <1>5, <2>1, <2>3, <3>1, RowsOfTables
    <3>4. QED
      BY <3>2, <3>3
  <2>4. ASSUME tx[o].op = "delete user"
        PROVE  users'[tx[o].user] = users[tx[o].user]
    <3>1. tx[o].user \in Known
      BY <2>1, <2>4, PartsOfPgInv DEF Jobs, Job, DeleteUserJob
    <3>2. tx[o].user \in UserIDs
      BY <1>1, <3>1 DEF Known, StoreTypeOK
    <3>3. QED
      BY <1>2, <1>5, <3>1, <3>2
  <2>5. QED
    BY <1>3, <2>2, <2>3, <2>4 DEF Undisturbed
<1>8. QED
  BY <1>1, <1>3, <1>6, <1>7, CommitStep

LEMMA DeleteUserRowsInv ==
    ASSUME PgInv, NEW t \in Transactions, DeleteUserRows(t)
    PROVE  PgInv'
<1> DEFINE u == tx[t].user
           rows == UserInvitations(tx[t].email)
<1>1. TablesInv' /\ StoreTypeOK
  BY PartsOfPgInv, DeleteUserRowsTables DEF TablesInv
<1>2. /\ Ends(t)
      /\ UNCHANGED <<issued, redemptions, everUsed, clock>>
      /\ FreeInvitations(t, rows)
      /\ \A i \in InvitationIDs :
            i \notin rows => invitations'[i] = invitations[i]
      /\ users' = [users EXCEPT ![u] = NoRow]
  BY DEF DeleteUserRows
<1> HIDE DEF u, rows
<1>3. Known' = Known
  BY <1>2 DEF Known
<1>4. /\ \A v \in UserIDs : users'[v] \in {users[v], NoRow}
      /\ \A v \in Rows(users)' : v \in Rows(users) /\ users'[v] = users[v]
  BY <1>1, <1>2 DEF StoreTypeOK, Rows
<1>5. Grows
  BY <1>1, <1>2, <1>3 DEF Grows, StoreTypeOK
<1>6. ASSUME NEW o \in Others(t) PROVE Undisturbed(o)
  <2>1. o \in Transactions /\ rows \cap tx[o].invs = {}
    BY <1>2 DEF Others, FreeInvitations
  <2>2. \A i \in tx[o].invs : invitations'[i] = invitations[i]
    BY <1>2, <2>1, LockedRows
  <2>3. At(o, "redeem", "update") =>
            /\ tx[o].user \notin Known'
            /\ \A v \in Rows(users)' : users'[v] # tx[o].email
    BY <1>3, <1>4, <2>1, AtAcceptance
  <2>4. ASSUME tx[o].op = "delete user"
        PROVE  users'[tx[o].user] \in {users[tx[o].user], NoRow}
    <3>1. tx[o].user \in Known
      BY <2>1, <2>4, PartsOfPgInv DEF Jobs, Job, DeleteUserJob
    <3>2. tx[o].user \in UserIDs
      BY <1>1, <3>1 DEF Known, StoreTypeOK
    <3>3. QED
      BY <1>4, <3>2
  <2>5. QED
    BY <1>2, <2>2, <2>3, <2>4 DEF Undisturbed
<1>7. QED
  BY <1>1, <1>2, <1>5, <1>6, CommitStep

-----------------------------------------------------------------------------
(* Every reachable state, whatever the order of the statements. *)

LEMMA PgInvInit == PgInit => PgInv
<1> SUFFICES ASSUME PgInit PROVE PgInv
  OBVIOUS
<1>1. StoreInit /\ tx = [t \in Transactions |-> Idle]
  BY DEF PgInit
<1>2. StoreTypeOK
  BY <1>1, StoreTypeInit
<1>3. /\ Rows(artists) = {} /\ Rows(users) = {} /\ Rows(invitations) = {}
      /\ redemptions = {} /\ revocations = {} /\ userArtists = {}
      /\ \A c \in Codes : issued[c] = NoRow
  BY <1>1, <1>2, RowsOfTables DEF StoreInit
<1>4. TablesInv
  BY <1>2, <1>3 DEF TablesInv, IdsOfRowsAreUsed, UniqueColumns,
     ForeignKeysHold, RowsMatchGrants, RedemptionsAreFinal,
     OneAccountPerCode, OnlyKnownAccounts, AcceptedHasAccount,
     AccountKeepsArtistThatExists, DeletedAccountsAreRevoked
<1>5. TxType /\ Jobs
  BY <1>1, IdleIsWell DEF TxType, Jobs
<1>6. LocksExclude
  <2>1. Idle.invs = {} /\ Idle.op = "idle"
    BY DEF Idle
  <2>2. QED
    BY <1>1, <2>1 DEF LocksExclude, FreeInvitations, At, Others
<1>7. QED
  BY <1>4, <1>5, <1>6, PartsOfPgInv

LEMMA PgInvStep == PgInv /\ [PgNext]_pgVars => PgInv'
<1> SUFFICES ASSUME PgInv, [PgNext]_pgVars PROVE PgInv'
  OBVIOUS
<1>1. ASSUME NEW t \in Transactions, DeleteArtistStep(t) PROVE PgInv'
  BY <1>1, BeginDeleteArtistInv, CountAdminsInv, DeleteArtistInvitationsInv,
     DeleteArtistMembersInv, LockArtistRowInv, DeleteArtistRowInv
     DEF DeleteArtistStep
<1>2. ASSUME NEW t \in Transactions, InvitationStep(t) PROVE PgInv'
  BY <1>2, BeginInviteInv, ReadForInviteInv, InsertInvitationInv,
     BeginReissueInv, LockForReissueInv, UpdateReissuedInv,
     PgRevokeInvitationInv DEF InvitationStep
<1>3. ASSUME NEW t \in Transactions, UserStep(t) PROVE PgInv'
  BY <1>3, BeginRedeemInv, LockForRedeemInv, InsertUserInv,
     AcceptInvitationInv, BeginDeleteUserInv, InsertRevocationInv,
     DeleteUserMembersInv, DeleteUserRowsInv DEF UserStep
<1>4. CASE UNCHANGED pgVars
  <2>1. UNCHANGED storeVars /\ UNCHANGED tx
    BY <1>4 DEF pgVars
  <2>2. /\ TablesInv' /\ StoreTypeOK
        /\ UNCHANGED <<users, invitations, issued, redemptions, everUsed,
                       clock>>
    BY <2>1, PartsOfPgInv, SameTables DEF TablesInv, storeVars, tables
  <2>3. Grows
    BY <2>2 DEF Grows, Known, StoreTypeOK
  <2>4. QED
    BY <2>1, <2>2, <2>3, AccountsUntouched, LoneStep
<1>5. QED
  BY <1>1, <1>2, <1>3, <1>4, AbortInv, PgCreateArtistInv, PgTickInv
     DEF PgNext

\* The inductive invariant of any number of interleaved transactions.
THEOREM PgInvariant == PgSpec => []PgInv
  BY PgInvInit, PgInvStep, PTL DEF PgSpec

\* Tables and open transactions are well formed.
THEOREM PgTypeCorrect == PgSpec => []PgTypeOK
<1>1. PgInv => PgTypeOK
  BY DEF PgInv
<1>2. QED
  BY <1>1, PgInvariant, PTL

\* No interleaving of statements leaves a membership or an invitation that
\* points at a row that is gone.
THEOREM PgForeignKeysAlwaysHold == PgSpec => []ForeignKeysHold
<1>1. PgInv => ForeignKeysHold
  BY DEF PgInv
<1>2. QED
  BY <1>1, PgInvariant, PTL

\* A code opens one account, however many registrations race for it.
THEOREM PgCodesOpenOneAccount == PgSpec => []OneAccountPerCode
<1>1. PgInv => OneAccountPerCode
  BY DEF PgInv
<1>2. QED
  BY <1>1, PgInvariant, PTL

\* An accepted invitation always has its account.
THEOREM AcceptedAlwaysHasAccount == PgSpec => []AcceptedHasAccount
<1>1. PgInv => AcceptedHasAccount
  BY DEF PgInv
<1>2. QED
  BY <1>1, PgInvariant, PTL

\* An account keeps the artist its code was issued for while that exists.
THEOREM AccountsAlwaysKeepArtistThatExists ==
    PgSpec => []AccountKeepsArtistThatExists
<1>1. PgInv => AccountKeepsArtistThatExists
  BY DEF PgInv
<1>2. QED
  BY <1>1, PgInvariant, PTL

\* Exactly the deleted accounts have a revocation, at every moment.
THEOREM PgRevocationIsDeletion == PgSpec => []DeletedAccountsAreRevoked
<1>1. PgInv => DeletedAccountsAreRevoked
  BY DEF PgInv
<1>2. QED
  BY <1>1, PgInvariant, PTL

-----------------------------------------------------------------------------
(* Deadlocks.  Whoever waits for whom, the one waited for holds something, *)
(* and of those who hold something and wait themselves only few remain.    *)

\* A deletion of an artist that waits for a membership has met a late one.
LEMMA MembersWaitIsLate ==
    ASSUME PgInv, NEW o \in Transactions, At(o, "delete artist", "members"),
           WantedMembers(o) # {}
    PROVE  LateReference(o)
<1>1. ~tx[o].admins
  BY PartsOfPgInv DEF At, Jobs, Job, DeleteArtistJob
<1>2. QED
  BY <1>1 DEF WantedMembers, LateReference, At, ArtistHasAdmins

\* Who has deleted the row of an artist and waits is stopped by a reference.
LEMMA CheckWaitIsLate ==
    ASSUME PgInv, NEW o \in Transactions, NEW p \in Transactions,
           At(o, "delete artist", "check"), WaitsFor(o, p)
    PROVE  LateReference(o)
<1>1. WantedInvitations(o) # {} \/ WantedMembers(o) # {}
  BY DEF WaitsFor, WantsArtist, At
<1>2. ASSUME WantedInvitations(o) # {} PROVE ~Unreferenced(o, tx[o].artist)
  BY <1>2 DEF WantedInvitations, ArtistInvitations, Unreferenced, At
<1>3. ASSUME WantedMembers(o) # {} PROVE ~Unreferenced(o, tx[o].artist)
  BY <1>3 DEF WantedMembers, Unreferenced, At
<1>4. QED
  BY <1>1, <1>2, <1>3 DEF LateReference

\* Who holds a locked invitation and waits is stopped by a late reference, or
\* waits for an artist or, a registration, for an e-mail.
LEMMA HoldersOfInvitations ==
    ASSUME PgInv, NEW o \in Transactions, NEW p \in Transactions,
           tx[o].invs # {}, WaitsFor(o, p)
    PROVE  \/ LateReference(o)
           \/ HoldsEmail(p, tx[o].email)
           \/ HoldsArtist(p, tx[o].artist)
<1>1. Job(tx[o]) /\ tx[o].op \in Ops
  BY PartsOfPgInv, TxFields DEF Jobs
<1>2. /\ tx[o].op \notin {"idle", "invite", "delete user"}
      /\ tx[o].op = "delete artist" =>
             tx[o].at \in {"members", "artist", "check"}
      /\ tx[o].op \in {"reissue", "redeem"} => tx[o].at # "lock"
  <2>1. tx[o].op # "idle"
    <3>1. Idle.invs = {}
      BY DEF Idle
    <3>2. QED
      BY <1>1, <3>1 DEF Job
  <2>2. tx[o].op # "invite"
    BY <1>1 DEF Job, InviteJob
  <2>3. tx[o].op # "delete user"
    BY <1>1 DEF Job, DeleteUserJob
  <2>4. tx[o].op = "delete artist" =>
            tx[o].at \in {"members", "artist", "check"}
    BY <1>1 DEF Job, DeleteArtistJob
  <2>5. tx[o].op = "reissue" => tx[o].at # "lock"
    BY <1>1 DEF Job, ReissueJob
  <2>6. tx[o].op = "redeem" => tx[o].at # "lock"
    BY <1>1 DEF Job, RedeemJob
  <2>7. QED
    BY <2>1, <2>2, <2>3, <2>4, <2>5, <2>6
<1>3. CASE At(o, "delete artist", "check")
  BY <1>3, CheckWaitIsLate
<1>4. CASE At(o, "delete artist", "members") /\ WantedMembers(o) # {}
  BY <1>4, MembersWaitIsLate
<1>5. CASE /\ ~At(o, "delete artist", "check")
           /\ ~(At(o, "delete artist", "members") /\ WantedMembers(o) # {})
  <2>1. WantedInvitations(o) = {}
    BY <1>2, <1>5 DEF WantedInvitations, At
  <2>2. WantedMembers(o) = {}
    BY <1>2, <1>5 DEF WantedMembers, At
  <2>3. QED
    BY <1>2, <2>1, <2>2 DEF WaitsFor, At
<1>6. QED
  BY <1>3, <1>4, <1>5

\* Who holds a locked membership and waits is stopped by a late reference, or
\* waits for an artist or, the deletion of a user, for an invitation.
LEMMA HoldersOfMembers ==
    ASSUME PgInv, NEW o \in Transactions, NEW p \in Transactions,
           tx[o].members # {}, WaitsFor(o, p)
    PROVE  \/ LateReference(o)
           \/ HoldsArtist(p, tx[o].artist)
           \/ WantedInvitations(o) \cap tx[p].invs # {}
<1>1. Job(tx[o]) /\ tx[o].op \in Ops
  BY PartsOfPgInv, TxFields DEF Jobs
<1>2. \/ At(o, "delete artist", "artist")
      \/ At(o, "delete artist", "check")
      \/ At(o, "delete user", "invitations")
  <2>1. tx[o].op \notin {"idle", "invite", "reissue", "redeem"}
    <3>1. tx[o].op # "idle"
      <4>1. Idle.members = {}
        BY DEF Idle
      <4>2. QED
        BY <1>1, <4>1 DEF Job
    <3>2. tx[o].op # "invite"
      BY <1>1 DEF Job, InviteJob
    <3>3. tx[o].op # "reissue"
      BY <1>1 DEF Job, ReissueJob
    <3>4. tx[o].op # "redeem"
      BY <1>1 DEF Job, RedeemJob
    <3>5. QED
      BY <3>1, <3>2, <3>3, <3>4
  <2>2. tx[o].op = "delete artist" => tx[o].at \in {"artist", "check"}
    BY <1>1 DEF Job, DeleteArtistJob
  <2>3. tx[o].op = "delete user" => tx[o].at = "invitations"
    BY <1>1 DEF Job, DeleteUserJob
  <2>4. QED
    BY <1>1, <2>1, <2>2, <2>3 DEF Ops, At
<1>3. CASE At(o, "delete artist", "check")
  BY <1>3, CheckWaitIsLate
<1>4. CASE ~At(o, "delete artist", "check")
  <2>1. WantedMembers(o) = {}
    BY <1>2, <1>4 DEF WantedMembers, At
  <2>2. QED
    BY <1>2, <1>4, <2>1 DEF WaitsFor, At
<1>5. QED
  BY <1>3, <1>4

\* Who has inserted a user waits for nothing but the artist.
LEMMA InsertedUserWantsArtist ==
    ASSUME NEW o \in Transactions, NEW p \in Transactions,
           At(o, "redeem", "update"), WaitsFor(o, p)
    PROVE  HoldsArtist(p, tx[o].artist)
  BY DEF WaitsFor, WantedInvitations, WantedMembers, At

\* What a transaction of a circle is waited for: a late reference is found,

\* by whoever has deleted the row of an artist,
LEMMA ArtistLockInCircle ==
    ASSUME PgInv, NEW ring \in SUBSET Transactions,
           \A s \in ring : \E o \in ring : WaitsFor(s, o),
           NEW o \in ring, NEW a, HoldsArtist(o, a)
    PROVE  LateReference(o)
<1>1. PICK p \in ring : WaitsFor(o, p)
  OBVIOUS
<1>2. QED
  BY <1>1, CheckWaitIsLate DEF HoldsArtist

\* behind whoever has inserted a user,
LEMMA EmailLockInCircle ==
    ASSUME PgInv, NEW ring \in SUBSET Transactions,
           \A s \in ring : \E o \in ring : WaitsFor(s, o),
           NEW o \in ring, NEW e, HoldsEmail(o, e)
    PROVE  \E s \in ring : LateReference(s)
<1>1. PICK p \in ring : WaitsFor(o, p)
  OBVIOUS
<1>2. HoldsArtist(p, tx[o].artist)
  BY <1>1, InsertedUserWantsArtist DEF HoldsEmail
<1>3. QED
  BY <1>2, ArtistLockInCircle

\* by or behind whoever has locked an invitation,
LEMMA InvitationLockInCircle ==
    ASSUME PgInv, NEW ring \in SUBSET Transactions,
           \A s \in ring : \E o \in ring : WaitsFor(s, o),
           NEW o \in ring, tx[o].invs # {}
    PROVE  \E s \in ring : LateReference(s)
<1>1. PICK p \in ring : WaitsFor(o, p)
  OBVIOUS
<1>2. \/ LateReference(o)
      \/ HoldsEmail(p, tx[o].email)
      \/ HoldsArtist(p, tx[o].artist)
  BY <1>1, HoldersOfInvitations
<1>3. QED
  BY <1>2, EmailLockInCircle, ArtistLockInCircle

\* and by or behind whoever has locked a membership.
LEMMA MemberLockInCircle ==
    ASSUME PgInv, NEW ring \in SUBSET Transactions,
           \A s \in ring : \E o \in ring : WaitsFor(s, o),
           NEW t \in ring, tx[t].members # {}
    PROVE  \E s \in ring : LateReference(s)
<1>1. PICK o \in ring : WaitsFor(t, o)
  OBVIOUS
<1>2. \/ LateReference(t)
      \/ HoldsArtist(o, tx[t].artist)
      \/ tx[o].invs # {}
  BY <1>1, HoldersOfMembers
<1>3. QED
  BY <1>2, ArtistLockInCircle, InvitationLockInCircle

LEMMA CirclesHaveLateReference ==
    ASSUME PgInv, NEW ring \in SUBSET Transactions, NEW t \in ring,
           \A s \in ring : \E o \in ring : WaitsFor(s, o)
    PROVE  \E s \in ring : LateReference(s)
<1>1. PICK o \in ring : WaitsFor(t, o)
  OBVIOUS
<1>2. CASE tx[o].invs # {}
  BY <1>2, InvitationLockInCircle
<1>3. CASE tx[o].members # {}
  BY <1>3, MemberLockInCircle
<1>4. CASE HoldsEmail(o, tx[t].email)
  BY <1>4, EmailLockInCircle
<1>5. CASE HoldsArtist(o, tx[t].artist)
  BY <1>5, ArtistLockInCircle
<1>6. CASE HoldsRevocation(o, tx[t].user)
  \* o deletes the same user, so what it waits for is a row.
  <2>1. PICK p \in ring : WaitsFor(o, p)
    OBVIOUS
  <2>2. tx[o].op = "delete user" /\ tx[o].at # "revocation"
    BY <1>6 DEF HoldsRevocation
  <2>3. tx[p].invs # {} \/ tx[p].members # {}
    BY <2>1, <2>2 DEF WaitsFor, WantsArtist, At
  <2>4. QED
    BY <2>3, InvitationLockInCircle, MemberLockInCircle
<1>7. QED
  BY <1>1, <1>2, <1>3, <1>4, <1>5, <1>6 DEF WaitsFor

\* Every deadlock, of any number of transactions and over any kind of wait,
\* has a deletion of an artist in it that has met a reference to the artist
\* which was added too late.
THEOREM DeadlocksAlwaysNeedLateReference ==
    PgSpec => []DeadlocksNeedLateReference
<1>1. PgInv => DeadlocksNeedLateReference
  <2> SUFFICES ASSUME PgInv, NEW ring \in (SUBSET Transactions) \ {{}},
                      \A t \in ring : \E o \in ring : WaitsFor(t, o)
               PROVE  \E t \in ring : LateReference(t)
    BY DEF DeadlocksNeedLateReference
  <2> ring # {} /\ ring \in SUBSET Transactions
    OBVIOUS
  <2>1. PICK t : t \in ring
    OBVIOUS
  <2>2. QED
    BY <2>1, CirclesHaveLateReference
<1>2. QED
  BY <1>1, PgInvariant, PTL

-----------------------------------------------------------------------------
(* Steps. *)

\* A registration that commits finds its offer unrevoked and not reissued:
\* it has the row locked since it read it.
THEOREM AlwaysRedeemedWhileOffered == PgSpec => RedeemedWhileOffered
<1>1. ASSUME PgInv, [PgNext]_pgVars,
             NEW r \in redemptions' \ redemptions
      PROVE  \E i \in Rows(invitations) :
                /\ invitations[i].code = r[1]
                /\ ~invitations[i].revoked
                /\ ~invitations[i].accepted
                /\ invitations'[i] # NoRow /\ invitations'[i].accepted
  <2>1. PICK t \in Transactions : AcceptInvitation(t)
    <3>1. redemptions' # redemptions
      BY <1>1
    <3>2. ~UNCHANGED pgVars
      BY <3>1 DEF pgVars, storeVars
    <3>3. ~(PgTick \/ \E a \in ArtistIDs, slug \in Slugs :
                          PgCreateArtist(a, slug))
      BY <3>1 DEF PgTick, Tick, PgCreateArtist, CreateArtist
    <3>4. PICK t \in Transactions : DeleteArtistStep(t) \/ InvitationStep(t)
                                    \/ UserStep(t) \/ Abort(t)
      BY <1>1, <3>2, <3>3 DEF PgNext
    <3>5. ~DeleteArtistStep(t) /\ ~Abort(t)
      BY <3>1 DEF DeleteArtistStep, BeginDeleteArtist, CountAdmins,
         DeleteArtistInvitations, DeleteArtistMembers, LockArtistRow,
         DeleteArtistRow, Abort, storeVars
    <3>6. ~InvitationStep(t)
      BY <3>1 DEF InvitationStep, BeginInvite, ReadForInvite,
         InsertInvitation, BeginReissue, LockForReissue, UpdateReissued,
         CommitInvitation, PgRevokeInvitation, RevokeInvitation, storeVars
    <3>7. AcceptInvitation(t)
      BY <3>1, <3>4, <3>5, <3>6 DEF UserStep, BeginRedeem, LockForRedeem,
         InsertUser, BeginDeleteUser, InsertRevocation, DeleteUserMembers,
         DeleteUserRows, storeVars
    <3>8. QED
      BY <3>7
  <2> DEFINE i == tx[t].inv
  <2>2. /\ i \in Rows(invitations) /\ i \in InvitationIDs
        /\ invitations[i] \in Invitation
        /\ invitations[i].code = tx[t].code
        /\ ~invitations[i].accepted /\ ~invitations[i].revoked
    BY <1>1, <2>1, AtAcceptance, PartsOfPgInv, RowsOfTables
       DEF AcceptInvitation, TablesInv
  <2>3. /\ r = <<tx[t].code, tx[t].user>>
        /\ invitations' = [invitations EXCEPT ![i].accepted = TRUE]
        /\ invitations \in [InvitationIDs -> Invitation \cup {NoRow}]
    BY <1>1, <2>1, PartsOfPgInv
       DEF AcceptInvitation, TablesInv, StoreTypeOK
  <2> HIDE DEF i
  <2>4. /\ invitations'[i] = [invitations[i] EXCEPT !.accepted = TRUE]
        /\ invitations'[i] \in Invitation
        /\ invitations'[i].accepted
    BY <2>2, <2>3 DEF Invitation
  <2>5. QED
    BY <2>2, <2>3, <2>4
<1>2. PgInv /\ [PgNext]_pgVars =>
         [\A r \in redemptions' \ redemptions : \E i \in Rows(invitations) :
             /\ invitations[i].code = r[1]
             /\ ~invitations[i].revoked
             /\ ~invitations[i].accepted
             /\ invitations'[i] # NoRow /\ invitations'[i].accepted]_pgVars
  BY <1>1
<1>3. QED
  BY <1>2, PgInvariant, PTL DEF PgSpec, RedeemedWhileOffered

-----------------------------------------------------------------------------
(* The committed tables take the steps of the methods of AccountStore, or   *)
(* one of the named overlaps.                                               *)

MethodsStep == \/ Methods!StoreNext
               \/ Overlap
               \/ UNCHANGED Methods!storeVars

\* everUsed as the methods see it.
Used == [everUsed EXCEPT !.users = Known]

LEMMA UsedFields ==
    /\ StoreTypeOK =>
           Used = [artists |-> everUsed.artists, users |-> Known,
                   invitations |-> everUsed.invitations]
    /\ StoreTypeOK' =>
           Used' = [artists |-> everUsed'.artists, users |-> Known',
                    invitations |-> everUsed'.invitations]
  BY DEF StoreTypeOK, Used

\* Drawing an id that is not committed shows in no table.
LEMMA SameTablesIsStutter ==
    ASSUME PgInv, PgInv',
           UNCHANGED <<artists, users, userArtists, invitations, revocations,
                       issued, redemptions, clock>>,
           everUsed'.artists = everUsed.artists,
           everUsed'.invitations = everUsed.invitations
    PROVE  MethodsStep
<1>1. StoreTypeOK /\ StoreTypeOK'
  BY DEF PgInv, PgTypeOK
<1>2. Known' = Known
  BY DEF Known
<1>3. Used' = Used
  BY <1>1, <1>2, UsedFields
<1>4. QED
  BY <1>3 DEF Used, MethodsStep, Methods!storeVars, Methods!tables

LEMMA CreateArtistIsMethod ==
    ASSUME PgInv, PgInv', NEW a \in ArtistIDs, NEW slug \in Slugs,
           PgCreateArtist(a, slug)
    PROVE  MethodsStep
<1>1. StoreTypeOK /\ StoreTypeOK'
  BY DEF PgInv, PgTypeOK
<1>2. /\ CreateArtist(a, slug)
      /\ everUsed' = [everUsed EXCEPT !.artists = @ \cup {a}]
      /\ Known' = Known
  BY DEF PgCreateArtist, CreateArtist, Known
<1>3. /\ Used.artists = everUsed.artists
      /\ Used' = [Used EXCEPT !.artists = @ \cup {a}]
  BY <1>1, <1>2, UsedFields DEF StoreTypeOK
<1>4. Methods!CreateArtist(a, slug)
  BY <1>2, <1>3 DEF Used, CreateArtist, Methods!CreateArtist, NewArtistID,
     Methods!NewArtistID, Rows, Methods!Rows
<1>5. QED
  BY <1>4 DEF MethodsStep, Methods!StoreNext, Methods!PlatformAdminNext

LEMMA TickIsMethod ==
    ASSUME PgTick
    PROVE  MethodsStep
<1>1. Methods!Tick
  BY DEF PgTick, Tick, tables, Methods!Tick, Methods!tables, Known
<1>2. QED
  BY <1>1 DEF MethodsStep, Methods!StoreNext

LEMMA RevokeIsMethod ==
    ASSUME NEW t \in Transactions, NEW i \in InvitationIDs,
           PgRevokeInvitation(t, i)
    PROVE  MethodsStep
<1>1. Methods!RevokeInvitation(i)
  BY DEF PgRevokeInvitation, RevokeInvitation, Methods!RevokeInvitation,
     Known
<1>2. QED
  BY <1>1 DEF MethodsStep, Methods!StoreNext, Methods!PlatformAdminNext

\* The e-mail of a new invitation has no account, or gets a late one.
LEMMA InsertInvitationIsMethod ==
    ASSUME PgInv, PgInv', NEW t \in Transactions, NEW i \in InvitationIDs,
           InsertInvitation(t, i)
    PROVE  MethodsStep
<1> DEFINE e == tx[t].email
           a == tx[t].artist
           c == tx[t].code
<1>1. /\ StoreTypeOK /\ StoreTypeOK'
      /\ InviteJob(tx[t])
  BY PartsOfPgInv
     DEF InsertInvitation, At, Jobs, Job, TablesInv, PgInv, PgTypeOK
<1>2. /\ e \in Emails /\ a \in ArtistIDs /\ c \in Codes /\ FreshCode(c)
  BY <1>1 DEF InviteJob
<1>3. /\ LifeFitsClock
      /\ i \in NewInvitationID
      /\ NotInvited(e)
      /\ artists[a] # NoRow
      /\ invitations' = [invitations EXCEPT ![i] = NewInvitation(e, a, c)]
      /\ issued' = [issued EXCEPT ![c] = NewGrant(e, a)]
      /\ everUsed' = [everUsed EXCEPT !.invitations = @ \cup {i}]
      /\ UNCHANGED <<artists, users, userArtists, revocations, redemptions,
                     clock>>
  BY DEF InsertInvitation, CommitInvitation
<1> HIDE DEF e, a, c
<1>4. CASE \E u \in Rows(users) : users[u] = e
  <2>1. LateInvitation(i, e, c, a)
    BY <1>2, <1>3, <1>4 DEF LateInvitation
  <2>2. QED
    BY <1>2, <2>1 DEF MethodsStep, Overlap
<1>5. CASE \A u \in Rows(users) : users[u] # e
  <2>1. /\ Used.invitations = everUsed.invitations
        /\ Used' = [Used EXCEPT !.invitations = @ \cup {i}]
    <3>1. Known' = Known
      BY <1>3 DEF Known
    <3>2. QED
      BY <1>1, <1>3, <3>1, UsedFields DEF StoreTypeOK
  <2>2. Methods!CreateUserInvitation(i, e, c, a)
    BY <1>2, <1>3, <1>5, <2>1
       DEF Used, Methods!CreateUserInvitation, Methods!LifeFitsClock,
           LifeFitsClock, Methods!NewInvitationID, NewInvitationID,
           Methods!FreshCode, FreshCode, Methods!Rows, Rows, NotInvited,
           Methods!NewInvitation, NewInvitation, Methods!NewGrant, NewGrant
  <2>3. QED
    BY <1>2, <2>2
       DEF MethodsStep, Methods!StoreNext, Methods!PlatformAdminNext
<1>6. QED
  BY <1>4, <1>5

\* What was reissuable when the row was locked still is.
LEMMA UpdateReissuedIsMethod ==
    ASSUME PgInv, NEW t \in Transactions, UpdateReissued(t)
    PROVE  MethodsStep
<1> DEFINE i == tx[t].inv
           a == tx[t].artist
           c == tx[t].code
<1>1. /\ tx[t].at = "update" /\ ReissueJob(tx[t])
      /\ TxType /\ LocksExclude
  BY PartsOfPgInv DEF UpdateReissued, At, Jobs, Job
<1>2. /\ a \in ArtistIDs /\ i \in InvitationIDs /\ c \in Codes
      /\ FreshCode(c)
      /\ invitations[i] # NoRow
      /\ Reissuable(invitations[i])
  BY <1>1 DEF ReissueJob, LocksExclude
<1>3. /\ LifeFitsClock
      /\ artists[a] # NoRow
      /\ invitations' = [invitations EXCEPT
             ![i] = NewInvitation(invitations[i].email, a, c)]
      /\ issued' = [issued EXCEPT ![c] = NewGrant(invitations[i].email, a)]
      /\ UNCHANGED <<artists, users, userArtists, revocations, everUsed,
                     redemptions, clock>>
  BY DEF UpdateReissued, CommitInvitation
<1> HIDE DEF i, a, c
<1>4. Methods!ReissueUserInvitation(i, c, a)
  BY <1>2, <1>3
     DEF Methods!ReissueUserInvitation, Methods!LifeFitsClock, LifeFitsClock,
         Methods!FreshCode, FreshCode, Methods!Reissuable, Reissuable,
         Methods!InvitationStatus, InvitationStatus, Methods!NewInvitation,
         NewInvitation, Methods!NewGrant, NewGrant, Known
<1>5. QED
  BY <1>2, <1>4 DEF MethodsStep, Methods!StoreNext, Methods!PlatformAdminNext

\* A registration commits while its offer is open, or expired since.
LEMMA AcceptIsMethod ==
    ASSUME PgInv, PgInv', NEW t \in Transactions, AcceptInvitation(t)
    PROVE  MethodsStep
<1> DEFINE i == tx[t].inv
           u == tx[t].user
           e == tx[t].email
           a == tx[t].artist
           c == tx[t].code
<1>1. StoreTypeOK /\ StoreTypeOK'
  BY DEF PgInv, PgTypeOK
<1>2. /\ i \in Rows(invitations) /\ invitations[i] # NoRow
      /\ invitations[i].code = c /\ invitations[i].email = e
      /\ invitations[i].artist = a
      /\ ~invitations[i].accepted /\ ~invitations[i].revoked
      /\ c \in Codes /\ u \in UserIDs
      /\ u \notin Known
      /\ \A v \in Rows(users) : users[v] # e
  BY AtAcceptance DEF AcceptInvitation
<1>3. /\ users' = [users EXCEPT ![u] = e]
      /\ userArtists' = userArtists \cup {<<u, a>>}
      /\ invitations' = [invitations EXCEPT ![i].accepted = TRUE]
      /\ redemptions' = redemptions \cup {<<c, u>>}
      /\ UNCHANGED <<artists, revocations, everUsed, issued, clock>>
  BY DEF AcceptInvitation
<1> HIDE DEF i, u, e, a, c
<1>4. CASE InvitationStatus(invitations[i]) = "expired"
  <2>1. LateRedemption(i, u)
    BY <1>2, <1>3, <1>4 DEF LateRedemption
  <2>2. QED
    BY <1>2, <2>1 DEF MethodsStep, Overlap
<1>5. CASE InvitationStatus(invitations[i]) # "expired"
  <2>1. InvitationStatus(invitations[i]) = "active"
    BY <1>2, <1>5 DEF InvitationStatus
  <2>2. Known' = Known \cup {u}
    <3>1. \A r : r \in redemptions' <=> r \in redemptions \/ r = <<c, u>>
      BY <1>3
    <3>2. ASSUME NEW x \in Known' PROVE x \in Known \cup {u}
      BY <3>1 DEF Known
    <3>3. ASSUME NEW x \in Known \cup {u} PROVE x \in Known'
      <4>1. <<c, u>>[2] = u
        OBVIOUS
      <4>2. CASE x = u
        BY <3>1, <4>1, <4>2 DEF Known
      <4>3. CASE x \in Known
        BY <3>1, <4>3 DEF Known
      <4>4. QED
        BY <3>3, <4>2, <4>3
    <3>4. QED
      BY <3>2, <3>3
  <2>3. /\ Used.users = Known
        /\ Used' = [Used EXCEPT !.users = @ \cup {u}]
    BY <1>1, <1>3, <2>2, UsedFields
  <2>4. /\ Methods!RedeemInvitation(i, c, invitations[i].email, u)
        /\ i \in Methods!InvitationsWithCode(c)
    BY <1>2, <1>3, <2>1, <2>3
       DEF Used, Methods!RedeemInvitation, Methods!Redeemable,
           Methods!InvitationStatus, InvitationStatus, Methods!Rows, Rows,
           Methods!NewUserID, Methods!InvitationsWithCode
  <2>5. QED
    BY <1>2, <2>4 DEF MethodsStep, Methods!StoreNext
<1>6. QED
  BY <1>4, <1>5

\* The rows that a deletion has locked are all that reference the artist.
LEMMA DeleteArtistRowIsMethod ==
    ASSUME PgInv, PgInv', NEW t \in Transactions, DeleteArtistRow(t)
    PROVE  MethodsStep
<1> DEFINE a == tx[t].artist
<1>1. /\ StoreTypeOK /\ LocksExclude /\ ForeignKeysHold
      /\ DeleteArtistJob(tx[t])
      /\ tx[t].invs \subseteq InvitationIDs
  BY PartsOfPgInv, TxFields
     DEF DeleteArtistRow, At, Jobs, Job, TablesInv
<1>2. /\ a \in ArtistIDs
      /\ \A i \in tx[t].invs : /\ i \in Rows(invitations)
                               /\ invitations[i].artist = a
      /\ \A m \in tx[t].members : m[2] = a
  BY <1>1, LockedRows DEF DeleteArtistJob
<1>3. /\ invitations' = [i \in InvitationIDs |->
             IF i \in tx[t].invs THEN NoRow ELSE invitations[i]]
      /\ userArtists' = userArtists \ tx[t].members
      /\ artists' = [artists EXCEPT ![a] = NoRow]
      /\ UNCHANGED <<users, revocations, everUsed, issued, redemptions, clock>>
      /\ \A i \in Rows(invitations) \ tx[t].invs : invitations[i].artist # a
      /\ \A m \in userArtists \ tx[t].members : m[2] # a
  BY DEF DeleteArtistRow, Unreferenced
<1> HIDE DEF a
<1>4. tx[t].invs = ArtistInvitations(a)
  BY <1>2, <1>3 DEF ArtistInvitations
<1>5. userArtists' = {m \in userArtists : m[2] # a}
  BY <1>2, <1>3
<1>6. CASE artists[a] = NoRow
  \* Another deletion of the artist has committed: nothing is left to do.
  <2>1. /\ artists' = artists
        /\ ArtistInvitations(a) = {}
        /\ userArtists' = userArtists
    BY <1>1, <1>2, <1>3, <1>5, <1>6
       DEF ForeignKeysHold, ArtistInvitations, StoreTypeOK
  <2>2. invitations' = invitations
    BY <1>1, <1>3, <1>4, <2>1 DEF StoreTypeOK
  <2>3. QED
    BY <1>3, <2>1, <2>2, SameTablesIsStutter
<1>7. CASE artists[a] # NoRow /\ ArtistHasAdmins(a)
  <2>1. userArtists' = userArtists \ ArtistMembers(a)
    BY <1>5 DEF ArtistMembers
  <2>2. LateDeletion(a)
    BY <1>3, <1>4, <1>7, <2>1 DEF LateDeletion
  <2>3. QED
    BY <1>2, <2>2 DEF MethodsStep, Overlap
<1>8. CASE artists[a] # NoRow /\ ~ArtistHasAdmins(a)
  <2>1. invitations' = [i \in InvitationIDs |->
             IF invitations[i] # NoRow /\ invitations[i].artist = a
             THEN NoRow ELSE invitations[i]]
    BY <1>1, <1>3, <1>4, RowsOfTables DEF ArtistInvitations
  <2>2. Methods!DeleteArtist(a)
    BY <1>3, <1>5, <1>8, <2>1
       DEF Methods!DeleteArtist, Methods!ArtistHasAdmins, ArtistHasAdmins,
           Known
  <2>3. QED
    BY <1>2, <2>2
       DEF MethodsStep, Methods!StoreNext, Methods!PlatformAdminNext
<1>9. QED
  BY <1>6, <1>7, <1>8

\* An account that has gone already has left nothing but invitations that
\* its e-mail has got since.
LEMMA DeleteUserRowsIsMethod ==
    ASSUME PgInv, NEW t \in Transactions, DeleteUserRows(t)
    PROVE  MethodsStep
<1> DEFINE u == tx[t].user
           e == tx[t].email
<1>1. /\ StoreTypeOK /\ ForeignKeysHold
      /\ DeletedAccountsAreRevoked
      /\ DeleteUserJob(tx[t])
      /\ tx[t].op = "delete user" /\ tx[t].at = "invitations"
  BY PartsOfPgInv DEF DeleteUserRows, At, Jobs, Job, TablesInv
<1>2. /\ u \in Known /\ u \in UserIDs
      /\ users[u] \in {e, NoRow}
      /\ \A m \in tx[t].members : m[1] = u
  BY <1>1 DEF DeleteUserJob, Known, StoreTypeOK
<1>3. /\ revocations' = revocations \cup {u}
      /\ userArtists' = userArtists \ tx[t].members
      /\ invitations' = [i \in InvitationIDs |->
             IF i \in UserInvitations(e) THEN NoRow ELSE invitations[i]]
      /\ users' = [users EXCEPT ![u] = NoRow]
      /\ UNCHANGED <<artists, everUsed, issued, redemptions, clock>>
      /\ \A m \in userArtists \ tx[t].members : m[1] # u
  BY DEF DeleteUserRows
<1>4. HoldsRevocation(t, u)
  BY <1>1 DEF HoldsRevocation
<1>5. CASE users[u] = NoRow
  <2>1. u \in revocations
    BY <1>1, <1>2, <1>5 DEF DeletedAccountsAreRevoked, Known
  <2>2. /\ users' = users /\ revocations' = revocations
        /\ userArtists' = userArtists
    BY <1>1, <1>2, <1>3, <1>5, <2>1 DEF StoreTypeOK, ForeignKeysHold
  <2>3. RepeatedDeletion(e)
    BY <1>3, <2>2 DEF RepeatedDeletion
  <2>4. QED
    BY <1>4, <2>1, <2>3 DEF MethodsStep, Overlap
<1> HIDE DEF u, e
<1>6. CASE users[u] # NoRow
  <2>1. users[u] = e
    BY <1>2, <1>6
  <2>2. userArtists' = {m \in userArtists : m[1] # u}
    BY <1>2, <1>3
  <2>3. invitations' = [i \in InvitationIDs |->
             IF invitations[i] # NoRow /\ invitations[i].email = users[u]
             THEN NoRow ELSE invitations[i]]
    BY <1>1, <1>3, <2>1, RowsOfTables DEF UserInvitations
  <2>4. Methods!DeleteUser(u)
    BY <1>3, <1>6, <2>2, <2>3 DEF Methods!DeleteUser, Known
  <2>5. QED
    BY <1>2, <2>4
       DEF MethodsStep, Methods!StoreNext, Methods!PlatformAdminNext
<1>7. QED
  BY <1>5, <1>6

\* Every step of every transaction is one of a method of AccountStore on the
\* committed tables, none at all, or one of the four named overlaps.
THEOREM OverlapsAreAlwaysNamed == PgSpec => OverlapsAreNamed
<1>1. PgInv /\ PgInv' /\ [PgNext]_pgVars => MethodsStep
  <2> SUFFICES ASSUME PgInv, PgInv', [PgNext]_pgVars PROVE MethodsStep
    OBVIOUS
  <2>1. ASSUME UNCHANGED storeVars PROVE MethodsStep
    BY <2>1, SameTablesIsStutter DEF storeVars, tables
  <2>2. ASSUME NEW t \in Transactions, DeleteArtistStep(t)
        PROVE  MethodsStep
    BY <2>1, <2>2, DeleteArtistRowIsMethod
       DEF DeleteArtistStep, BeginDeleteArtist, CountAdmins,
           DeleteArtistInvitations, DeleteArtistMembers, LockArtistRow
  <2>3. ASSUME NEW t \in Transactions, InvitationStep(t)
        PROVE  MethodsStep
    BY <2>1, <2>3, InsertInvitationIsMethod, UpdateReissuedIsMethod,
       RevokeIsMethod
       DEF InvitationStep, BeginInvite, ReadForInvite, BeginReissue,
           LockForReissue
  <2>4. ASSUME NEW t \in Transactions, UserStep(t)
        PROVE  MethodsStep
    <3>1. ASSUME NEW u \in UserIDs, InsertUser(t, u) PROVE MethodsStep
      <4>1. /\ everUsed'.artists = everUsed.artists
            /\ everUsed'.invitations = everUsed.invitations
        BY <3>1 DEF InsertUser, PgInv, PgTypeOK, StoreTypeOK
      <4>2. QED
        BY <3>1, <4>1, SameTablesIsStutter DEF InsertUser
    <3>2. QED
      BY <2>1, <2>4, <3>1, AcceptIsMethod, DeleteUserRowsIsMethod
         DEF UserStep, BeginRedeem, LockForRedeem, BeginDeleteUser,
             InsertRevocation, DeleteUserMembers
  <2>5. ASSUME NEW t \in Transactions, Abort(t) PROVE MethodsStep
    BY <2>1, <2>5 DEF Abort
  <2>6. CASE UNCHANGED pgVars
    BY <2>1, <2>6 DEF pgVars
  <2>7. QED
    BY <2>2, <2>3, <2>4, <2>5, <2>6, CreateArtistIsMethod, TickIsMethod
       DEF PgNext
<1>2. PgInv /\ PgInv' /\ [PgNext]_pgVars =>
         [Methods!StoreNext \/ Overlap]_(Methods!storeVars)
  BY <1>1 DEF MethodsStep
<1>3. QED
  BY <1>2, PgInvariant, PTL DEF PgSpec, OverlapsAreNamed
=============================================================================
