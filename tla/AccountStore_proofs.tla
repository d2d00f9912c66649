------------------------- MODULE AccountStore_proofs -------------------------
(***************************************************************************)
(* The account tables keep their invariants for every set of ids, codes    *)
(* and e-mails, every lifetime and every clock bound.                      *)
(***************************************************************************)
EXTENDS AccountStore, TLAPS

USE NoRowAssumption, LifetimeAssumption, MaxTimeAssumption, NoRowIsNoRecord

-----------------------------------------------------------------------------
(* Facts about the records and the tables the actions are built from. *)

\* A new invitation and its grant are well formed.
LEMMA NewInvitationType ==
    ASSUME NEW e \in Emails, NEW a \in ArtistIDs, NEW c \in Codes,
           clock \in Nat
    PROVE  /\ NewInvitation(e, a, c) \in Invitation
           /\ NewGrant(e, a) \in Grant
           /\ NewInvitation(e, a, c) # NoRow
           /\ NewGrant(e, a) # NoRow
<1>1. clock + InvitationLifetime \in Nat
  OBVIOUS
<1>2. NewInvitation(e, a, c) \in Invitation
  BY <1>1 DEF NewInvitation, Invitation
<1>3. NewGrant(e, a) \in Grant
  BY <1>1 DEF NewGrant, Grant
<1>4. QED
  BY <1>2, <1>3

\* What Rows stands for in a state of the right type.
LEMMA RowsOfTables ==
    ASSUME StoreTypeOK
    PROVE  /\ Rows(artists) = {a \in ArtistIDs : artists[a] # NoRow}
           /\ Rows(users) = {u \in UserIDs : users[u] # NoRow}
           /\ Rows(invitations) =
                 {i \in InvitationIDs : invitations[i] # NoRow}
           /\ \A i \in Rows(invitations) : invitations[i] \in Invitation
           /\ \A u \in Rows(users) : users[u] \in Emails
  BY DEF StoreTypeOK, Rows

-----------------------------------------------------------------------------
(* Types *)

LEMMA StoreTypeInit == StoreInit => StoreTypeOK
  BY DEF StoreInit, StoreTypeOK

\* Each repository method leaves every table with rows of its schema.
LEMMA CreateArtistType ==
    ASSUME StoreTypeOK, NEW a \in ArtistIDs, NEW slug \in Slugs,
           CreateArtist(a, slug)
    PROVE  StoreTypeOK'
  BY DEF StoreTypeOK, CreateArtist

LEMMA DeleteArtistType ==
    ASSUME StoreTypeOK, NEW a \in ArtistIDs, DeleteArtist(a)
    PROVE  StoreTypeOK'
  BY DEF StoreTypeOK, DeleteArtist

LEMMA CreateUserInvitationType ==
    ASSUME StoreTypeOK, NEW i \in InvitationIDs, NEW e \in Emails,
           NEW c \in Codes, NEW a \in ArtistIDs,
           CreateUserInvitation(i, e, c, a)
    PROVE  StoreTypeOK'
  BY NewInvitationType DEF StoreTypeOK, CreateUserInvitation

LEMMA ReissueUserInvitationType ==
    ASSUME StoreTypeOK, NEW i \in InvitationIDs, NEW c \in Codes,
           NEW a \in ArtistIDs, ReissueUserInvitation(i, c, a)
    PROVE  StoreTypeOK'
<1>1. invitations[i] \in Invitation
  BY DEF StoreTypeOK, ReissueUserInvitation
<1>2. invitations[i].email \in Emails /\ clock \in Nat
  BY <1>1 DEF Invitation, StoreTypeOK
<1>3. /\ NewInvitation(invitations[i].email, a, c) \in Invitation
      /\ NewGrant(invitations[i].email, a) \in Grant
  BY <1>2, NewInvitationType
<1>4. QED
  BY <1>3 DEF StoreTypeOK, ReissueUserInvitation

LEMMA RevokeInvitationType ==
    ASSUME StoreTypeOK, NEW i \in InvitationIDs, RevokeInvitation(i)
    PROVE  StoreTypeOK'
<1>1. invitations[i] \in Invitation
  BY DEF StoreTypeOK, RevokeInvitation
<1>2. [invitations[i] EXCEPT !.revoked = TRUE] \in Invitation
  BY <1>1 DEF Invitation
<1>3. QED
  BY <1>2 DEF StoreTypeOK, RevokeInvitation

LEMMA RedeemInvitationType ==
    ASSUME StoreTypeOK, NEW i \in InvitationIDs, NEW c \in Codes,
           NEW e \in Emails, NEW u \in UserIDs, RedeemInvitation(i, c, e, u)
    PROVE  StoreTypeOK'
<1>1. invitations[i] \in Invitation
  BY DEF StoreTypeOK, RedeemInvitation, Redeemable
<1>2. /\ [invitations[i] EXCEPT !.accepted = TRUE] \in Invitation
      /\ invitations[i].artist \in ArtistIDs
  BY <1>1 DEF Invitation
<1>3. QED
  BY <1>2 DEF StoreTypeOK, RedeemInvitation

LEMMA DeleteUserType ==
    ASSUME StoreTypeOK, NEW u \in UserIDs, DeleteUser(u)
    PROVE  StoreTypeOK'
  BY DEF StoreTypeOK, DeleteUser

LEMMA TickType == StoreTypeOK /\ Tick => StoreTypeOK'
  BY DEF StoreTypeOK, Tick, tables

\* Every table holds rows of its schema in every reachable state.
THEOREM StoreTypeCorrect == StoreSpec => []StoreTypeOK
<1>1. StoreTypeOK /\ [StoreNext]_storeVars => StoreTypeOK'
  <2> SUFFICES ASSUME StoreTypeOK, [StoreNext]_storeVars
               PROVE  StoreTypeOK'
    OBVIOUS
  <2>1. CASE PlatformAdminNext
    BY <2>1, CreateArtistType, DeleteArtistType, CreateUserInvitationType,
       ReissueUserInvitationType, RevokeInvitationType, DeleteUserType
       DEF PlatformAdminNext
  <2>2. ASSUME NEW c \in Codes, NEW u \in UserIDs,
               NEW i \in InvitationsWithCode(c),
               RedeemInvitation(i, c, invitations[i].email, u)
        PROVE  StoreTypeOK'
    <3>1. i \in InvitationIDs /\ invitations[i] \in Invitation
      BY RowsOfTables DEF InvitationsWithCode
    <3>2. invitations[i].email \in Emails
      BY <3>1 DEF Invitation
    <3>3. QED
      BY <2>2, <3>1, <3>2, RedeemInvitationType
  <2>3. CASE Tick
    BY <2>3, TickType
  <2>4. CASE UNCHANGED storeVars
    BY <2>4 DEF storeVars, tables, StoreTypeOK
  <2>5. QED
    BY <2>1, <2>2, <2>3, <2>4 DEF StoreNext
<1>2. QED
  BY StoreTypeInit, <1>1, PTL DEF StoreSpec

-----------------------------------------------------------------------------
(* The inductive invariant, one lemma per repository method. *)

LEMMA StoreInvInit == StoreInit => StoreInv
<1> SUFFICES ASSUME StoreInit PROVE StoreInv
  OBVIOUS
<1>1. StoreTypeOK
  BY StoreTypeInit
<1>2. Rows(artists) = {} /\ Rows(users) = {} /\ Rows(invitations) = {}
  BY <1>1, RowsOfTables DEF StoreInit
<1>3. QED
  BY <1>1, <1>2 DEF StoreInit, StoreInv, IdsOfRowsAreUsed, UniqueColumns,
     ForeignKeysHold, AcceptedIffAccount, RevokedExactlyDeleted,
     RowsMatchGrants, RedemptionsAreFinal, OneAccountPerCode,
     AccountKeepsItsArtist

\* Creating an artist touches no account and no invitation.
LEMMA CreateArtistInv ==
    ASSUME StoreInv, NEW a \in ArtistIDs, NEW slug \in Slugs,
           CreateArtist(a, slug)
    PROVE  StoreInv'
<1> USE DEF StoreInv
<1>1. StoreTypeOK'
  BY CreateArtistType
<1>2. /\ Rows(artists)' = Rows(artists) \cup {a}
      /\ Rows(users)' = Rows(users)
      /\ Rows(invitations)' = Rows(invitations)
  <2>1. Rows(artists)' = {b \in ArtistIDs : artists'[b] # NoRow}
    BY <1>1 DEF StoreTypeOK, Rows
  <2>2. artists' = [artists EXCEPT ![a] = slug] /\ slug # NoRow
    BY DEF CreateArtist
  <2>3. QED
    BY <2>1, <2>2, RowsOfTables DEF CreateArtist, StoreTypeOK, Rows
<1>3. IdsOfRowsAreUsed'
  BY <1>2 DEF IdsOfRowsAreUsed, CreateArtist, StoreTypeOK
<1>4. UniqueColumns' /\ AcceptedIffAccount'
  BY <1>2 DEF UniqueColumns, AcceptedIffAccount, CreateArtist
<1>5. ForeignKeysHold'
  <2>1. \A b \in ArtistIDs : artists[b] # NoRow => artists'[b] # NoRow
    BY DEF CreateArtist, StoreTypeOK
  <2>2. \A i \in Rows(invitations) : invitations[i].artist \in ArtistIDs
    BY RowsOfTables DEF Invitation
  <2>3. QED
    BY <1>2, <2>1, <2>2 DEF ForeignKeysHold, CreateArtist, StoreTypeOK
<1>6. RevokedExactlyDeleted'
  BY <1>2 DEF RevokedExactlyDeleted, CreateArtist, StoreTypeOK
<1>7. RowsMatchGrants' /\ OneAccountPerCode' /\ AccountKeepsItsArtist'
  BY <1>2 DEF RowsMatchGrants, OneAccountPerCode, AccountKeepsItsArtist,
     CreateArtist
<1>8. RedemptionsAreFinal'
  BY <1>2 DEF RedemptionsAreFinal, InvitationsWithCode, CreateArtist,
     StoreTypeOK
<1>9. QED
  BY <1>1, <1>3, <1>4, <1>5, <1>6, <1>7, <1>8

\* Deleting an artist that nobody administers takes away only invitations.
LEMMA DeleteArtistInv ==
    ASSUME StoreInv, NEW a \in ArtistIDs, DeleteArtist(a)
    PROVE  StoreInv'
<1> USE DEF StoreInv
<1>1. StoreTypeOK'
  BY DeleteArtistType
<1>2. userArtists' = userArtists
  BY DEF DeleteArtist, ArtistHasAdmins
<1>3. /\ Rows(artists)' = Rows(artists) \ {a}
      /\ Rows(users)' = Rows(users)
      /\ Rows(invitations)' =
            {i \in Rows(invitations) : invitations[i].artist # a}
  <2>1. Rows(artists)' = Rows(artists) \ {a}
    BY <1>1, RowsOfTables DEF StoreTypeOK, Rows, DeleteArtist
  <2>2. Rows(invitations)' = {i \in InvitationIDs : invitations'[i] # NoRow}
    BY <1>1 DEF StoreTypeOK, Rows
  <2>3. Rows(invitations)' =
            {i \in Rows(invitations) : invitations[i].artist # a}
    BY <2>2, RowsOfTables DEF DeleteArtist
  <2>4. QED
    BY <2>1, <2>3 DEF DeleteArtist
<1>4. \A i \in Rows(invitations)' :
         i \in Rows(invitations) /\ invitations'[i] = invitations[i]
  BY <1>3, RowsOfTables DEF DeleteArtist
<1>5. IdsOfRowsAreUsed'
  BY <1>3 DEF IdsOfRowsAreUsed, DeleteArtist
<1>6. UniqueColumns' /\ AcceptedIffAccount'
  BY <1>3, <1>4 DEF UniqueColumns, AcceptedIffAccount, DeleteArtist
<1>7. ForeignKeysHold'
  <2>1. \A b \in ArtistIDs : b # a => artists'[b] = artists[b]
    BY DEF DeleteArtist, StoreTypeOK
  <2>2. \A m \in userArtists : m[2] \in ArtistIDs /\ m[2] # a
    BY DEF DeleteArtist, ArtistHasAdmins, StoreTypeOK
  <2>3. \A i \in Rows(invitations) : invitations[i].artist \in ArtistIDs
    BY RowsOfTables DEF Invitation
  <2>4. QED
    BY <1>2, <1>3, <1>4, <2>1, <2>2, <2>3
       DEF ForeignKeysHold, DeleteArtist
<1>8. RevokedExactlyDeleted'
  BY <1>3 DEF RevokedExactlyDeleted, DeleteArtist
<1>9. RowsMatchGrants'
  BY <1>4 DEF RowsMatchGrants, DeleteArtist
<1>10. OneAccountPerCode' /\ AccountKeepsItsArtist'
  BY <1>2 DEF OneAccountPerCode, AccountKeepsItsArtist, DeleteArtist
<1>11. RedemptionsAreFinal'
  BY <1>4 DEF RedemptionsAreFinal, InvitationsWithCode, DeleteArtist
<1>12. QED
  BY <1>1, <1>5, <1>6, <1>7, <1>8, <1>9, <1>10, <1>11

\* A new invitation has an e-mail without an account or another invitation,
\* and a code that no redemption has ever named.
LEMMA CreateUserInvitationInv ==
    ASSUME StoreInv, NEW i \in InvitationIDs, NEW e \in Emails,
           NEW c \in Codes, NEW a \in ArtistIDs,
           CreateUserInvitation(i, e, c, a)
    PROVE  StoreInv'
<1> USE DEF StoreInv
<1>1. StoreTypeOK'
  BY CreateUserInvitationType
<1> DEFINE new == NewInvitation(e, a, c)
<1>2. /\ new \in Invitation /\ new # NoRow
      /\ new.email = e /\ new.artist = a /\ new.code = c
      /\ new.accepted = FALSE
      /\ NewGrant(e, a) = [email |-> new.email, artist |-> new.artist,
                           expires |-> new.expires]
      /\ NewGrant(e, a) # NoRow
  BY NewInvitationType DEF NewInvitation, NewGrant, StoreTypeOK
<1>3. /\ Rows(artists)' = Rows(artists)
      /\ Rows(users)' = Rows(users)
      /\ Rows(invitations)' = Rows(invitations) \cup {i}
      /\ i \notin Rows(invitations)
  <2>1. i \notin Rows(invitations)
    BY DEF CreateUserInvitation, NewInvitationID, IdsOfRowsAreUsed
  <2>2. Rows(invitations)' = {j \in InvitationIDs : invitations'[j] # NoRow}
    BY <1>1 DEF StoreTypeOK, Rows
  <2>3. Rows(invitations)' = Rows(invitations) \cup {i}
    BY <2>2, <1>2, RowsOfTables DEF CreateUserInvitation, StoreTypeOK
  <2>4. QED
    BY <2>1, <2>3 DEF CreateUserInvitation
<1>4. /\ invitations'[i] = new
      /\ \A j \in Rows(invitations) : invitations'[j] = invitations[j]
  BY <1>3, RowsOfTables DEF CreateUserInvitation, StoreTypeOK
<1>5. /\ issued'[c] = NewGrant(e, a)
      /\ \A d \in Codes : issued[d] # NoRow => issued'[d] = issued[d]
  BY DEF CreateUserInvitation, FreshCode, StoreTypeOK
<1>6. IdsOfRowsAreUsed'
  BY <1>3 DEF IdsOfRowsAreUsed, CreateUserInvitation, StoreTypeOK
<1>7. UniqueColumns'
  <2>1. users' = users
    BY DEF CreateUserInvitation
  <2>2. \A j \in Rows(invitations) : invitations[j].email # e
    BY DEF CreateUserInvitation
  <2>3. \A j \in Rows(invitations) : invitations'[j].email # e
    BY <1>4, <2>2
  <2>4. ASSUME NEW j \in Rows(invitations)', NEW k \in Rows(invitations)',
               invitations'[j].email = invitations'[k].email
        PROVE  j = k
    <3>1. CASE j = i
      BY <3>1, <1>2, <1>3, <1>4, <2>3, <2>4
    <3>2. CASE k = i
      BY <3>2, <1>2, <1>3, <1>4, <2>3, <2>4
    <3>3. CASE j # i /\ k # i
      BY <3>3, <1>3, <1>4, <2>4 DEF UniqueColumns
    <3>4. QED
      BY <3>1, <3>2, <3>3
  <2>5. QED
    BY <1>3, <2>1, <2>4 DEF UniqueColumns
<1>8. ForeignKeysHold'
  BY <1>2, <1>3, <1>4 DEF ForeignKeysHold, CreateUserInvitation
<1>9. AcceptedIffAccount'
  BY <1>2, <1>3, <1>4 DEF AcceptedIffAccount, CreateUserInvitation
<1>10. RevokedExactlyDeleted'
  BY <1>3 DEF RevokedExactlyDeleted, CreateUserInvitation, StoreTypeOK
<1>11. RowsMatchGrants'
  <2>1. \A j \in Rows(invitations) :
           /\ invitations[j].code \in Codes
           /\ issued[invitations[j].code] # NoRow
    <3>1. ASSUME NEW j \in Rows(invitations)
          PROVE  /\ invitations[j].code \in Codes
                 /\ issued[invitations[j].code] # NoRow
      <4>1. invitations[j] \in Invitation
        BY RowsOfTables
      <4>2. [email |-> invitations[j].email,
             artist |-> invitations[j].artist,
             expires |-> invitations[j].expires] \in Grant
        BY <4>1 DEF Invitation, Grant
      <4>3. QED
        BY <4>1, <4>2 DEF RowsMatchGrants, Invitation
    <3>2. QED
      BY <3>1
  <2>2. QED
    BY <1>2, <1>3, <1>4, <1>5, <2>1 DEF RowsMatchGrants
<1>12. RedemptionsAreFinal'
  <2>1. \A r \in redemptions : r[1] \in Codes /\ r[1] # c
    BY DEF RedemptionsAreFinal, CreateUserInvitation, FreshCode, StoreTypeOK
  <2>2. \A r \in redemptions :
           InvitationsWithCode(r[1])' \subseteq InvitationsWithCode(r[1])
    BY <1>2, <1>3, <1>4, <2>1 DEF InvitationsWithCode
  <2>3. \A d \in Codes : InvitationsWithCode(d) \subseteq Rows(invitations)
    BY DEF InvitationsWithCode
  <2>4. redemptions' = redemptions /\ everUsed.users = everUsed'.users
    BY DEF CreateUserInvitation, StoreTypeOK
  <2>5. QED
    BY <1>4, <1>5, <2>1, <2>2, <2>3, <2>4 DEF RedemptionsAreFinal
<1>13. OneAccountPerCode'
  BY DEF OneAccountPerCode, CreateUserInvitation
<1>14. AccountKeepsItsArtist'
  <2>1. \A r \in redemptions : r[1] \in Codes /\ issued'[r[1]] = issued[r[1]]
    BY <1>5 DEF RedemptionsAreFinal, StoreTypeOK
  <2>2. QED
    BY <2>1 DEF AccountKeepsItsArtist, CreateUserInvitation
<1>15. QED
  BY <1>1, <1>6, <1>7, <1>8, <1>9, <1>10, <1>11, <1>12, <1>13, <1>14

\* A reissue gives the row a code that no redemption has ever named; the row
\* it overwrites had not been accepted.
LEMMA ReissueUserInvitationInv ==
    ASSUME StoreInv, NEW i \in InvitationIDs, NEW c \in Codes,
           NEW a \in ArtistIDs, ReissueUserInvitation(i, c, a)
    PROVE  StoreInv'
<1> USE DEF StoreInv
<1>1. StoreTypeOK'
  BY ReissueUserInvitationType
<1> DEFINE e == invitations[i].email
           new == NewInvitation(e, a, c)
<1>2. i \in Rows(invitations) /\ invitations[i] \in Invitation
  BY RowsOfTables DEF ReissueUserInvitation
<1>3. e \in Emails /\ clock \in Nat
  BY <1>2 DEF Invitation, StoreTypeOK
<1>4. /\ new \in Invitation /\ new # NoRow
      /\ new.email = e /\ new.artist = a /\ new.code = c
      /\ new.accepted = FALSE
      /\ NewGrant(e, a) = [email |-> new.email, artist |-> new.artist,
                           expires |-> new.expires]
      /\ NewGrant(e, a) # NoRow
  BY <1>3, NewInvitationType DEF NewInvitation, NewGrant
<1>5. /\ invitations'[i] = new
      /\ \A j \in InvitationIDs : j # i => invitations'[j] = invitations[j]
  BY DEF ReissueUserInvitation, StoreTypeOK
<1>6. /\ Rows(artists)' = Rows(artists)
      /\ Rows(users)' = Rows(users)
      /\ Rows(invitations)' = Rows(invitations)
      /\ Rows(invitations) \subseteq InvitationIDs
  <2>1. Rows(invitations)' = {j \in InvitationIDs : invitations'[j] # NoRow}
    BY <1>1 DEF StoreTypeOK, Rows
  <2>2. QED
    BY <2>1, <1>2, <1>4, <1>5, RowsOfTables DEF ReissueUserInvitation
<1>7. /\ issued'[c] = NewGrant(e, a)
      /\ \A d \in Codes : issued[d] # NoRow => issued'[d] = issued[d]
  BY DEF ReissueUserInvitation, FreshCode, StoreTypeOK
<1>8. ~invitations[i].accepted
  BY DEF ReissueUserInvitation, Reissuable, InvitationStatus
<1>9. IdsOfRowsAreUsed'
  BY <1>6 DEF IdsOfRowsAreUsed, ReissueUserInvitation
<1>10. UniqueColumns'
  <2>1. users' = users
    BY DEF ReissueUserInvitation
  <2>2. \A j \in InvitationIDs : invitations'[j].email = invitations[j].email
    <3>1. invitations'[i].email = invitations[i].email
      BY <1>4, <1>5
    <3>2. QED
      BY <3>1, <1>5
  <2>3. QED
    BY <1>6, <2>1, <2>2 DEF UniqueColumns
<1>11. ForeignKeysHold'
  BY <1>4, <1>5, <1>6 DEF ForeignKeysHold, ReissueUserInvitation
<1>12. AcceptedIffAccount'
  BY <1>2, <1>4, <1>5, <1>6, <1>8
     DEF AcceptedIffAccount, ReissueUserInvitation
<1>13. RevokedExactlyDeleted'
  BY <1>6 DEF RevokedExactlyDeleted, ReissueUserInvitation
<1>14. RowsMatchGrants'
  <2>1. ASSUME NEW j \in Rows(invitations)
        PROVE  /\ invitations[j].code \in Codes
               /\ issued[invitations[j].code] # NoRow
    <3>1. invitations[j] \in Invitation
      BY RowsOfTables
    <3>2. [email |-> invitations[j].email,
           artist |-> invitations[j].artist,
           expires |-> invitations[j].expires] \in Grant
      BY <3>1 DEF Invitation, Grant
    <3>3. QED
      BY <3>1, <3>2 DEF RowsMatchGrants, Invitation
  <2>2. QED
    BY <1>4, <1>5, <1>6, <1>7, <2>1 DEF RowsMatchGrants
<1>15. RedemptionsAreFinal'
  <2>1. \A r \in redemptions : r[1] \in Codes /\ r[1] # c
    BY DEF RedemptionsAreFinal, ReissueUserInvitation, FreshCode,
       StoreTypeOK
  <2>2. ASSUME NEW r \in redemptions, NEW j \in InvitationsWithCode(r[1])'
        PROVE  j # i /\ j \in InvitationsWithCode(r[1])
    BY <1>4, <1>5, <1>6, <2>1, <2>2 DEF InvitationsWithCode
  <2>3. redemptions' = redemptions /\ everUsed' = everUsed
    BY DEF ReissueUserInvitation
  <2>4. \A d \in Codes : InvitationsWithCode(d) \subseteq InvitationIDs
    BY <1>6 DEF InvitationsWithCode
  <2>5. QED
    BY <1>5, <1>7, <2>1, <2>2, <2>3, <2>4 DEF RedemptionsAreFinal
<1>16. OneAccountPerCode'
  BY DEF OneAccountPerCode, ReissueUserInvitation
<1>17. AccountKeepsItsArtist'
  <2>1. \A r \in redemptions : r[1] \in Codes /\ issued'[r[1]] = issued[r[1]]
    BY <1>7 DEF RedemptionsAreFinal, StoreTypeOK
  <2>2. QED
    BY <2>1 DEF AccountKeepsItsArtist, ReissueUserInvitation
<1>18. QED
  BY <1>1, <1>9, <1>10, <1>11, <1>12, <1>13, <1>14, <1>15, <1>16, <1>17

\* Revoking changes one flag that none of the invariants reads.
LEMMA RevokeInvitationInv ==
    ASSUME StoreInv, NEW i \in InvitationIDs, RevokeInvitation(i)
    PROVE  StoreInv'
<1> USE DEF StoreInv
<1>1. StoreTypeOK'
  BY RevokeInvitationType
<1>2. i \in Rows(invitations) /\ invitations[i] \in Invitation
  BY RowsOfTables DEF RevokeInvitation
<1>3. /\ invitations'[i] = [invitations[i] EXCEPT !.revoked = TRUE]
      /\ \A j \in InvitationIDs : j # i => invitations'[j] = invitations[j]
  BY DEF RevokeInvitation, StoreTypeOK
<1>4. invitations'[i] \in Invitation
  BY <1>2, <1>3 DEF Invitation
<1>5. /\ invitations'[i].email = invitations[i].email
      /\ invitations'[i].artist = invitations[i].artist
      /\ invitations'[i].code = invitations[i].code
      /\ invitations'[i].expires = invitations[i].expires
  BY <1>2, <1>3 DEF Invitation
<1>6. invitations'[i].accepted = invitations[i].accepted
  BY <1>2, <1>3 DEF Invitation
<1>7. /\ Rows(artists)' = Rows(artists)
      /\ Rows(users)' = Rows(users)
      /\ Rows(invitations)' = Rows(invitations)
      /\ Rows(invitations) \subseteq InvitationIDs
  <2>1. Rows(invitations)' = {j \in InvitationIDs : invitations'[j] # NoRow}
    BY <1>1 DEF StoreTypeOK, Rows
  <2>2. QED
    BY <2>1, <1>2, <1>3, <1>4, RowsOfTables DEF RevokeInvitation
<1>8. /\ \A j \in Rows(invitations) :
            /\ invitations'[j].email = invitations[j].email
            /\ invitations'[j].artist = invitations[j].artist
            /\ invitations'[j].code = invitations[j].code
            /\ invitations'[j].expires = invitations[j].expires
      /\ \A j \in Rows(invitations) :
            invitations'[j].accepted = invitations[j].accepted
  BY <1>3, <1>5, <1>6, <1>7
<1>9. /\ artists' = artists /\ users' = users /\ userArtists' = userArtists
      /\ revocations' = revocations /\ everUsed' = everUsed
      /\ issued' = issued /\ redemptions' = redemptions
  BY DEF RevokeInvitation
<1>10. IdsOfRowsAreUsed' /\ UniqueColumns' /\ RevokedExactlyDeleted'
  BY <1>7, <1>8, <1>9
     DEF IdsOfRowsAreUsed, UniqueColumns, RevokedExactlyDeleted
<1>11. ForeignKeysHold' /\ AcceptedIffAccount'
  BY <1>7, <1>8, <1>9 DEF ForeignKeysHold, AcceptedIffAccount
<1>12. RowsMatchGrants'
  BY <1>7, <1>8, <1>9 DEF RowsMatchGrants
<1>13. RedemptionsAreFinal'
  BY <1>7, <1>8, <1>9 DEF RedemptionsAreFinal, InvitationsWithCode
<1>14. OneAccountPerCode' /\ AccountKeepsItsArtist'
  BY <1>9 DEF OneAccountPerCode, AccountKeepsItsArtist
<1>15. QED
  BY <1>1, <1>10, <1>11, <1>12, <1>13, <1>14

\* A redemption with the e-mail of the row it redeems: the new account is the
\* only one with that e-mail, the code, and the membership.
LEMMA RedeemInvitationInv ==
    ASSUME StoreInv, NEW i \in InvitationIDs, NEW c \in Codes,
           NEW e \in Emails, NEW u \in UserIDs,
           RedeemInvitation(i, c, e, u),
           e = invitations[i].email
    PROVE  StoreInv'
<1> USE DEF StoreInv
<1>1. StoreTypeOK'
  BY RedeemInvitationType
<1>2. /\ i \in Rows(invitations) /\ invitations[i] \in Invitation
      /\ invitations[i].code = c
      /\ ~invitations[i].accepted
      /\ \A v \in Rows(users) : users[v] # e
      /\ u \notin everUsed.users
  BY RowsOfTables DEF RedeemInvitation, Redeemable, InvitationStatus, NewUserID
<1> DEFINE a == invitations[i].artist
<1>3. a \in ArtistIDs /\ e # NoRow
  BY <1>2 DEF Invitation
<1>4. u \notin Rows(users) /\ users[u] = NoRow
  BY <1>2, RowsOfTables DEF IdsOfRowsAreUsed
<1>5. /\ users'[u] = e
      /\ \A v \in UserIDs : v # u => users'[v] = users[v]
      /\ Rows(users)' = Rows(users) \cup {u}
  <2>1. Rows(users)' = {v \in UserIDs : users'[v] # NoRow}
    BY <1>1 DEF StoreTypeOK, Rows
  <2>2. users' = [users EXCEPT ![u] = e]
    BY DEF RedeemInvitation
  <2>3. QED
    BY <2>1, <2>2, <1>3, RowsOfTables DEF StoreTypeOK
<1>6. /\ invitations'[i] = [invitations[i] EXCEPT !.accepted = TRUE]
      /\ \A j \in InvitationIDs : j # i => invitations'[j] = invitations[j]
  BY DEF RedeemInvitation, StoreTypeOK
<1>7. invitations'[i].accepted = TRUE
  BY <1>2, <1>6 DEF Invitation
<1>8. /\ invitations'[i].email = e
      /\ invitations'[i].artist = a
      /\ invitations'[i].code = c
      /\ invitations'[i].expires = invitations[i].expires
      /\ invitations'[i] \in Invitation
  BY <1>2, <1>6 DEF Invitation
<1>9. /\ Rows(invitations)' = Rows(invitations)
      /\ Rows(invitations) \subseteq InvitationIDs
  <2>1. Rows(invitations)' = {j \in InvitationIDs : invitations'[j] # NoRow}
    BY <1>1 DEF StoreTypeOK, Rows
  <2>2. QED
    BY <2>1, <1>2, <1>6, <1>8, RowsOfTables
<1>10. \A j \in Rows(invitations) :
          /\ invitations'[j].email = invitations[j].email
          /\ invitations'[j].artist = invitations[j].artist
          /\ invitations'[j].code = invitations[j].code
          /\ invitations'[j].expires = invitations[j].expires
  BY <1>2, <1>6, <1>8, <1>9
<1>11. /\ artists' = artists /\ revocations' = revocations
       /\ issued' = issued
       /\ userArtists' = userArtists \cup {<<u, a>>}
       /\ redemptions' = redemptions \cup {<<c, u>>}
       /\ Rows(artists)' = Rows(artists)
  BY DEF RedeemInvitation
<1>12. /\ everUsed'.users = everUsed.users \cup {u}
       /\ everUsed'.artists = everUsed.artists
       /\ everUsed'.invitations = everUsed.invitations
  BY DEF RedeemInvitation, StoreTypeOK
<1>13. \A v \in Rows(users) : v \in UserIDs /\ users'[v] = users[v]
  BY <1>4, <1>5, RowsOfTables
<1>14. issued[c] = [email |-> e, artist |-> a,
                    expires |-> invitations[i].expires]
  BY <1>2 DEF RowsMatchGrants
<1>15. issued[c] # NoRow
  <2>1. [email |-> e, artist |-> a, expires |-> invitations[i].expires]
           \in Grant
    BY <1>2, <1>3 DEF Grant, Invitation
  <2>2. QED
    BY <1>14, <2>1
<1>16. \A r \in redemptions : r[1] # c /\ r[2] # u
  BY <1>2 DEF RedemptionsAreFinal, InvitationsWithCode
<1>17. IdsOfRowsAreUsed'
  BY <1>5, <1>9, <1>11, <1>12 DEF IdsOfRowsAreUsed
<1>18. UniqueColumns'
  BY <1>2, <1>4, <1>5, <1>9, <1>10, <1>13 DEF UniqueColumns
<1>19. ForeignKeysHold'
  <2>1. artists[a] # NoRow
    BY <1>2 DEF ForeignKeysHold
  <2>2. \A v \in UserIDs : users[v] # NoRow => users'[v] # NoRow
    BY <1>4, <1>5
  <2>3. users'[u] # NoRow
    BY <1>3, <1>5
  <2>4. \A m \in userArtists' : users'[m[1]] # NoRow /\ artists[m[2]] # NoRow
    BY <2>1, <2>2, <2>3, <1>11 DEF ForeignKeysHold, StoreTypeOK
  <2>5. QED
    BY <2>4, <1>9, <1>10, <1>11 DEF ForeignKeysHold
<1>20. AcceptedIffAccount'
  <2>1. ASSUME NEW j \in Rows(invitations), j # i
        PROVE  invitations[j].email # e
    BY <2>1, <1>2 DEF UniqueColumns
  <2>2. ASSUME NEW j \in Rows(invitations)
        PROVE  invitations'[j].accepted <=>
                   \E v \in Rows(users)' : users'[v] = invitations'[j].email
    <3>1. CASE j = i
      BY <3>1, <1>5, <1>7, <1>8
    <3>2. CASE j # i
      <4>1. invitations'[j] = invitations[j] /\ invitations[j].email # e
        BY <3>2, <2>1, <1>6, <1>9
      <4>2. (\E v \in Rows(users)' : users'[v] = invitations[j].email)
               <=> \E v \in Rows(users) : users[v] = invitations[j].email
        BY <4>1, <1>5, <1>13
      <4>3. QED
        BY <4>1, <4>2 DEF AcceptedIffAccount
    <3>3. QED
      BY <3>1, <3>2
  <2>3. QED
    BY <2>2, <1>9 DEF AcceptedIffAccount
<1>21. RevokedExactlyDeleted'
  BY <1>2, <1>5, <1>11, <1>12 DEF RevokedExactlyDeleted
<1>22. RowsMatchGrants'
  BY <1>9, <1>10, <1>11 DEF RowsMatchGrants
<1>23. RedemptionsAreFinal'
  <2>1. \A d \in Codes : InvitationsWithCode(d)' = InvitationsWithCode(d)
    BY <1>9, <1>10 DEF InvitationsWithCode
  <2>2. \A d \in Codes : InvitationsWithCode(d) \subseteq Rows(invitations)
    BY DEF InvitationsWithCode
  <2>3. \A j \in Rows(invitations) :
           invitations[j].accepted => invitations'[j].accepted
    BY <1>6, <1>7, <1>9
  <2>4. \A j \in InvitationsWithCode(c) : invitations'[j].accepted
    <3>1. ASSUME NEW j \in InvitationsWithCode(c)
          PROVE  j = i
      <4>1. j \in Rows(invitations) /\ invitations[j].code = c
        BY DEF InvitationsWithCode
      <4>2. issued[c] = [email |-> invitations[j].email,
                         artist |-> invitations[j].artist,
                         expires |-> invitations[j].expires]
        BY <4>1 DEF RowsMatchGrants
      <4>3. invitations[j].email = e
        BY <4>2, <1>14
      <4>4. QED
        BY <4>1, <4>3, <1>2 DEF UniqueColumns
    <3>2. QED
      BY <3>1, <1>7
  <2>5. \A r \in redemptions : r[1] \in Codes
    BY DEF StoreTypeOK
  <2>6. QED
    BY <1>11, <1>12, <1>15, <2>1, <2>2, <2>3, <2>4, <2>5
       DEF RedemptionsAreFinal
<1>24. OneAccountPerCode'
  BY <1>11, <1>16 DEF OneAccountPerCode
<1>25. AccountKeepsItsArtist'
  <2>1. \A m \in userArtists : m[1] # u
    BY <1>4 DEF ForeignKeysHold
  <2>2. ASSUME NEW r \in redemptions, users'[r[2]] # NoRow
        PROVE  /\ users'[r[2]] = issued[r[1]].email
               /\ {m \in userArtists' : m[1] = r[2]} =
                      {<<r[2], issued[r[1]].artist>>}
    <3>1. r[2] # u /\ r[2] \in UserIDs
      BY <1>16 DEF StoreTypeOK
    <3>2. users'[r[2]] = users[r[2]]
      BY <3>1, <1>5
    <3>3. {m \in userArtists' : m[1] = r[2]} =
             {m \in userArtists : m[1] = r[2]}
      BY <3>1, <1>11
    <3>4. QED
      BY <2>2, <3>2, <3>3 DEF AccountKeepsItsArtist
  <2>3. {m \in userArtists' : m[1] = u} = {<<u, a>>}
    BY <2>1, <1>11
  <2>4. issued[c].email = e /\ issued[c].artist = a
    BY <1>14
  <2>5. QED
    BY <2>2, <2>3, <2>4, <1>5, <1>11 DEF AccountKeepsItsArtist
<1>26. QED
  BY <1>1, <1>17, <1>18, <1>19, <1>20, <1>21, <1>22, <1>23, <1>24, <1>25

\* Deleting an account takes its memberships and its invitation along, and
\* puts its id among the revoked ones.
LEMMA DeleteUserInv ==
    ASSUME StoreInv, NEW u \in UserIDs, DeleteUser(u)
    PROVE  StoreInv'
<1> USE DEF StoreInv
<1>1. StoreTypeOK'
  BY DeleteUserType
<1>2. u \in Rows(users) /\ users[u] # NoRow
  BY RowsOfTables DEF DeleteUser
<1>3. /\ users'[u] = NoRow
      /\ \A v \in UserIDs : v # u => users'[v] = users[v]
      /\ Rows(users)' = Rows(users) \ {u}
  <2>1. Rows(users)' = {v \in UserIDs : users'[v] # NoRow}
    BY <1>1 DEF StoreTypeOK, Rows
  <2>2. users' = [users EXCEPT ![u] = NoRow]
    BY DEF DeleteUser
  <2>3. QED
    BY <2>1, <2>2, RowsOfTables DEF StoreTypeOK
<1>4. Rows(invitations)' =
         {i \in Rows(invitations) : invitations[i].email # users[u]}
  <2>1. Rows(invitations)' = {i \in InvitationIDs : invitations'[i] # NoRow}
    BY <1>1 DEF StoreTypeOK, Rows
  <2>2. QED
    BY <2>1, RowsOfTables DEF DeleteUser
<1>5. \A i \in Rows(invitations)' :
         i \in Rows(invitations) /\ invitations'[i] = invitations[i]
  BY <1>4, RowsOfTables DEF DeleteUser
<1>6. /\ userArtists' = {m \in userArtists : m[1] # u}
      /\ revocations' = revocations \cup {u}
      /\ artists' = artists /\ everUsed' = everUsed /\ issued' = issued
      /\ redemptions' = redemptions
      /\ Rows(artists)' = Rows(artists)
  BY DEF DeleteUser
<1>7. IdsOfRowsAreUsed' /\ RevokedExactlyDeleted'
  BY <1>2, <1>3, <1>4, <1>6
     DEF IdsOfRowsAreUsed, RevokedExactlyDeleted
<1>8. \A v \in Rows(users)' : v \in Rows(users) /\ users'[v] = users[v]
  BY <1>3, RowsOfTables
<1>9. UniqueColumns'
  BY <1>5, <1>8 DEF UniqueColumns
<1>10. ForeignKeysHold'
  <2>1. \A m \in userArtists' :
           m \in userArtists /\ m[1] \in UserIDs /\ m[1] # u
    BY <1>6 DEF StoreTypeOK
  <2>2. QED
    BY <2>1, <1>3, <1>5, <1>6 DEF ForeignKeysHold
<1>11. AcceptedIffAccount'
  <2>1. ASSUME NEW i \in Rows(invitations)'
        PROVE  (\E v \in Rows(users)' : users'[v] = invitations[i].email)
                  <=> \E v \in Rows(users) : users[v] = invitations[i].email
    <3>1. invitations[i].email # users[u]
      BY <1>4
    <3>2. QED
      BY <3>1, <1>3, <1>8
  <2>2. QED
    BY <2>1, <1>5 DEF AcceptedIffAccount
<1>12. RowsMatchGrants'
  BY <1>5, <1>6 DEF RowsMatchGrants
<1>13. RedemptionsAreFinal'
  BY <1>5, <1>6 DEF RedemptionsAreFinal, InvitationsWithCode
<1>14. OneAccountPerCode'
  BY <1>6 DEF OneAccountPerCode
<1>15. AccountKeepsItsArtist'
  <2>1. ASSUME NEW r \in redemptions, users'[r[2]] # NoRow
        PROVE  /\ users'[r[2]] = users[r[2]]
               /\ {m \in userArtists' : m[1] = r[2]} =
                     {m \in userArtists : m[1] = r[2]}
    <3>1. r[2] \in UserIDs /\ r[2] # u
      BY <2>1, <1>3 DEF StoreTypeOK
    <3>2. QED
      BY <3>1, <1>3, <1>6
  <2>2. QED
    BY <2>1, <1>6 DEF AccountKeepsItsArtist
<1>16. QED
  BY <1>1, <1>7, <1>9, <1>10, <1>11, <1>12, <1>13, <1>14, <1>15

\* Steps that leave the tables and the history alone.
LEMMA SameTablesInv ==
    ASSUME StoreInv, UNCHANGED <<tables, issued, redemptions>>, clock' \in Nat
    PROVE  StoreInv'
<1>1. /\ artists' = artists /\ users' = users /\ userArtists' = userArtists
      /\ invitations' = invitations /\ revocations' = revocations
      /\ everUsed' = everUsed /\ issued' = issued
      /\ redemptions' = redemptions
  BY DEF tables
<1>2. StoreTypeOK'
  BY <1>1 DEF StoreInv, StoreTypeOK
<1>3. QED
  BY <1>1, <1>2 DEF StoreInv, IdsOfRowsAreUsed, UniqueColumns,
     ForeignKeysHold, AcceptedIffAccount, RevokedExactlyDeleted,
     RowsMatchGrants, RedemptionsAreFinal, OneAccountPerCode,
     AccountKeepsItsArtist, InvitationsWithCode, Rows

LEMMA TickInv == StoreInv /\ Tick => StoreInv'
  BY SameTablesInv DEF StoreInv, StoreTypeOK, Tick

LEMMA PlatformAdminInv == StoreInv /\ PlatformAdminNext => StoreInv'
  BY CreateArtistInv, DeleteArtistInv, CreateUserInvitationInv,
     ReissueUserInvitationInv, RevokeInvitationInv, DeleteUserInv
     DEF PlatformAdminNext

\* The store alone keeps the inductive invariant.
THEOREM StoreInvariant == StoreSpec => []StoreInv
<1>1. StoreInv /\ [StoreNext]_storeVars => StoreInv'
  <2> SUFFICES ASSUME StoreInv, [StoreNext]_storeVars
               PROVE  StoreInv'
    OBVIOUS
  <2>1. CASE PlatformAdminNext
    BY <2>1, PlatformAdminInv
  <2>2. ASSUME NEW c \in Codes, NEW u \in UserIDs,
               NEW i \in InvitationsWithCode(c),
               RedeemInvitation(i, c, invitations[i].email, u)
        PROVE  StoreInv'
    <3>1. i \in InvitationIDs /\ invitations[i] \in Invitation
      BY RowsOfTables DEF InvitationsWithCode, StoreInv
    <3>2. invitations[i].email \in Emails
      BY <3>1 DEF Invitation
    <3>3. QED
      BY <2>2, <3>1, <3>2, RedeemInvitationInv
  <2>3. CASE Tick
    BY <2>3, TickInv
  <2>4. CASE UNCHANGED storeVars
    BY <2>4, SameTablesInv DEF storeVars, StoreInv, StoreTypeOK
  <2>5. QED
    BY <2>1, <2>2, <2>3, <2>4 DEF StoreNext
<1>2. QED
  BY StoreInvInit, <1>1, PTL DEF StoreSpec

\* No transaction leaves a dangling membership or invitation.
THEOREM ForeignKeysAlwaysHold == StoreSpec => []ForeignKeysHold
  BY StoreInvariant, PTL DEF StoreInv

\* An e-mail has an accepted invitation exactly when it has an account.
THEOREM AcceptedAlwaysIffAccount == StoreSpec => []AcceptedIffAccount
  BY StoreInvariant, PTL DEF StoreInv

\* An account administers its artist for as long as it exists.
THEOREM AccountsAlwaysKeepTheirArtist == StoreSpec => []AccountKeepsItsArtist
  BY StoreInvariant, PTL DEF StoreInv

\* A code opens at most one account, ever.
THEOREM CodesOpenOneAccount == StoreSpec => []OneAccountPerCode
  BY StoreInvariant, PTL DEF StoreInv

\* The revoked ids are those of the deleted accounts.
THEOREM RevocationIsDeletion == StoreSpec => []RevokedExactlyDeleted
  BY StoreInvariant, PTL DEF StoreInv

-----------------------------------------------------------------------------
(* Ids are for ever. *)

LEMMA RedeemTakesNothingBack ==
    ASSUME StoreInv, NEW i \in InvitationIDs, NEW c \in Codes,
           NEW e \in Emails, NEW u \in UserIDs, RedeemInvitation(i, c, e, u)
    PROVE  NothingIsTakenBack
<1>1. u \notin everUsed.users
  BY DEF RedeemInvitation, NewUserID
<1>2. /\ everUsed.users \subseteq everUsed'.users
      /\ everUsed.users \subseteq UserIDs
  BY DEF RedeemInvitation, StoreInv, StoreTypeOK
<1>3. \A v \in UserIDs : v # u => users'[v] = users[v]
  BY DEF RedeemInvitation, StoreInv, StoreTypeOK
<1>4. QED
  BY <1>1, <1>2, <1>3 DEF NothingIsTakenBack, RedeemInvitation

LEMMA PlatformAdminTakesNothingBack ==
    ASSUME StoreInv, PlatformAdminNext
    PROVE  NothingIsTakenBack
<1> USE DEF NothingIsTakenBack
<1>1. StoreTypeOK
  BY DEF StoreInv
<1>2. ASSUME NEW a \in ArtistIDs, NEW slug \in Slugs, CreateArtist(a, slug)
      PROVE  NothingIsTakenBack
  BY <1>1, <1>2 DEF CreateArtist, StoreTypeOK
<1>3. ASSUME NEW a \in ArtistIDs, DeleteArtist(a)
      PROVE  NothingIsTakenBack
  BY <1>3 DEF DeleteArtist, ArtistHasAdmins
<1>4. ASSUME NEW i \in InvitationIDs, NEW e \in Emails, NEW c \in Codes,
             NEW a \in ArtistIDs, CreateUserInvitation(i, e, c, a)
      PROVE  NothingIsTakenBack
  BY <1>1, <1>4 DEF CreateUserInvitation, FreshCode, StoreTypeOK
<1>5. ASSUME NEW i \in InvitationIDs, NEW c \in Codes, NEW a \in ArtistIDs,
             ReissueUserInvitation(i, c, a)
      PROVE  NothingIsTakenBack
  BY <1>1, <1>5 DEF ReissueUserInvitation, FreshCode, StoreTypeOK
<1>6. ASSUME NEW i \in InvitationIDs, RevokeInvitation(i)
      PROVE  NothingIsTakenBack
  BY <1>6 DEF RevokeInvitation
<1>7. ASSUME NEW u \in UserIDs, DeleteUser(u)
      PROVE  NothingIsTakenBack
  BY <1>1, <1>7 DEF DeleteUser, StoreTypeOK
<1>8. QED
  BY <1>2, <1>3, <1>4, <1>5, <1>6, <1>7 DEF PlatformAdminNext

LEMMA IdleTablesTakeNothingBack ==
    ASSUME UNCHANGED <<tables, issued, redemptions>>
    PROVE  NothingIsTakenBack
  BY DEF NothingIsTakenBack, tables

\* An id names one account for ever, and memberships end with accounts.
THEOREM IdsStayForEver == StoreSpec => IdsAreForEver
<1>1. StoreInv /\ [StoreNext]_storeVars => [NothingIsTakenBack]_storeVars
  <2> SUFFICES ASSUME StoreInv, StoreNext
               PROVE  NothingIsTakenBack
    OBVIOUS
  <2>1. ASSUME NEW c \in Codes, NEW u \in UserIDs,
               NEW i \in InvitationsWithCode(c),
               RedeemInvitation(i, c, invitations[i].email, u)
        PROVE  NothingIsTakenBack
    <3>1. i \in InvitationIDs /\ invitations[i] \in Invitation
      BY RowsOfTables DEF InvitationsWithCode, StoreInv
    <3>2. invitations[i].email \in Emails
      BY <3>1 DEF Invitation
    <3>3. QED
      BY <2>1, <3>1, <3>2, RedeemTakesNothingBack
  <2>2. CASE Tick
    BY <2>2, IdleTablesTakeNothingBack DEF Tick
  <2>3. QED
    BY <2>1, <2>2, PlatformAdminTakesNothingBack DEF StoreNext
<1>2. QED
  BY StoreInvariant, <1>1, PTL DEF StoreSpec, IdsAreForEver

-----------------------------------------------------------------------------
(* The store implements InvitationCodes. *)

PromiseVars == <<[c \in Codes |-> CodeFate(c)], redemptions>>
PromiseStep == [Promise!CodesNext]_PromiseVars

\* A code works only if it was issued and has not been redeemed: it is open.
LEMMA WorkingCodesAreOpen ==
    ASSUME StoreInv, NEW c \in Codes, Works(c)
    PROVE  CodeFate(c) = "open"
<1>1. PICK i \in InvitationsWithCode(c) :
          InvitationStatus(invitations[i]) = "active"
  BY DEF Works
<1>2. i \in Rows(invitations) /\ invitations[i].code = c
  BY DEF InvitationsWithCode
<1>3. invitations[i] \in Invitation
  BY <1>2, RowsOfTables DEF StoreInv
<1>4. ~invitations[i].accepted
  BY <1>1 DEF InvitationStatus
<1>5. \A r \in redemptions : r[1] # c
  BY <1>1, <1>4 DEF StoreInv, RedemptionsAreFinal
<1>6. issued[c] # NoRow
  <2>1. [email |-> invitations[i].email, artist |-> invitations[i].artist,
         expires |-> invitations[i].expires] \in Grant
    BY <1>3 DEF Grant, Invitation
  <2>2. QED
    BY <1>2, <2>1 DEF StoreInv, RowsMatchGrants
<1>7. QED
  BY <1>5, <1>6 DEF CodeFate

\* A step that makes no code work, issues none and redeems none closes some.
LEMMA ClosingStep ==
    ASSUME issued' = issued, redemptions' = redemptions,
           \A c \in Codes : Works(c)' => Works(c)
    PROVE  PromiseStep
<1> DEFINE S == {c \in Codes : CodeFate(c) = "open" /\ ~Works(c)'}
<1>1. \A c \in Codes :
          CodeFate(c)' = IF c \in S THEN "closed" ELSE CodeFate(c)
  BY DEF CodeFate
<1>2. CASE S = {}
  BY <1>1, <1>2 DEF PromiseStep, PromiseVars
<1>3. CASE S # {}
  <2>1. Promise!Close(S)
    BY <1>1, <1>3 DEF Promise!Close
  <2>2. QED
    BY <2>1 DEF PromiseStep, Promise!CodesNext
<1>4. QED
  BY <1>2, <1>3

\* A step that makes exactly one code work, one that was never issued.
LEMMA IssuingStep ==
    ASSUME StoreInv, NEW c \in Codes, redemptions' = redemptions,
           issued[c] = NoRow, issued'[c] # NoRow, Works(c)',
           \A d \in Codes : d # c => issued'[d] = issued[d],
           \A d \in Codes : d # c => (Works(d)' <=> Works(d))
    PROVE  PromiseStep
<1>1. \A r \in redemptions : r[1] # c
  BY DEF StoreInv, RedemptionsAreFinal
<1>2. CodeFate(c) = "unissued" /\ CodeFate(c)' = "open"
  BY <1>1 DEF CodeFate
<1>3. \A d \in Codes : d # c => CodeFate(d)' = CodeFate(d)
  BY DEF CodeFate
<1>4. Promise!Issue(c)
  BY <1>2, <1>3 DEF Promise!Issue
<1>5. QED
  BY <1>4 DEF PromiseStep, Promise!CodesNext

LEMMA CreateUserInvitationIssues ==
    ASSUME StoreInv, NEW i \in InvitationIDs, NEW e \in Emails,
           NEW c \in Codes, NEW a \in ArtistIDs,
           CreateUserInvitation(i, e, c, a)
    PROVE  PromiseStep
<1> DEFINE new == NewInvitation(e, a, c)
<1>1. StoreTypeOK /\ StoreTypeOK'
  BY CreateUserInvitationType DEF StoreInv
<1>2. /\ new \in Invitation /\ new # NoRow /\ new.code = c
      /\ ~new.accepted /\ ~new.revoked
      /\ new.expires = clock + InvitationLifetime
      /\ NewGrant(e, a) # NoRow
  BY <1>1, NewInvitationType DEF NewInvitation, StoreTypeOK
<1>3. ~(new.expires <= clock)
  BY <1>1, <1>2 DEF StoreTypeOK
<1>4. invitations[i] = NoRow
  BY <1>1, RowsOfTables
     DEF StoreInv, IdsOfRowsAreUsed, CreateUserInvitation, NewInvitationID
<1>5. /\ invitations'[i] = new
      /\ \A j \in InvitationIDs : j # i => invitations'[j] = invitations[j]
      /\ clock' = clock /\ redemptions' = redemptions
  BY <1>1 DEF CreateUserInvitation, StoreTypeOK
<1>6. /\ issued[c] = NoRow /\ issued'[c] # NoRow
      /\ \A d \in Codes : d # c => issued'[d] = issued[d]
  BY <1>1, <1>2 DEF CreateUserInvitation, FreshCode, StoreTypeOK
<1>7. /\ Rows(invitations) = {j \in InvitationIDs : invitations[j] # NoRow}
      /\ Rows(invitations)' =
            {j \in InvitationIDs : invitations'[j] # NoRow}
  BY <1>1 DEF StoreTypeOK, Rows
<1>8. Works(c)'
  BY <1>2, <1>3, <1>5, <1>7 DEF Works, InvitationsWithCode, InvitationStatus
<1>9. ASSUME NEW d \in Codes, d # c
      PROVE  Works(d)' <=> Works(d)
  <2>1. InvitationsWithCode(d)' = InvitationsWithCode(d)
    BY <1>2, <1>4, <1>5, <1>7, <1>9 DEF InvitationsWithCode
  <2>2. \A j \in InvitationsWithCode(d) :
           j \in InvitationIDs /\ j # i
    BY <1>4, <1>7 DEF InvitationsWithCode
  <2>3. QED
    BY <1>5, <2>1, <2>2 DEF Works, InvitationStatus
<1>10. QED
  BY <1>5, <1>6, <1>8, <1>9, IssuingStep

LEMMA ReissueUserInvitationIssues ==
    ASSUME StoreInv, NEW i \in InvitationIDs, NEW c \in Codes,
           NEW a \in ArtistIDs, ReissueUserInvitation(i, c, a)
    PROVE  PromiseStep
<1> DEFINE e == invitations[i].email
           new == NewInvitation(e, a, c)
<1>1. StoreTypeOK /\ StoreTypeOK'
  BY ReissueUserInvitationType DEF StoreInv
<1>2. invitations[i] \in Invitation
  BY <1>1, RowsOfTables DEF ReissueUserInvitation, StoreTypeOK
<1>3. e \in Emails /\ clock \in Nat
  BY <1>1, <1>2 DEF Invitation, StoreTypeOK
<1>4. /\ new \in Invitation /\ new # NoRow /\ new.code = c
      /\ ~new.accepted /\ ~new.revoked
      /\ new.expires = clock + InvitationLifetime
      /\ NewGrant(e, a) # NoRow
  BY <1>3, NewInvitationType DEF NewInvitation
<1>5. ~(new.expires <= clock)
  BY <1>3, <1>4
<1>6. /\ invitations'[i] = new
      /\ \A j \in InvitationIDs : j # i => invitations'[j] = invitations[j]
      /\ clock' = clock /\ redemptions' = redemptions
  BY <1>1 DEF ReissueUserInvitation, StoreTypeOK
<1>7. /\ issued[c] = NoRow /\ issued'[c] # NoRow
      /\ \A d \in Codes : d # c => issued'[d] = issued[d]
  BY <1>1, <1>4 DEF ReissueUserInvitation, FreshCode, StoreTypeOK
<1>8. /\ Rows(invitations) = {j \in InvitationIDs : invitations[j] # NoRow}
      /\ Rows(invitations)' =
            {j \in InvitationIDs : invitations'[j] # NoRow}
  BY <1>1 DEF StoreTypeOK, Rows
<1>9. Works(c)'
  BY <1>4, <1>5, <1>6, <1>8 DEF Works, InvitationsWithCode, InvitationStatus
<1>10. InvitationStatus(invitations[i]) # "active"
  BY DEF ReissueUserInvitation, Reissuable
<1>11. ASSUME NEW d \in Codes, d # c
       PROVE  Works(d)' <=> Works(d)
  <2>1. \A j \in InvitationIDs : j # i =>
           (j \in InvitationsWithCode(d)' <=> j \in InvitationsWithCode(d))
    BY <1>6, <1>8 DEF InvitationsWithCode
  <2>2. i \notin InvitationsWithCode(d)'
    BY <1>4, <1>6, <1>11 DEF InvitationsWithCode
  <2>3. \A j \in InvitationIDs : j # i =>
           InvitationStatus(invitations[j])' = InvitationStatus(invitations[j])
    BY <1>6 DEF InvitationStatus
  <2>4. /\ InvitationsWithCode(d) \subseteq InvitationIDs
        /\ InvitationsWithCode(d)' \subseteq InvitationIDs
    BY <1>8 DEF InvitationsWithCode
  <2>5. QED
    BY <1>10, <2>1, <2>2, <2>3, <2>4 DEF Works
<1>12. QED
  BY <1>6, <1>7, <1>9, <1>11, IssuingStep

\* A redemption uses its code: the row's status was tested in the same
\* transaction, so the code is open, and the account's id is new.
LEMMA RedeemInvitationUses ==
    ASSUME StoreInv, NEW i \in InvitationIDs, NEW c \in Codes,
           NEW e \in Emails, NEW u \in UserIDs, RedeemInvitation(i, c, e, u)
    PROVE  PromiseStep
<1>1. StoreTypeOK /\ StoreTypeOK'
  BY RedeemInvitationType DEF StoreInv
<1>2. i \in Rows(invitations) /\ invitations[i] \in Invitation
  BY <1>1, RowsOfTables DEF RedeemInvitation, Redeemable
<1>3. Works(c)
  BY <1>2 DEF RedeemInvitation, Redeemable, Works, InvitationsWithCode
<1>4. CodeFate(c) = "open"
  BY <1>3, WorkingCodesAreOpen
<1>5. \A h \in redemptions : h[2] # u
  BY DEF StoreInv, RedemptionsAreFinal, RedeemInvitation, NewUserID
<1>6. /\ redemptions' = redemptions \cup {<<c, u>>}
      /\ issued' = issued /\ clock' = clock
  BY DEF RedeemInvitation
<1>7. /\ invitations'[i] = [invitations[i] EXCEPT !.accepted = TRUE]
      /\ \A j \in InvitationIDs : j # i => invitations'[j] = invitations[j]
  BY <1>1 DEF RedeemInvitation, StoreTypeOK
<1>8. invitations'[i].code = c
  BY <1>2, <1>7 DEF Invitation, RedeemInvitation, Redeemable
<1>9. ASSUME NEW d \in Codes, d # c
      PROVE  Works(d)' <=> Works(d)
  <2>1. /\ Rows(invitations) =
              {j \in InvitationIDs : invitations[j] # NoRow}
        /\ Rows(invitations)' =
              {j \in InvitationIDs : invitations'[j] # NoRow}
    BY <1>1 DEF StoreTypeOK, Rows
  <2>2. i \notin InvitationsWithCode(d) /\ i \notin InvitationsWithCode(d)'
    BY <1>8, <1>9 DEF InvitationsWithCode, RedeemInvitation, Redeemable
  <2>3. InvitationsWithCode(d)' = InvitationsWithCode(d)
    BY <1>7, <2>1, <2>2 DEF InvitationsWithCode
  <2>4. \A j \in InvitationsWithCode(d) :
           InvitationStatus(invitations[j])' = InvitationStatus(invitations[j])
    BY <1>6, <1>7, <2>1, <2>2 DEF InvitationStatus, InvitationsWithCode
  <2>5. QED
    BY <2>3, <2>4 DEF Works
<1>10. \A d \in Codes : d # c => CodeFate(d)' = CodeFate(d)
  BY <1>6, <1>9 DEF CodeFate
<1>11. CodeFate(c)' = "used"
  <2>1. issued[c] # NoRow
    BY <1>4 DEF CodeFate
  <2>2. <<c, u>> \in redemptions' /\ <<c, u>>[1] = c
    BY <1>6
  <2>3. \E r \in redemptions' : r[1] = c
    BY <2>2
  <2>4. QED
    BY <2>1, <2>3, <1>6 DEF CodeFate
<1>12. Promise!Use(c, u)
  BY <1>4, <1>5, <1>6, <1>10, <1>11 DEF Promise!Use
<1>13. QED
  BY <1>12 DEF PromiseStep, Promise!CodesNext

\* The operations that make no code work.
LEMMA ClosingOperations ==
    ASSUME StoreInv,
           \/ \E a \in ArtistIDs, slug \in Slugs : CreateArtist(a, slug)
           \/ \E a \in ArtistIDs : DeleteArtist(a)
           \/ \E i \in InvitationIDs : RevokeInvitation(i)
           \/ \E u \in UserIDs : DeleteUser(u)
           \/ Tick
           \/ UNCHANGED storeVars
    PROVE  PromiseStep
<1>1. issued' = issued /\ redemptions' = redemptions
  BY DEF CreateArtist, DeleteArtist, RevokeInvitation, DeleteUser, Tick,
     storeVars
<1>2. StoreTypeOK /\ StoreTypeOK'
  BY CreateArtistType, DeleteArtistType, RevokeInvitationType,
     DeleteUserType, TickType
     DEF StoreInv, storeVars, tables, StoreTypeOK
<1>3. /\ Rows(invitations) = {j \in InvitationIDs : invitations[j] # NoRow}
      /\ Rows(invitations)' = {j \in InvitationIDs : invitations'[j] # NoRow}
  BY <1>2 DEF StoreTypeOK, Rows
<1>4. /\ clock \in Nat /\ clock' \in Nat /\ clock <= clock'
      /\ \A i \in Rows(invitations) : invitations[i] \in Invitation
  BY <1>2, RowsOfTables
     DEF StoreTypeOK, CreateArtist, DeleteArtist, RevokeInvitation,
         DeleteUser, Tick, storeVars
<1>5. ASSUME NEW i \in InvitationIDs, invitations'[i] # NoRow
      PROVE  \/ invitations'[i] = invitations[i]
             \/ /\ invitations[i] # NoRow
                /\ invitations'[i] = [invitations[i] EXCEPT !.revoked = TRUE]
  BY <1>2, <1>5
     DEF CreateArtist, DeleteArtist, RevokeInvitation, DeleteUser, Tick,
         storeVars, tables, StoreTypeOK
<1>6. ASSUME NEW i \in InvitationIDs, invitations'[i] # NoRow,
             InvitationStatus(invitations[i])' = "active"
      PROVE  invitations'[i] = invitations[i]
  <2>1. ASSUME invitations[i] # NoRow,
               invitations'[i] = [invitations[i] EXCEPT !.revoked = TRUE]
        PROVE  FALSE
    <3>1. invitations[i] \in Invitation
      BY <2>1, <1>3, <1>4
    <3>2. invitations'[i].revoked = TRUE
      BY <2>1, <3>1 DEF Invitation
    <3>3. QED
      BY <3>2, <1>6 DEF InvitationStatus
  <2>2. QED
    BY <2>1, <1>5, <1>6
<1>7. ASSUME NEW i \in InvitationIDs, invitations'[i] # NoRow,
             InvitationStatus(invitations[i])' = "active"
      PROVE  InvitationStatus(invitations[i]) = "active"
  <2>1. invitations'[i] = invitations[i] /\ invitations[i] # NoRow
    BY <1>6, <1>7
  <2>2. /\ ~invitations[i].accepted /\ ~invitations[i].revoked
        /\ ~(invitations[i].expires <= clock')
    BY <2>1, <1>7 DEF InvitationStatus
  <2>3. invitations[i].expires \in Nat
    BY <2>1, <1>3, <1>4 DEF Invitation
  <2>4. ~(invitations[i].expires <= clock)
    BY <2>2, <2>3, <1>4
  <2>5. QED
    BY <2>2, <2>4 DEF InvitationStatus
<1>8. \A c \in Codes : Works(c)' => Works(c)
  BY <1>3, <1>6, <1>7 DEF Works, InvitationsWithCode
<1>9. QED
  BY <1>1, <1>8, ClosingStep

LEMMA PlatformAdminKeepsPromise ==
    StoreInv /\ PlatformAdminNext => PromiseStep
  BY ClosingOperations, CreateUserInvitationIssues, ReissueUserInvitationIssues
     DEF PlatformAdminNext

LEMMA StoreInitPromise == StoreInit => Promise!CodesInit
  BY DEF StoreInit, Promise!CodesInit, CodeFate

\* Issued codes are used at most once, while they are open, and what closes
\* stays closed: the tables implement InvitationCodes.
THEOREM StoreKeepsPromise == StoreSpec => CodesSpec
<1>1. StoreInv /\ [StoreNext]_storeVars => PromiseStep
  <2> SUFFICES ASSUME StoreInv, [StoreNext]_storeVars
               PROVE  PromiseStep
    OBVIOUS
  <2>1. CASE PlatformAdminNext
    BY <2>1, PlatformAdminKeepsPromise
  <2>2. ASSUME NEW c \in Codes, NEW u \in UserIDs,
               NEW i \in InvitationsWithCode(c),
               RedeemInvitation(i, c, invitations[i].email, u)
        PROVE  PromiseStep
    <3>1. i \in InvitationIDs /\ invitations[i] \in Invitation
      BY RowsOfTables DEF InvitationsWithCode, StoreInv
    <3>2. invitations[i].email \in Emails
      BY <3>1 DEF Invitation
    <3>3. QED
      BY <2>2, <3>1, <3>2, RedeemInvitationUses
  <2>3. CASE Tick \/ UNCHANGED storeVars
    BY <2>3, ClosingOperations
  <2>4. QED
    BY <2>1, <2>2, <2>3 DEF StoreNext
<1>2. QED
  BY StoreInitPromise, StoreInvariant, <1>1, PTL
     DEF StoreSpec, CodesSpec, Promise!CodesSpec, PromiseStep, PromiseVars

-----------------------------------------------------------------------------
(* What the promise is worth, and what is left of a code. *)

\* What a code has come to it stays: used or closed, for ever.
FatesAreFinal ==
    [][\A c \in Codes : CodeFate(c) \in {"used", "closed"} =>
           CodeFate(c)' = CodeFate(c)]_storeVars

\* A holder's code is used, and no two holders share a code or an account.
HoldersAreFinal ==
    /\ \A h \in redemptions :
           h \in Codes \X UserIDs /\ CodeFate(h[1]) = "used"
    /\ OneAccountPerCode

LEMMA PromiseStepKeepsHolders ==
    ASSUME HoldersAreFinal, PromiseStep
    PROVE  /\ HoldersAreFinal'
           /\ \A c \in Codes : CodeFate(c) \in {"used", "closed"} =>
                  CodeFate(c)' = CodeFate(c)
<1>1. CASE UNCHANGED PromiseVars
  <2>1. redemptions' = redemptions /\ \A c \in Codes : CodeFate(c)' = CodeFate(c)
    BY <1>1 DEF PromiseVars
  <2>2. QED
    BY <2>1 DEF HoldersAreFinal, OneAccountPerCode
<1>2. ASSUME NEW c \in Codes, Promise!Issue(c)
      PROVE  /\ HoldersAreFinal'
             /\ \A d \in Codes : CodeFate(d) \in {"used", "closed"} =>
                    CodeFate(d)' = CodeFate(d)
  <2>1. /\ redemptions' = redemptions
        /\ CodeFate(c) = "unissued"
        /\ \A d \in Codes : d # c => CodeFate(d)' = CodeFate(d)
    BY <1>2 DEF Promise!Issue
  <2>2. QED
    BY <2>1 DEF HoldersAreFinal, OneAccountPerCode
<1>3. ASSUME NEW S \in SUBSET Codes, Promise!Close(S)
      PROVE  /\ HoldersAreFinal'
             /\ \A d \in Codes : CodeFate(d) \in {"used", "closed"} =>
                    CodeFate(d)' = CodeFate(d)
  <2>1. /\ redemptions' = redemptions
        /\ \A d \in S : CodeFate(d) = "open"
        /\ \A d \in Codes : d \notin S => CodeFate(d)' = CodeFate(d)
    BY <1>3 DEF Promise!Close
  <2>2. QED
    BY <2>1 DEF HoldersAreFinal, OneAccountPerCode
<1>4. ASSUME NEW c \in Codes, NEW u \in UserIDs, Promise!Use(c, u)
      PROVE  /\ HoldersAreFinal'
             /\ \A d \in Codes : CodeFate(d) \in {"used", "closed"} =>
                    CodeFate(d)' = CodeFate(d)
  <2>1. /\ redemptions' = redemptions \cup {<<c, u>>}
        /\ \A h \in redemptions : h[2] # u
        /\ CodeFate(c) = "open" /\ CodeFate(c)' = "used"
        /\ \A d \in Codes : d # c => CodeFate(d)' = CodeFate(d)
    BY <1>4 DEF Promise!Use
  <2>2. \A h \in redemptions : h[1] # c
    BY <2>1 DEF HoldersAreFinal
  <2>3. OneAccountPerCode'
    BY <2>1, <2>2 DEF HoldersAreFinal, OneAccountPerCode
  <2>4. QED
    BY <2>1, <2>2, <2>3 DEF HoldersAreFinal
<1>5. QED
  BY <1>1, <1>2, <1>3, <1>4 DEF PromiseStep, Promise!CodesNext

\* The promise is enough: whatever keeps it opens one account with a code,
\* without a look at tables, methods or handlers.
THEOREM PromiseIsEnough == CodesSpec => []OneAccountPerCode
<1>1. Promise!CodesInit => HoldersAreFinal
  BY DEF Promise!CodesInit, HoldersAreFinal, OneAccountPerCode
<1>2. HoldersAreFinal /\ PromiseStep => HoldersAreFinal'
  BY PromiseStepKeepsHolders
<1>3. HoldersAreFinal => OneAccountPerCode
  BY DEF HoldersAreFinal
<1>4. QED
  BY <1>1, <1>2, <1>3, PTL
     DEF CodesSpec, Promise!CodesSpec, PromiseStep, PromiseVars

\* A code that was used, revoked, reissued, deleted or has expired never opens
\* an account again (ErrInvitationAccepted and its like are for ever).
THEOREM FatesAreAlwaysFinal == StoreSpec => FatesAreFinal
<1> DEFINE Final == \A c \in Codes : CodeFate(c) \in {"used", "closed"} =>
                        CodeFate(c)' = CodeFate(c)
<1>1. Promise!CodesInit => HoldersAreFinal
  BY DEF Promise!CodesInit, HoldersAreFinal, OneAccountPerCode
<1>2. HoldersAreFinal /\ PromiseStep => HoldersAreFinal' /\ Final
  BY PromiseStepKeepsHolders
<1>3. CodesSpec => [][Final]_storeVars
  BY <1>1, <1>2, PTL
     DEF CodesSpec, Promise!CodesSpec, PromiseStep, PromiseVars
<1>4. QED
  BY <1>3, StoreKeepsPromise, PTL DEF FatesAreFinal

\* Time runs out for an open code: its end lies ahead, at most a lifetime away,
\* and IdsStayForEver says that no method ever moves it.  OpenCodesClose follows
\* from this and from the passing of time alone.
OpenCodesRunOut ==
    \A c \in Codes : CodeFate(c) = "open" =>
        /\ clock < issued[c].expires
        /\ issued[c].expires <= clock + InvitationLifetime

\* No grant reaches further.
GrantsAreShort ==
    \A c \in Codes : issued[c] # NoRow =>
        issued[c].expires <= clock + InvitationLifetime

LEMMA NewGrantIsShort ==
    ASSUME StoreInv, GrantsAreShort, NEW d \in Codes, NEW e, NEW a,
           issued' = [issued EXCEPT ![d] = NewGrant(e, a)], clock' = clock
    PROVE  GrantsAreShort'
<1>1. NewGrant(e, a).expires = clock + InvitationLifetime
  BY DEF NewGrant
<1>2. /\ issued'[d].expires = clock + InvitationLifetime
      /\ \A c \in Codes : c # d => issued'[c] = issued[c]
  BY <1>1 DEF StoreInv, StoreTypeOK
<1>3. QED
  BY <1>2, LifetimeAssumption DEF GrantsAreShort, StoreInv, StoreTypeOK

LEMMA GrantsStayShort ==
    ASSUME StoreInv, GrantsAreShort, [StoreNext]_storeVars
    PROVE  GrantsAreShort'
<1>1. CASE issued' = issued /\ clock' \in {clock, clock + 1}
  <2>1. ASSUME NEW c \in Codes, issued[c] # NoRow
        PROVE  issued[c].expires \in Nat
    BY <2>1 DEF StoreInv, StoreTypeOK, Grant
  <2>2. QED
    BY <1>1, <2>1, LifetimeAssumption DEF GrantsAreShort, StoreInv, StoreTypeOK
<1>2. ASSUME NEW i \in InvitationIDs, NEW e \in Emails, NEW c \in Codes,
             NEW a \in ArtistIDs, CreateUserInvitation(i, e, c, a)
      PROVE  GrantsAreShort'
  BY <1>2, NewGrantIsShort DEF CreateUserInvitation
<1>3. ASSUME NEW i \in InvitationIDs, NEW c \in Codes, NEW a \in ArtistIDs,
             ReissueUserInvitation(i, c, a)
      PROVE  GrantsAreShort'
  BY <1>3, NewGrantIsShort DEF ReissueUserInvitation
<1>4. QED
  BY <1>1, <1>2, <1>3
     DEF StoreNext, PlatformAdminNext, CreateArtist, DeleteArtist,
         RevokeInvitation, DeleteUser, RedeemInvitation, Tick, storeVars

\* An open code has at most InvitationLifetime left, and less at every tick.
THEOREM OpenCodesAlwaysRunOut == StoreSpec => []OpenCodesRunOut
<1>1. StoreInit => GrantsAreShort
  BY DEF StoreInit, GrantsAreShort
<1>2. StoreInv /\ GrantsAreShort /\ [StoreNext]_storeVars => GrantsAreShort'
  BY GrantsStayShort
<1>3. ASSUME StoreInv, GrantsAreShort, NEW c \in Codes, CodeFate(c) = "open"
      PROVE  /\ clock < issued[c].expires
             /\ issued[c].expires <= clock + InvitationLifetime
  <2>1. issued[c] # NoRow /\ Works(c)
    BY <1>3 DEF CodeFate
  <2>2. PICK i \in Rows(invitations) :
           /\ invitations[i].code = c
           /\ InvitationStatus(invitations[i]) = "active"
    BY <2>1 DEF Works, InvitationsWithCode
  <2>3. issued[c].expires = invitations[i].expires
    <3>1. issued[c] = [email |-> invitations[i].email,
                       artist |-> invitations[i].artist,
                       expires |-> invitations[i].expires]
      BY <1>3, <2>2 DEF StoreInv, RowsMatchGrants
    <3>2. QED
      BY <3>1
  <2>4. /\ invitations[i].expires \in Nat /\ clock \in Nat
        /\ ~(invitations[i].expires <= clock)
    BY <1>3, <2>2, RowsOfTables
       DEF StoreInv, StoreTypeOK, Invitation, InvitationStatus
  <2>5. QED
    BY <1>3, <2>1, <2>3, <2>4 DEF GrantsAreShort
<1>4. StoreInv /\ GrantsAreShort => OpenCodesRunOut
  BY <1>3 DEF OpenCodesRunOut
<1>5. QED
  BY <1>1, <1>2, <1>4, StoreInvariant, PTL DEF StoreSpec

=============================================================================
