--------------------------- MODULE AdminSite_proofs ---------------------------
(***************************************************************************)
(* What the handlers do with looked-up rows is sound for any number of     *)
(* requests in flight.                                                     *)
(***************************************************************************)
EXTENDS AdminSite, AccountStore_proofs

USE NoRowIsNoRecord, SessionAssumption, NoRowIsNoUser

-----------------------------------------------------------------------------
(* The local variables of a handler, by program counter. *)

LEMMA LocalsByCounter ==
    ASSUME NEW s \in RequestState
    PROVE  /\ s.pc = "hashing" => /\ s.invitation \in InvitationIDs
                                  /\ s.code \in Codes
                                  /\ s.email \in Emails
           /\ s.pc = "minting" => s.user \in UserIDs /\ s.email \in Emails
           /\ s.pc = "listing" => s.user \in UserIDs
           /\ s.pc = "writing" => s.user \in UserIDs /\ s.artist \in ArtistIDs
  BY DEF RequestState, Idle

\* An account once seen stays seen, an invitation once made stays made.
LEMMA SightingsLast ==
    ASSUME StoreInv, NothingIsTakenBack
    PROVE  /\ \A u \in UserIDs, e \in Emails : Seen(u, e) => Seen(u, e)'
           /\ \A u \in UserIDs, a \in ArtistIDs :
                 Invited(u, a) => Invited(u, a)'
<1>1. ASSUME NEW u \in UserIDs, NEW a \in ArtistIDs, Invited(u, a)
      PROVE  Invited(u, a)'
  <2>1. PICK g \in redemptions : g[2] = u /\ issued[g[1]].artist = a
    BY <1>1 DEF Invited
  <2>2. g \in redemptions' /\ issued'[g[1]] = issued[g[1]]
    BY DEF NothingIsTakenBack, StoreInv, StoreTypeOK, RedemptionsAreFinal
  <2>3. QED
    BY <2>1, <2>2 DEF Invited
<1>2. QED
  BY <1>1 DEF Seen, NothingIsTakenBack

LEMMA LocalsLast ==
    ASSUME StoreInv, NothingIsTakenBack, NEW s \in RequestState,
           LocalsAreSound(s)
    PROVE  /\ s.pc = "hashing" =>
                 issued'[s.code] # NoRow /\ issued'[s.code].email = s.email
           /\ s.pc = "minting" => Seen(s.user, s.email)'
           /\ s.pc = "writing" =>
                 /\ Invited(s.user, s.artist)'
                 /\ \/ <<s.user, s.artist>> \in userArtists'
                    \/ s.user \in revocations'
<1>1. CASE s.pc = "hashing"
  BY <1>1, LocalsByCounter DEF LocalsAreSound, NothingIsTakenBack
<1>2. CASE s.pc = "minting"
  BY <1>2, LocalsByCounter, SightingsLast DEF LocalsAreSound
<1>3. CASE s.pc = "writing"
  <2>1. s.user \in UserIDs /\ s.artist \in ArtistIDs
    BY <1>3, LocalsByCounter
  <2>2. Invited(s.user, s.artist)'
    BY <1>3, <2>1, SightingsLast DEF LocalsAreSound
  <2>3. \/ <<s.user, s.artist>> \in userArtists'
        \/ s.user \in revocations'
    BY <1>3 DEF LocalsAreSound, NothingIsTakenBack
  <2>4. QED
    BY <1>3, <2>2, <2>3
<1>4. QED
  BY <1>1, <1>2, <1>3

-----------------------------------------------------------------------------
(* Types *)

LEMMA GotoType ==
    ASSUME SiteTypeOK, NEW r \in Requests, NEW s \in RequestState, Goto(r, s)
    PROVE  req' \in [Requests -> RequestState]
  BY DEF SiteTypeOK, Goto

\* A request's step keeps the site's own variables in their types.
LEMMA RequestStepType ==
    ASSUME SiteTypeOK, NEW r \in Requests, RequestStep(r)
    PROVE  /\ req' \in [Requests -> RequestState]
           /\ tokens' \subseteq Token
           /\ metaPixel' \in [ArtistIDs -> UserIDs \cup {NoRow}]
<1> USE DEF SiteTypeOK
<1>1. req[r] \in RequestState /\ Idle \in RequestState
  BY DEF RequestState
<1>2. clock \in Nat
  BY DEF StoreTypeOK
<1>3. ASSUME NEW c \in Codes, RegisterLookup(r, c)
      PROVE  req' \in [Requests -> RequestState]
  <2>1. PICK i \in InvitationsWithCode(c) :
           Goto(r, [pc |-> "hashing", invitation |-> i, code |-> c,
                    email |-> invitations[i].email])
    BY <1>3 DEF RegisterLookup
  <2>2. i \in InvitationIDs /\ invitations[i].email \in Emails
    BY RowsOfTables DEF InvitationsWithCode, Invitation
  <2>3. [pc |-> "hashing", invitation |-> i, code |-> c,
         email |-> invitations[i].email] \in RequestState
    BY <2>2 DEF RequestState
  <2>4. QED
    BY <2>1, <2>3, GotoType
<1>4. ASSUME RegisterRedeem(r)
      PROVE  req' \in [Requests -> RequestState]
  <2>1. PICK u \in UserIDs :
           Goto(r, [pc |-> "minting", user |-> u, email |-> req[r].email])
    BY <1>4 DEF RegisterRedeem
  <2>2. req[r].email \in Emails
    BY <1>1, <1>4, LocalsByCounter DEF RegisterRedeem
  <2>3. [pc |-> "minting", user |-> u, email |-> req[r].email]
           \in RequestState
    BY <2>2 DEF RequestState
  <2>4. QED
    BY <2>1, <2>3, GotoType
<1>5. ASSUME NEW u \in UserIDs, LoginLookup(r, u)
      PROVE  req' \in [Requests -> RequestState]
  <2>1. users[u] \in Emails
    BY <1>5, RowsOfTables DEF LoginLookup
  <2>2. [pc |-> "minting", user |-> u, email |-> users[u]] \in RequestState
    BY <2>1 DEF RequestState
  <2>3. QED
    BY <1>5, <2>2, GotoType DEF LoginLookup
<1>6. ASSUME MintToken(r)
      PROVE  req' \in [Requests -> RequestState] /\ tokens' \subseteq Token
  <2>1. req[r].user \in UserIDs /\ req[r].email \in Emails
    BY <1>1, <1>6, LocalsByCounter DEF MintToken
  <2>2. [user |-> req[r].user, email |-> req[r].email, issuedAt |-> clock]
           \in Token
    BY <1>2, <2>1 DEF Token
  <2>3. QED
    BY <1>1, <1>6, <2>2, GotoType DEF MintToken
<1>7. ASSUME NEW t \in tokens, SettingsAuthenticate(r, t)
      PROVE  req' \in [Requests -> RequestState]
  <2>1. [pc |-> "listing", user |-> t.user] \in RequestState
    BY DEF RequestState, Token
  <2>2. QED
    BY <1>7, <2>1, GotoType DEF SettingsAuthenticate
<1>8. ASSUME SettingsActiveArtist(r)
      PROVE  req' \in [Requests -> RequestState]
  <2>1. req[r].user \in UserIDs
    BY <1>1, <1>8, LocalsByCounter DEF SettingsActiveArtist
  <2>2. \A a \in ListArtistsForUser(req[r].user) :
           [pc |-> "writing", user |-> req[r].user, artist |-> a]
              \in RequestState
    BY <2>1, RowsOfTables DEF RequestState, ListArtistsForUser
  <2>3. QED
    BY <1>1, <1>8, <2>2, GotoType DEF SettingsActiveArtist
<1>9. ASSUME SettingsWrite(r)
      PROVE  /\ req' \in [Requests -> RequestState]
             /\ metaPixel' \in [ArtistIDs -> UserIDs \cup {NoRow}]
  <2>1. req[r].user \in UserIDs /\ req[r].artist \in ArtistIDs
    BY <1>1, <1>9, LocalsByCounter DEF SettingsWrite
  <2>2. QED
    BY <1>1, <1>9, <2>1, GotoType DEF SettingsWrite
<1>10. ASSUME RegisterRefused(r) \/ RequestFails(r)
       PROVE  req' \in [Requests -> RequestState]
  BY <1>1, <1>10, GotoType DEF RegisterRefused, RequestFails
<1>11. MintToken(r) \/ tokens' = tokens
  BY DEF RequestStep, RegisterLookup, RegisterRedeem, RegisterRefused,
     LoginLookup, SettingsAuthenticate, SettingsActiveArtist, SettingsWrite,
     RequestFails
<1>12. SettingsWrite(r) \/ metaPixel' = metaPixel
  BY DEF RequestStep, RegisterLookup, RegisterRedeem, RegisterRefused,
     LoginLookup, SettingsAuthenticate, SettingsActiveArtist, MintToken,
     RequestFails
<1>13. QED
  BY <1>3, <1>4, <1>5, <1>6, <1>7, <1>8, <1>9, <1>10, <1>11, <1>12
     DEF RequestStep

-----------------------------------------------------------------------------
(* The invariant *)

LEMMA SiteInvInit == SiteInit => SiteInv
<1> SUFFICES ASSUME SiteInit PROVE SiteInv
  OBVIOUS
<1>1. StoreInv
  BY StoreInvInit DEF SiteInit
<1>2. SiteTypeOK
  BY <1>1 DEF SiteInit, SiteTypeOK, RequestState, StoreInv
<1>3. \A r \in Requests : LocalsAreSound(req[r])
  BY DEF SiteInit, LocalsAreSound, Idle
<1>4. QED
  BY <1>1, <1>2, <1>3 DEF SiteInit, StoreInit, SiteInv,
     MembershipsAreInvited, SettingsByAnAdministrator

\* What a step of the store leaves for the requests that did not take it.
LEMMA StoreStepKeepsSite ==
    ASSUME SiteInv, StoreInv', NothingIsTakenBack
    PROVE  /\ \A r \in Requests :
                 req'[r] = req[r] => LocalsAreSound(req[r])'
           /\ \A t \in tokens : Seen(t.user, t.email)'
           /\ \A m \in userArtists : Invited(m[1], m[2])'
           /\ \A a \in ArtistIDs :
                 metaPixel[a] # NoRow =>
                    \E g \in redemptions' :
                       g[2] = metaPixel[a] /\ issued'[g[1]].artist = a
<1> USE DEF SiteInv
<1>1. ASSUME NEW r \in Requests, req'[r] = req[r]
      PROVE  LocalsAreSound(req[r])'
  <2>1. req[r] \in RequestState
    BY DEF SiteTypeOK
  <2>2. QED
    BY <1>1, <2>1, LocalsLast DEF LocalsAreSound
<1>2. \A t \in tokens : t.user \in UserIDs /\ t.email \in Emails
  BY DEF SiteTypeOK, Token
<1>3. \A m \in userArtists : m[1] \in UserIDs /\ m[2] \in ArtistIDs
  BY DEF StoreInv, StoreTypeOK
<1>4. \A a \in ArtistIDs :
         metaPixel[a] # NoRow =>
            metaPixel[a] \in UserIDs /\ Invited(metaPixel[a], a)
  BY DEF SiteTypeOK, SettingsByAnAdministrator, Invited
<1>5. \A t \in tokens : Seen(t.user, t.email)'
  BY <1>2, SightingsLast
<1>6. ASSUME NEW m \in userArtists
      PROVE  Invited(m[1], m[2])'
  <2>1. PICK u \in UserIDs, a \in ArtistIDs : u = m[1] /\ a = m[2]
    BY <1>3
  <2>2. Invited(u, a)
    BY <2>1 DEF MembershipsAreInvited
  <2>3. Invited(u, a)'
    BY <2>2, SightingsLast
  <2>4. QED
    BY <2>1, <2>3 DEF Invited
<1>7. ASSUME NEW a \in ArtistIDs, metaPixel[a] # NoRow
      PROVE  \E g \in redemptions' :
                g[2] = metaPixel[a] /\ issued'[g[1]].artist = a
  <2>1. PICK u \in UserIDs : u = metaPixel[a] /\ Invited(u, a)
    BY <1>4, <1>7
  <2>2. Invited(u, a)'
    BY <2>1, SightingsLast
  <2>3. QED
    BY <2>1, <2>2 DEF Invited
<1>8. QED
  BY <1>1, <1>5, <1>6, <1>7

LEMMA PlatformAdminStepInv == SiteInv /\ PlatformAdminStep => SiteInv'
<1> SUFFICES ASSUME SiteInv, PlatformAdminStep PROVE SiteInv'
  OBVIOUS
<1>1. StoreInv' /\ NothingIsTakenBack
  BY PlatformAdminInv, PlatformAdminTakesNothingBack
     DEF PlatformAdminStep, SiteInv
<1>2. /\ req' = req /\ tokens' = tokens
      /\ metaPixel' \in [ArtistIDs -> UserIDs \cup {NoRow}]
      /\ \A a \in ArtistIDs : metaPixel'[a] # NoRow =>
            metaPixel'[a] = metaPixel[a]
  BY DEF PlatformAdminStep, SiteInv, SiteTypeOK
<1>3. userArtists' \subseteq userArtists
  BY DEF PlatformAdminStep, PlatformAdminNext, CreateArtist, DeleteArtist,
     CreateUserInvitation, ReissueUserInvitation, RevokeInvitation, DeleteUser
<1>4. SiteTypeOK'
  BY <1>1, <1>2 DEF SiteInv, SiteTypeOK, StoreInv
<1>5. QED
  BY <1>1, <1>2, <1>3, <1>4, StoreStepKeepsSite
     DEF SiteInv, MembershipsAreInvited, SettingsByAnAdministrator, Invited

\* Nothing but the clock, or nothing at all, has changed.
LEMMA ClockStepInv ==
    ASSUME SiteInv, ClockStep \/ UNCHANGED siteVars
    PROVE  SiteInv'
<1>1. UNCHANGED <<tables, issued, redemptions, req, tokens, metaPixel>>
  BY DEF ClockStep, Tick, siteVars, storeVars
<1>2. clock' \in Nat
  BY DEF ClockStep, Tick, siteVars, storeVars, SiteInv, SiteTypeOK, StoreTypeOK
<1>3. StoreInv' /\ NothingIsTakenBack
  BY <1>1, <1>2, SameTablesInv, IdleTablesTakeNothingBack DEF SiteInv
<1>4. SiteTypeOK'
  BY <1>1, <1>3 DEF SiteInv, SiteTypeOK, StoreInv
<1>5. userArtists' = userArtists
  BY <1>1 DEF tables
<1>6. QED
  BY <1>1, <1>3, <1>4, <1>5, StoreStepKeepsSite
     DEF SiteInv, MembershipsAreInvited, SettingsByAnAdministrator, Invited

\* The redemption is made with the e-mail of the row: the lookup's e-mail is
\* the one the code was issued for, and so is the row's.
LEMMA RegisterRedeemStore ==
    ASSUME SiteInv, NEW r \in Requests, RegisterRedeem(r)
    PROVE  \E u \in UserIDs :
              /\ RedeemInvitation(req[r].invitation, req[r].code,
                                  req[r].email, u)
              /\ Goto(r, [pc |-> "minting", user |-> u,
                          email |-> req[r].email])
              /\ req[r].invitation \in InvitationIDs
              /\ req[r].code \in Codes
              /\ req[r].email \in Emails
              /\ req[r].email = invitations[req[r].invitation].email
<1> DEFINE i == req[r].invitation
           c == req[r].code
<1>1. PICK u \in UserIDs :
         /\ RedeemInvitation(i, c, req[r].email, u)
         /\ Goto(r, [pc |-> "minting", user |-> u, email |-> req[r].email])
  BY DEF RegisterRedeem
<1>2. req[r] \in RequestState /\ req[r].pc = "hashing"
  BY DEF SiteInv, SiteTypeOK, RegisterRedeem
<1>3. i \in InvitationIDs /\ c \in Codes /\ req[r].email \in Emails
  BY <1>2, LocalsByCounter
<1>4. issued[c].email = req[r].email
  BY <1>2 DEF SiteInv, LocalsAreSound
<1>5. i \in Rows(invitations) /\ invitations[i].code = c
  BY <1>1, <1>3, RowsOfTables
     DEF RedeemInvitation, Redeemable, SiteInv, StoreInv
<1>6. issued[c].email = invitations[i].email
  <2>1. issued[c] = [email |-> invitations[i].email,
                     artist |-> invitations[i].artist,
                     expires |-> invitations[i].expires]
    BY <1>5 DEF SiteInv, StoreInv, RowsMatchGrants
  <2>2. QED
    BY <2>1
<1>7. QED
  BY <1>1, <1>3, <1>4, <1>6

LEMMA RegisterRedeemInv ==
    ASSUME SiteInv, NEW r \in Requests, RegisterRedeem(r)
    PROVE  SiteInv'
<1> DEFINE i == req[r].invitation
           c == req[r].code
           e == req[r].email
<1>1. PICK u \in UserIDs :
         /\ RedeemInvitation(i, c, e, u)
         /\ Goto(r, [pc |-> "minting", user |-> u, email |-> e])
         /\ i \in InvitationIDs /\ c \in Codes /\ e \in Emails
         /\ e = invitations[i].email
  BY RegisterRedeemStore
<1>2. StoreInv' /\ NothingIsTakenBack
  BY <1>1, RedeemInvitationInv, RedeemTakesNothingBack DEF SiteInv
<1>3. SiteTypeOK'
  BY <1>2, RequestStepType
     DEF SiteInv, SiteTypeOK, StoreInv, RequestStep
<1>4. u \in everUsed'.users /\ users'[u] = e
  BY <1>1 DEF RedeemInvitation, SiteInv, StoreInv, StoreTypeOK
<1>5. /\ req'[r] = [pc |-> "minting", user |-> u, email |-> e]
      /\ \A q \in Requests : q # r => req'[q] = req[q]
  BY <1>1 DEF Goto, SiteInv, SiteTypeOK
<1>6. LocalsAreSound(req[r])'
  BY <1>4, <1>5 DEF LocalsAreSound, Seen
<1>7. \A q \in Requests : LocalsAreSound(req[q])'
  BY <1>2, <1>5, <1>6, StoreStepKeepsSite
<1>8. MembershipsAreInvited'
  <2>1. i \in Rows(invitations) /\ invitations[i].code = c
    BY <1>1, RowsOfTables
       DEF RedeemInvitation, Redeemable, SiteInv, StoreInv
  <2>2. PICK a \in ArtistIDs : a = invitations[i].artist
    BY <2>1, RowsOfTables DEF Invitation, SiteInv, StoreInv
  <2>3. issued[c] = [email |-> invitations[i].email, artist |-> a,
                     expires |-> invitations[i].expires]
    BY <2>1, <2>2 DEF SiteInv, StoreInv, RowsMatchGrants
  <2>4. /\ <<c, u>> \in redemptions' /\ issued' = issued
        /\ userArtists' = userArtists \cup {<<u, a>>}
    BY <1>1, <2>2 DEF RedeemInvitation
  <2>5. Invited(u, a)'
    <3>1. <<c, u>>[2] = u /\ issued'[<<c, u>>[1]].artist = a
      BY <2>3, <2>4
    <3>2. QED
      BY <2>4, <3>1 DEF Invited
  <2>6. ASSUME NEW m \in userArtists'
        PROVE  Invited(m[1], m[2])'
    <3>1. CASE m \in userArtists
      BY <3>1, <1>2, StoreStepKeepsSite
    <3>2. CASE m = <<u, a>>
      BY <3>2, <2>5 DEF Invited
    <3>3. QED
      BY <3>1, <3>2, <2>4
  <2>7. QED
    BY <2>6 DEF MembershipsAreInvited
<1>9. tokens' = tokens /\ metaPixel' = metaPixel
  BY DEF RegisterRedeem
<1>10. QED
  BY <1>2, <1>3, <1>7, <1>8, <1>9, StoreStepKeepsSite
     DEF SiteInv, SettingsByAnAdministrator, Invited

\* A step that leaves the store alone needs only the new local variables of
\* its own request, the new tokens and the new settings to be sound.
LEMMA StoreUnchangedInv ==
    ASSUME SiteInv, NEW r \in Requests, RequestStep(r), UNCHANGED storeVars,
           LocalsAreSound(req[r])',
           \A q \in Requests : q # r => req'[q] = req[q],
           \A t \in tokens' : Seen(t.user, t.email),
           \A a \in ArtistIDs :
              metaPixel'[a] # NoRow => Invited(metaPixel'[a], a)
    PROVE  SiteInv'
<1>1. /\ issued' = issued /\ redemptions' = redemptions /\ clock' = clock
      /\ users' = users /\ everUsed' = everUsed
      /\ userArtists' = userArtists
      /\ UNCHANGED <<tables, issued, redemptions>>
  BY DEF storeVars, tables
<1>2. StoreInv' /\ NothingIsTakenBack
  BY <1>1, SameTablesInv, IdleTablesTakeNothingBack
     DEF SiteInv, StoreInv, StoreTypeOK
<1>3. SiteTypeOK'
  BY <1>2, RequestStepType DEF SiteInv, SiteTypeOK, StoreInv
<1>4. \A q \in Requests : LocalsAreSound(req[q])'
  BY <1>2, StoreStepKeepsSite
<1>5. MembershipsAreInvited'
  BY <1>1 DEF SiteInv, MembershipsAreInvited, Invited
<1>6. \A t \in tokens' : Seen(t.user, t.email)'
  BY <1>1 DEF Seen
<1>7. SettingsByAnAdministrator'
  BY <1>1 DEF SettingsByAnAdministrator, Invited
<1>8. QED
  BY <1>2, <1>3, <1>4, <1>5, <1>6, <1>7 DEF SiteInv

\* Every other step of a handler.
LEMMA RequestStepInv ==
    ASSUME SiteInv, NEW r \in Requests, RequestStep(r)
    PROVE  SiteInv'
<1> USE DEF SiteInv
<1>1. req[r] \in RequestState /\ req \in [Requests -> RequestState]
  BY DEF SiteTypeOK
<1>2. LocalsAreSound(Idle)'
  BY DEF LocalsAreSound, Idle
<1>3. \A a \in ArtistIDs : metaPixel[a] # NoRow => Invited(metaPixel[a], a)
  BY DEF SettingsByAnAdministrator, Invited
<1>4. ASSUME NEW s, Goto(r, s)
      PROVE  /\ req'[r] = s
             /\ \A q \in Requests : q # r => req'[q] = req[q]
  BY <1>1, <1>4 DEF Goto
<1>5. ASSUME NEW c \in Codes, RegisterLookup(r, c)
      PROVE  SiteInv'
  <2>1. PICK i \in InvitationsWithCode(c) :
           Goto(r, [pc |-> "hashing", invitation |-> i, code |-> c,
                    email |-> invitations[i].email])
    BY <1>5 DEF RegisterLookup
  <2>2. UNCHANGED <<storeVars, tokens, metaPixel>>
    BY <1>5 DEF RegisterLookup
  <2>3. i \in Rows(invitations) /\ invitations[i].code = c
    BY DEF InvitationsWithCode
  <2>4. invitations[i] \in Invitation
    BY <2>3, RowsOfTables DEF StoreInv
  <2>5. issued[c] = [email |-> invitations[i].email,
                     artist |-> invitations[i].artist,
                     expires |-> invitations[i].expires]
    BY <2>3 DEF StoreInv, RowsMatchGrants
  <2>6. issued[c] \in Grant
    BY <2>4, <2>5 DEF Invitation, Grant
  <2>7. issued[c] # NoRow /\ issued[c].email = invitations[i].email
    <3>1. issued[c] # NoRow
      BY <2>6
    <3>2. issued[c].email = invitations[i].email
      BY <2>5
    <3>3. QED
      BY <3>1, <3>2
  <2>8. req'[r] = [pc |-> "hashing", invitation |-> i, code |-> c,
                   email |-> invitations[i].email]
    BY <2>1, <1>4
  <2>9. issued' = issued
    BY <2>2 DEF storeVars
  <2>10. LocalsAreSound(req[r])'
    BY <2>7, <2>8, <2>9 DEF LocalsAreSound
  <2>11. \A q \in Requests : q # r => req'[q] = req[q]
    BY <2>1, <1>4
  <2>12. RequestStep(r)
    BY <1>5 DEF RequestStep
  <2>13. QED
    BY <1>3, <2>2, <2>10, <2>11, <2>12, StoreUnchangedInv
<1>6. ASSUME NEW u \in UserIDs, LoginLookup(r, u)
      PROVE  SiteInv'
  <2>1. /\ UNCHANGED <<storeVars, tokens, metaPixel>>
        /\ users[u] # NoRow
        /\ Goto(r, [pc |-> "minting", user |-> u, email |-> users[u]])
    BY <1>6 DEF LoginLookup
  <2>2. u \in everUsed.users
    BY <2>1, RowsOfTables DEF StoreInv, IdsOfRowsAreUsed
  <2>3. /\ req'[r] = [pc |-> "minting", user |-> u, email |-> users[u]]
        /\ \A q \in Requests : q # r => req'[q] = req[q]
    BY <2>1, <1>4
  <2>4. users' = users /\ everUsed' = everUsed
    BY <2>1 DEF storeVars, tables
  <2>5. LocalsAreSound(req[r])'
    BY <2>2, <2>3, <2>4 DEF LocalsAreSound, Seen
  <2>6. RequestStep(r)
    BY <1>6 DEF RequestStep
  <2>7. QED
    BY <1>3, <2>1, <2>3, <2>5, <2>6, StoreUnchangedInv
<1>7. CASE MintToken(r)
  <2>1. /\ UNCHANGED <<storeVars, metaPixel>>
        /\ tokens' = tokens \cup {[user |-> req[r].user,
                                   email |-> req[r].email,
                                   issuedAt |-> clock]}
        /\ Goto(r, Idle)
    BY <1>7 DEF MintToken
  <2>2. Seen(req[r].user, req[r].email)
    BY <1>7 DEF MintToken, LocalsAreSound
  <2>3. /\ req'[r] = Idle
        /\ \A q \in Requests : q # r => req'[q] = req[q]
    BY <2>1, <1>4
  <2>4. LocalsAreSound(req[r])'
    BY <1>2, <2>3 DEF LocalsAreSound, Idle
  <2>5. \A t \in tokens' : Seen(t.user, t.email)
    BY <2>1, <2>2
  <2>6. QED
    BY <1>3, <2>1, <2>3, <2>4, <2>5, StoreUnchangedInv
<1>8. ASSUME NEW t \in tokens, SettingsAuthenticate(r, t)
      PROVE  SiteInv'
  <2>1. /\ UNCHANGED <<storeVars, tokens, metaPixel>>
        /\ Goto(r, [pc |-> "listing", user |-> t.user])
    BY <1>8 DEF SettingsAuthenticate
  <2>2. /\ req'[r] = [pc |-> "listing", user |-> t.user]
        /\ \A q \in Requests : q # r => req'[q] = req[q]
    BY <2>1, <1>4
  <2>3. LocalsAreSound(req[r])'
    BY <2>2 DEF LocalsAreSound
  <2>4. RequestStep(r)
    BY <1>8 DEF RequestStep
  <2>5. QED
    BY <1>3, <2>1, <2>2, <2>3, <2>4, StoreUnchangedInv
<1>9. CASE SettingsActiveArtist(r)
  <2>1. UNCHANGED <<storeVars, tokens, metaPixel>>
    BY <1>9 DEF SettingsActiveArtist
  <2>2. CASE Goto(r, Idle)
    <3>1. /\ req'[r] = Idle
          /\ \A q \in Requests : q # r => req'[q] = req[q]
      BY <2>2, <1>4
    <3>2. LocalsAreSound(req[r])'
      BY <3>1 DEF LocalsAreSound, Idle
    <3>3. QED
      BY <1>3, <2>1, <3>1, <3>2, StoreUnchangedInv
  <2>3. ASSUME NEW a \in ListArtistsForUser(req[r].user),
               Goto(r, [pc |-> "writing", user |-> req[r].user, artist |-> a])
        PROVE  SiteInv'
    <3>1. /\ req'[r] = [pc |-> "writing", user |-> req[r].user, artist |-> a]
          /\ \A q \in Requests : q # r => req'[q] = req[q]
      BY <2>3, <1>4
    <3>2. <<req[r].user, a>> \in userArtists
      BY DEF ListArtistsForUser
    <3>3. Invited(req[r].user, a)
      BY <3>2 DEF MembershipsAreInvited
    <3>4. /\ userArtists' = userArtists /\ redemptions' = redemptions
          /\ issued' = issued
      BY <2>1 DEF storeVars, tables
    <3>5. LocalsAreSound(req[r])'
      BY <3>1, <3>2, <3>3, <3>4 DEF LocalsAreSound, Invited
    <3>6. QED
      BY <1>3, <2>1, <3>1, <3>5, StoreUnchangedInv
  <2>4. QED
    BY <1>9, <2>2, <2>3 DEF SettingsActiveArtist
<1>10. CASE SettingsWrite(r)
  <2>1. /\ UNCHANGED <<storeVars, tokens>>
        /\ Goto(r, Idle)
    BY <1>10 DEF SettingsWrite
  <2>2. /\ req'[r] = Idle
        /\ \A q \in Requests : q # r => req'[q] = req[q]
    BY <2>1, <1>4
  <2>3. LocalsAreSound(req[r])'
    BY <2>2 DEF LocalsAreSound, Idle
  <2>4. Invited(req[r].user, req[r].artist)
    BY <1>10 DEF SettingsWrite, LocalsAreSound
  <2>5. metaPixel' = metaPixel
           \/ metaPixel' = [metaPixel EXCEPT ![req[r].artist] = req[r].user]
    BY <1>10 DEF SettingsWrite
  <2>6. \A a \in ArtistIDs :
           metaPixel'[a] # NoRow => Invited(metaPixel'[a], a)
    BY <1>3, <2>4, <2>5 DEF SiteTypeOK
  <2>7. QED
    BY <2>1, <2>2, <2>3, <2>6, StoreUnchangedInv
<1>11. CASE RegisterRefused(r) \/ RequestFails(r)
  <2>1. UNCHANGED <<storeVars, tokens, metaPixel>> /\ Goto(r, Idle)
    BY <1>11 DEF RegisterRefused, RequestFails
  <2>2. /\ req'[r] = Idle
        /\ \A q \in Requests : q # r => req'[q] = req[q]
    BY <2>1, <1>4
  <2>3. LocalsAreSound(req[r])'
    BY <2>2 DEF LocalsAreSound, Idle
  <2>4. QED
    BY <1>3, <2>1, <2>2, <2>3, StoreUnchangedInv
<1>12. QED
  BY <1>5, <1>6, <1>7, <1>8, <1>9, <1>10, <1>11, RegisterRedeemInv
     DEF RequestStep

LEMMA SiteStepInv == SiteInv /\ [SiteNext]_siteVars => SiteInv'
  BY PlatformAdminStepInv, ClockStepInv, RequestStepInv DEF SiteNext

\* Whatever requests are in flight, what they carry is sound.
THEOREM SiteInvariant == SiteSpec => []SiteInv
  BY SiteInvInit, SiteStepInv, PTL DEF SiteSpec

\* The handlers' and the tables' types.
THEOREM SiteTypeCorrect == SiteSpec => []SiteTypeOK
  BY SiteInvariant, PTL DEF SiteInv

\* Authentication by signature, age and revoked id admits live accounts only.
THEOREM SessionsAreAlwaysOfLiveAccounts ==
    SiteSpec => []SessionsAreOfLiveAccounts
<1>1. SiteInv => SessionsAreOfLiveAccounts
  <2> SUFFICES ASSUME SiteInv, NEW t \in tokens, Authenticates(t)
               PROVE  users[t.user] = t.email
    BY DEF SessionsAreOfLiveAccounts
  <2>1. Seen(t.user, t.email) /\ t.user \in UserIDs
    BY DEF SiteInv, SiteTypeOK, Token
  <2>2. t.user \notin revocations
    BY DEF Authenticates, IsUserTokenRevoked
  <2>3. t.user \in Rows(users)
    BY <2>1, <2>2 DEF SiteInv, StoreInv, RevokedExactlyDeleted, Seen
  <2>4. users[t.user] # NoRow
    BY <2>3 DEF Rows
  <2>5. QED
    BY <2>1, <2>4 DEF Seen
<1>2. QED
  BY <1>1, SiteInvariant, PTL

\* A settings request that is about to write had the right to.
THEOREM WritersAreAlwaysAdministrators ==
    SiteSpec => []WritersAreAdministrators
<1>1. SiteInv => WritersAreAdministrators
  BY DEF SiteInv, LocalsAreSound, WritersAreAdministrators
<1>2. QED
  BY <1>1, SiteInvariant, PTL

\* The settings of an artist were written by somebody invited for it.
THEOREM SettingsAlwaysByAnAdministrator ==
    SiteSpec => []SettingsByAnAdministrator
  BY SiteInvariant, PTL DEF SiteInv

\* A registration honours exactly what its code was issued for.
THEOREM AlwaysRedeemedAsGranted == SiteSpec => RedeemedAsGranted
<1> DEFINE Honoured ==
      \A c \in Codes, u \in UserIDs :
         <<c, u>> \in redemptions' \ redemptions =>
            /\ clock < issued[c].expires
            /\ users'[u] = issued[c].email
            /\ <<u, issued[c].artist>> \in userArtists'
<1>1. ASSUME SiteInv, NEW r \in Requests, RegisterRedeem(r)
      PROVE  Honoured
  <2> DEFINE i == req[r].invitation
             d == req[r].code
             e == req[r].email
  <2>1. PICK v \in UserIDs :
           /\ RedeemInvitation(i, d, e, v)
           /\ i \in InvitationIDs /\ d \in Codes /\ e \in Emails
           /\ e = invitations[i].email
    BY <1>1, RegisterRedeemStore
  <2>2. i \in Rows(invitations) /\ invitations[i].code = d
    BY <1>1, <2>1, RowsOfTables
       DEF RedeemInvitation, Redeemable, SiteInv, StoreInv
  <2>3. issued[d] = [email |-> e, artist |-> invitations[i].artist,
                     expires |-> invitations[i].expires]
    BY <1>1, <2>1, <2>2 DEF SiteInv, StoreInv, RowsMatchGrants
  <2>4. invitations[i].expires \in Nat /\ clock \in Nat
    BY <1>1, <2>2, RowsOfTables
       DEF SiteInv, StoreInv, StoreTypeOK, Invitation
  <2>5. ~(invitations[i].expires <= clock)
    BY <2>1 DEF RedeemInvitation, Redeemable, InvitationStatus
  <2>6. clock < issued[d].expires
    BY <2>3, <2>4, <2>5
  <2>7. users'[v] = issued[d].email
    BY <1>1, <2>1, <2>3
       DEF RedeemInvitation, SiteInv, StoreInv, StoreTypeOK
  <2>8. <<v, issued[d].artist>> \in userArtists'
    BY <2>1, <2>3 DEF RedeemInvitation
  <2>9. redemptions' = redemptions \cup {<<d, v>>}
    BY <2>1 DEF RedeemInvitation
  <2>10. QED
    BY <2>6, <2>7, <2>8, <2>9
<1>2. ASSUME SiteInv, SiteNext, \A r \in Requests : ~RegisterRedeem(r)
      PROVE  Honoured
  <2>1. redemptions' = redemptions
    BY <1>2 DEF SiteNext, PlatformAdminStep, PlatformAdminNext, CreateArtist,
       DeleteArtist, CreateUserInvitation, ReissueUserInvitation,
       RevokeInvitation, DeleteUser, ClockStep, Tick, RequestStep,
       RegisterLookup, RegisterRefused, LoginLookup, MintToken,
       SettingsAuthenticate, SettingsActiveArtist, SettingsWrite,
       RequestFails, storeVars
  <2>2. QED
    BY <2>1
<1>3. SiteInv /\ [SiteNext]_siteVars => [Honoured]_siteVars
  BY <1>1, <1>2
<1>4. QED
  BY <1>3, SiteInvariant, PTL DEF SiteSpec, RedeemedAsGranted

\* Whatever the handlers of the site do to the tables is a call of one method of
\* the store, with arguments the method is right for: what was proved of the
\* methods one after the other holds of the site, whose requests interleave.
THEOREM SiteImplementsStore == SiteSpec => StoreSpec
<1>1. SiteInv /\ [SiteNext]_siteVars => [StoreNext]_storeVars
  <2> SUFFICES ASSUME SiteInv, [SiteNext]_siteVars
               PROVE  StoreNext \/ UNCHANGED storeVars
    OBVIOUS
  <2>1. CASE PlatformAdminStep
    BY <2>1 DEF PlatformAdminStep, StoreNext
  <2>2. ASSUME NEW r \in Requests, RegisterRedeem(r)
        PROVE  StoreNext
    <3> DEFINE i == req[r].invitation
               c == req[r].code
    <3>1. PICK u \in UserIDs :
             /\ RedeemInvitation(i, c, req[r].email, u)
             /\ i \in InvitationIDs /\ c \in Codes
             /\ req[r].email = invitations[i].email
      BY <2>2, RegisterRedeemStore
    <3>2. i \in InvitationsWithCode(c)
      BY <3>1, RowsOfTables
         DEF RedeemInvitation, Redeemable, InvitationsWithCode, SiteInv, StoreInv
    <3>3. RedeemInvitation(i, c, invitations[i].email, u)
      BY <3>1
    <3>4. QED
      BY <3>1, <3>2, <3>3 DEF StoreNext
  <2>3. CASE ClockStep
    BY <2>3 DEF ClockStep, StoreNext
  <2>4. ASSUME NEW r \in Requests, RequestStep(r), ~RegisterRedeem(r)
        PROVE  UNCHANGED storeVars
    BY <2>4 DEF RequestStep, RegisterLookup, RegisterRefused, LoginLookup,
       MintToken, SettingsAuthenticate, SettingsActiveArtist, SettingsWrite,
       RequestFails
  <2>5. QED
    BY <2>1, <2>2, <2>3, <2>4 DEF SiteNext, siteVars
<1>2. SiteInit => StoreInit
  BY DEF SiteInit
<1>3. QED
  BY <1>1, <1>2, SiteInvariant, PTL DEF SiteSpec, StoreSpec

\* The handlers use the store only in ways that keep its promise.
THEOREM SiteKeepsPromise == SiteSpec => CodesSpec
  BY SiteImplementsStore, StoreKeepsPromise, PTL

\* A code with which somebody has registered, or that was withdrawn or has run
\* out, opens no further account, whatever registrations are under way.
THEOREM SiteFatesAreFinal == SiteSpec => FatesAreFinal
  BY SiteImplementsStore, FatesAreAlwaysFinal, PTL

=============================================================================
