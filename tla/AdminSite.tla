------------------------------ MODULE AdminSite ------------------------------
(***************************************************************************)
(* The HTTP handlers of the artist administration (src/internal/admin)     *)
(* over the account tables.  net/http runs each request in a goroutine of  *)
(* its own, and a handler makes several repository calls with no           *)
(* transaction around them, so what one call returned may be stale when    *)
(* the next one is made: other requests, and the platform administrator's  *)
(* operations, run in between.  A request is a record with a program       *)
(* counter and the local variables it carries to its next step.            *)
(*                                                                         *)
(* Abstracted: form validation that reads no shared state, password        *)
(* checking (either outcome is possible), pages, the rate limiter (module  *)
(* RateLimiter) and song editing (module SongArtwork).                     *)
(***************************************************************************)
EXTENDS AccountStore

CONSTANTS
    Requests,           \* requests that may be in flight together
    SessionLifetime     \* session.go: SessionLifetime

ASSUME SessionAssumption == SessionLifetime \in Nat
ASSUME NoRowIsNoUser == NoRow \notin UserIDs

VARIABLES
    req,        \* request -> what its handler is doing
    tokens,     \* every session token a browser was ever given
    metaPixel   \* artist -> the user whose settings it shows, or NoRow

siteVars == <<storeVars, req, tokens, metaPixel>>

Idle == [pc |-> "idle"]

\* HandleRegisterSubmit holds the invitation it found while the password is
\* being hashed; it and HandleLoginSubmit then hold a user to make a token
\* for; HandleArtistSettingsSubmit holds the session and then the artist.
RequestState ==
    {Idle}
    \cup [pc : {"hashing"}, invitation : InvitationIDs, code : Codes,
          email : Emails]
    \cup [pc : {"minting"}, user : UserIDs, email : Emails]
    \cup [pc : {"listing"}, user : UserIDs]
    \cup [pc : {"writing"}, user : UserIDs, artist : ArtistIDs]

Token == [user : UserIDs, email : Emails, issuedAt : Nat]

SiteInit ==
    /\ StoreInit
    /\ req = [r \in Requests |-> Idle]
    /\ tokens = {}
    /\ metaPixel = [a \in ArtistIDs |-> NoRow]

Goto(r, state) == req' = [req EXCEPT ![r] = state]

-----------------------------------------------------------------------------
(* HandleRegisterSubmit *)

\* FindInvitationByCodeHash: only an active invitation gets any further.
RegisterLookup(r, c) ==
    /\ req[r] = Idle
    /\ \E i \in InvitationsWithCode(c) :
          /\ InvitationStatus(invitations[i]) = "active"
          /\ Goto(r, [pc |-> "hashing", invitation |-> i, code |-> c,
                      email |-> invitations[i].email])
    /\ UNCHANGED <<storeVars, tokens, metaPixel>>

\* HashUserPassword takes a while; then RedeemInvitation is called with what
\* the lookup returned.
RegisterRedeem(r) ==
    /\ req[r].pc = "hashing"
    /\ \E u \in UserIDs :
          /\ RedeemInvitation(req[r].invitation, req[r].code, req[r].email, u)
          /\ Goto(r, [pc |-> "minting", user |-> u, email |-> req[r].email])
    /\ UNCHANGED <<tokens, metaPixel>>

RegisterRefused(r) ==
    /\ req[r].pc = "hashing"
    /\ ~Redeemable(req[r].invitation, req[r].code, req[r].email)
    /\ Goto(r, Idle)
    /\ UNCHANGED <<storeVars, tokens, metaPixel>>

-----------------------------------------------------------------------------
(* HandleLoginSubmit *)

\* FindUserByEmail; the password is then checked against the hash it returned.
LoginLookup(r, u) ==
    /\ req[r] = Idle
    /\ users[u] # NoRow
    /\ Goto(r, [pc |-> "minting", user |-> u, email |-> users[u]])
    /\ UNCHANGED <<storeVars, tokens, metaPixel>>

\* NewToken: the end of a registration and of a login.
MintToken(r) ==
    /\ req[r].pc = "minting"
    /\ tokens' = tokens \cup {[user |-> req[r].user, email |-> req[r].email,
                               issuedAt |-> clock]}
    /\ Goto(r, Idle)
    /\ UNCHANGED <<storeVars, metaPixel>>

-----------------------------------------------------------------------------
(* Authenticated requests *)

\* parseSignedToken: neither from the future nor older than a day.
TokenIsCurrent(t) ==
    /\ t.issuedAt <= clock
    /\ clock - t.issuedAt <= SessionLifetime

\* Variant: the revocations are not consulted.
IsUserTokenRevoked_Never(u) == FALSE

IsUserTokenRevoked(u) == u \in revocations

\* What authenticatedSession accepts.  Logging out only makes the browser
\* forget its cookie, so a token stays good until it expires.
Authenticates(t) == TokenIsCurrent(t) /\ ~IsUserTokenRevoked(t.user)

SettingsAuthenticate(r, t) ==
    /\ req[r] = Idle
    /\ t \in tokens
    /\ Authenticates(t)
    /\ Goto(r, [pc |-> "listing", user |-> t.user])
    /\ UNCHANGED <<storeVars, tokens, metaPixel>>

\* Variant: the join with user_artists is lost.
ListArtistsForUser_All(u) == Rows(artists)

ListArtistsForUser(u) == {a \in Rows(artists) : <<u, a>> \in userArtists}

\* activeArtistFromRequest: one of the user's artists (the signed cookie says
\* which, otherwise the first by name); with none the request is refused.
SettingsActiveArtist(r) ==
    /\ req[r].pc = "listing"
    /\ LET mine == ListArtistsForUser(req[r].user) IN
          \/ mine = {} /\ Goto(r, Idle)
          \/ \E a \in mine :
                Goto(r, [pc |-> "writing", user |-> req[r].user, artist |-> a])
    /\ UNCHANGED <<storeVars, tokens, metaPixel>>

\* UpdateArtistMetaPixelID, by id; an artist that is gone is a 404.
SettingsWrite(r) ==
    /\ req[r].pc = "writing"
    /\ LET a == req[r].artist IN
          metaPixel' = IF artists[a] # NoRow
                       THEN [metaPixel EXCEPT ![a] = req[r].user]
                       ELSE metaPixel
    /\ Goto(r, Idle)
    /\ UNCHANGED <<storeVars, tokens>>

\* A repository call fails (SQLITE_BUSY, a lost connection), the password is
\* wrong, or the process dies: the handler does nothing more.
RequestFails(r) ==
    /\ req[r] # Idle
    /\ Goto(r, Idle)
    /\ UNCHANGED <<storeVars, tokens, metaPixel>>

-----------------------------------------------------------------------------

\* The pixel id is a column of the artist's row and goes with it.
PlatformAdminStep ==
    /\ PlatformAdminNext
    /\ metaPixel' = [a \in ArtistIDs |->
           IF artists'[a] = NoRow THEN NoRow ELSE metaPixel[a]]
    /\ UNCHANGED <<req, tokens>>

ClockStep == Tick /\ UNCHANGED <<req, tokens, metaPixel>>

RequestStep(r) ==
    \/ \E c \in Codes : RegisterLookup(r, c)
    \/ RegisterRedeem(r)
    \/ RegisterRefused(r)
    \/ \E u \in UserIDs : LoginLookup(r, u)
    \/ MintToken(r)
    \/ \E t \in tokens : SettingsAuthenticate(r, t)
    \/ SettingsActiveArtist(r)
    \/ SettingsWrite(r)
    \/ RequestFails(r)

SiteNext ==
    \/ PlatformAdminStep
    \/ ClockStep
    \/ \E r \in Requests : RequestStep(r)

SiteSpec == SiteInit /\ [][SiteNext]_siteVars

-----------------------------------------------------------------------------
(* Properties *)

\* A handler is always at one of its steps, with that step's local variables.
SiteTypeOK ==
    /\ StoreTypeOK
    /\ req \in [Requests -> RequestState]
    /\ tokens \subseteq Token
    /\ metaPixel \in [ArtistIDs -> UserIDs \cup {NoRow}]

\* A token that authenticates belongs to an account that exists, under the
\* e-mail the token names, even if the token was minted after the account
\* was deleted by a login or registration that had looked it up before.
SessionsAreOfLiveAccounts ==
    \A t \in tokens : Authenticates(t) => users[t.user] = t.email

\* The account of a request that is about to write an artist's settings
\* administers that artist, or has been deleted since the request looked.
WritersAreAdministrators ==
    \A r \in Requests : req[r].pc = "writing" =>
        \/ <<req[r].user, req[r].artist>> \in userArtists
        \/ req[r].user \in revocations

\* The settings an artist shows were written by somebody who was invited for
\* that very artist: however stale the membership the handler had read, it
\* never writes another artist's row.
SettingsByAnAdministrator ==
    \A a \in ArtistIDs : metaPixel[a] # NoRow =>
        \E g \in redemptions :
            g[2] = metaPixel[a] /\ issued[g[1]].artist = a

\* A registration opens an account for the e-mail and the artist that the
\* platform administrator gave that code for, and before the code expired,
\* however stale the lookup that the redemption was based on.
RedeemedAsGranted ==
    [][\A c \in Codes, u \in UserIDs :
          <<c, u>> \in redemptions' \ redemptions =>
              /\ clock < issued[c].expires
              /\ users'[u] = issued[c].email
              /\ <<u, issued[c].artist>> \in userArtists']_siteVars

-----------------------------------------------------------------------------
(* The inductive invariant: what a handler's local variables are worth      *)
(* after other requests have run.                                          *)

\* An account that was seen under this e-mail: it still has it or is gone.
Seen(u, e) == u \in everUsed.users /\ users[u] \in {e, NoRow}

\* Somebody was invited for this artist and got this account.
Invited(u, a) == \E g \in redemptions : g[2] = u /\ issued[g[1]].artist = a

MembershipsAreInvited == \A m \in userArtists : Invited(m[1], m[2])

LocalsAreSound(state) ==
    /\ state.pc = "hashing" =>
          issued[state.code] # NoRow /\ issued[state.code].email = state.email
    /\ state.pc = "minting" => Seen(state.user, state.email)
    /\ state.pc = "writing" =>
          /\ Invited(state.user, state.artist)
          /\ \/ <<state.user, state.artist>> \in userArtists
             \/ state.user \in revocations

SiteInv ==
    /\ SiteTypeOK
    /\ StoreInv
    /\ MembershipsAreInvited
    /\ \A r \in Requests : LocalsAreSound(req[r])
    /\ \A t \in tokens : Seen(t.user, t.email)
    /\ SettingsByAnAdministrator

=============================================================================
