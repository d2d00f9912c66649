------------------------------ MODULE AdminPages ------------------------------
(***************************************************************************)
(* The pages of the artist administration in one browser.  No address and  *)
(* no form names an artist: every request works for the active artist,     *)
(* which the server finds anew from two cookies, the session and the       *)
(* choice of an artist, and from the artists assigned to the account.  A   *)
(* form may therefore be sent, from a tab that was opened a while ago, for *)
(* another artist than the one it showed.                                  *)
(*                                                                         *)
(* Artists are numbered by name, in which order ListArtistsForUser returns *)
(* them.  A request takes no time: what happens between the steps of a     *)
(* handler is the subject of modules AdminSite and SongArtwork.            *)
(***************************************************************************)
EXTENDS Naturals, FiniteSets

CONSTANTS
    Artists, Users, Songs,  \* Songs: slugs
    Tabs,
    SessionLifetime,
    None,                   \* no cookie, no artist
    MaxTime                 \* bound on the clock

ASSUME ArtistsAssumption == Artists \subseteq Nat
ASSUME LifetimeAssumption == SessionLifetime \in Nat
ASSUME NoneAssumption == None \notin Artists

VARIABLES
    members,        \* <<user, artist>>
    revoked,        \* deleted accounts
    songs,          \* artist -> the slugs of its songs
    session,        \* cookie admin_session
    choice,         \* cookie admin_active_artist
    tab,            \* tab -> the page it shows
    clock,
    chosen          \* user -> the artists they have chosen (history)

tables == <<members, revoked, songs>>
vars == <<tables, session, choice, tab, clock, chosen>>

Session == [user : Users, at : Nat]
ActiveArtist == [user : Users, artist : Artists, at : Nat]
Blank == [at |-> "blank"]

\* No cookie is told from every cookie.
ASSUME NoneIsNoCookie == None \notin Session /\ None \notin ActiveArtist

\* old: a cookie was changed in another tab since the page was rendered.
Page ==
    [at : {"home", "new"}, artist : Artists, old : BOOLEAN]
    \cup [at : {"edit"}, artist : Artists, song : Songs, old : BOOLEAN]

Init ==
    /\ members \in SUBSET (Users \X Artists)
    /\ revoked = {}
    /\ songs \in [Artists -> SUBSET Songs]
    /\ session = None
    /\ choice = None
    /\ tab = [t \in Tabs |-> Blank]
    /\ clock = 0
    /\ chosen = [u \in Users |-> {}]

-----------------------------------------------------------------------------
(* What a request finds in its cookies *)

Expired(cookie) == clock - cookie.at > SessionLifetime

Authenticated ==
    session # None /\ ~Expired(session) /\ session.user \notin revoked

ArtistsOf(u) == {a \in Artists : <<u, a>> \in members}

FirstOf(S) == CHOOSE a \in S : \A b \in S : a <= b

FirstArtist(u) == FirstOf(ArtistsOf(u))

\* Variant: a choice does not last as long as a session.
ChoiceCounts_Shorter ==
    /\ choice # None
    /\ clock - choice.at < SessionLifetime
    /\ choice.user = session.user
    /\ choice.artist \in ArtistsOf(session.user)

\* Variant: the choice is not bound to the account.
ChoiceCounts_Anybodys ==
    /\ choice # None
    /\ ~Expired(choice)
    /\ choice.artist \in ArtistsOf(session.user)

ChoiceCounts ==
    /\ choice # None
    /\ ~Expired(choice)
    /\ choice.user = session.user
    /\ choice.artist \in ArtistsOf(session.user)

\* resolveActiveArtist and activeArtistFromRequest.
ActiveArtistOf ==
    CASE ChoiceCounts -> choice.artist
      [] ~ChoiceCounts /\ ArtistsOf(session.user) # {} -> FirstArtist(session.user)
      [] OTHER -> None

\* Every other tab keeps the page it shows.
Show(t, page) == tab' = [tab EXCEPT ![t] = page]
ShowAndAge(t, page) ==
    tab' = [s \in Tabs |->
        IF s = t THEN page
        ELSE IF tab[s] = Blank THEN Blank
        ELSE [tab[s] EXCEPT !.old = TRUE]]

-----------------------------------------------------------------------------
(* Cookies *)

\* HandleLoginSubmit: a choice made in an earlier session stays.
HandleLoginSubmit(t, u) ==
    /\ u \notin revoked
    /\ session' = [user |-> u, at |-> clock]
    /\ ShowAndAge(t, Blank)
    /\ UNCHANGED <<tables, choice, clock, chosen>>

HandleLogoutSubmit(t) ==
    /\ session' = None
    /\ choice' = None
    /\ ShowAndAge(t, Blank)
    /\ UNCHANGED <<tables, clock, chosen>>

\* The form of the home page lists the artists of the account.
HandleActiveArtistSubmit(t, a) ==
    /\ tab[t].at = "home"
    /\ Authenticated
    /\ a \in ArtistsOf(session.user)
    /\ choice' = [user |-> session.user, artist |-> a, at |-> clock]
    /\ chosen' = [chosen EXCEPT ![session.user] = @ \cup {a}]
    /\ ShowAndAge(t, Blank)
    /\ UNCHANGED <<tables, session, clock>>

-----------------------------------------------------------------------------
(* Pages *)

OpenPage(t, page) ==
    /\ Authenticated
    /\ ActiveArtistOf # None
    /\ Show(t, page)
    /\ UNCHANGED <<tables, session, choice, clock, chosen>>

HandleHome(t) ==
    OpenPage(t, [at |-> "home", artist |-> ActiveArtistOf, old |-> FALSE])

HandleNewSongPage(t) ==
    OpenPage(t, [at |-> "new", artist |-> ActiveArtistOf, old |-> FALSE])

\* From the list of songs, or by its address.
HandleEditSongPage(t, s) ==
    /\ Authenticated /\ ActiveArtistOf # None
    /\ s \in songs[ActiveArtistOf]
    /\ OpenPage(t, [at |-> "edit", artist |-> ActiveArtistOf, song |-> s,
                    old |-> FALSE])

-----------------------------------------------------------------------------
(* Forms *)

\* The form is taken, and its page gives way to another one.
Taken(t) ==
    /\ Show(t, Blank)
    /\ UNCHANGED <<members, revoked, session, choice, clock, chosen>>

\* The request is for the active artist of now, whatever the page shows.
Submits(t, kind) ==
    /\ tab[t].at = kind
    /\ Authenticated
    /\ ActiveArtistOf # None

HandleArtistSettingsSubmit(t) ==
    /\ Submits(t, "home")
    /\ Taken(t)
    /\ UNCHANGED songs

HandleCreateSongSubmit(t, s) ==
    /\ Submits(t, "new")
    /\ s \notin songs[ActiveArtistOf]
    /\ songs' = [songs EXCEPT ![ActiveArtistOf] = @ \cup {s}]
    /\ Taken(t)

\* HandleUpdateSongSubmit and HandleRemoveArtworkSubmit.
HandleUpdateSongSubmit(t) ==
    /\ Submits(t, "edit")
    /\ tab[t].song \in songs[ActiveArtistOf]
    /\ Taken(t)
    /\ UNCHANGED songs

\* The button is on the edit page.
HandleDeleteSongSubmit(t) ==
    /\ Submits(t, "edit")
    /\ tab[t].song \in songs[ActiveArtistOf]
    /\ songs' = [songs EXCEPT ![ActiveArtistOf] = @ \ {tab[t].song}]
    /\ Taken(t)

\* Something is written, for ActiveArtistOf.
Writes(t) ==
    \/ HandleArtistSettingsSubmit(t)
    \/ \E s \in Songs : HandleCreateSongSubmit(t, s)
    \/ HandleUpdateSongSubmit(t)
    \/ HandleDeleteSongSubmit(t)

\* The login page, an error page, or 404.
SubmitRefused(t) ==
    /\ tab[t] # Blank
    /\ \/ ~Authenticated
       \/ Authenticated /\ ActiveArtistOf = None
       \/ /\ Authenticated /\ ActiveArtistOf # None
          /\ tab[t].at = "edit" /\ tab[t].song \notin songs[ActiveArtistOf]
    /\ Show(t, Blank)
    /\ UNCHANGED <<tables, session, choice, clock, chosen>>

-----------------------------------------------------------------------------
(* Others *)

\* The platform administrator deletes the account.
DeleteUser(u) ==
    /\ u \notin revoked
    /\ revoked' = revoked \cup {u}
    /\ members' = {m \in members : m[1] # u}
    /\ UNCHANGED <<songs, session, choice, tab, clock, chosen>>

Tick ==
    /\ clock < MaxTime
    /\ clock' = clock + 1
    /\ UNCHANGED <<tables, session, choice, tab, chosen>>

Next ==
    \/ \E t \in Tabs :
          \/ \E u \in Users : HandleLoginSubmit(t, u)
          \/ HandleLogoutSubmit(t)
          \/ \E a \in Artists : HandleActiveArtistSubmit(t, a)
          \/ HandleHome(t)
          \/ HandleNewSongPage(t)
          \/ \E s \in Songs : HandleEditSongPage(t, s)
          \/ Writes(t)
          \/ SubmitRefused(t)
    \/ \E u \in Users : DeleteUser(u)
    \/ Tick

Spec == Init /\ [][Next]_vars

-----------------------------------------------------------------------------
(* Properties *)

\* Cookies, pages and the history are well formed.
TypeOK ==
    /\ members \subseteq Users \X Artists
    /\ revoked \subseteq Users
    /\ songs \in [Artists -> SUBSET Songs]
    /\ session \in Session \cup {None}
    /\ choice \in ActiveArtist \cup {None}
    /\ tab \in [Tabs -> Page \cup {Blank}]
    /\ clock \in Nat
    /\ chosen \in [Users -> SUBSET Artists]

\* A form is taken for another artist than its page shows only if the user has
\* changed the choice or the session in another tab since, or chose that artist
\* before this session began.  In particular a choice made in a session never
\* runs out in the middle of it.
StrayWritesHaveACause ==
    [][\A t \in Tabs : Writes(t) /\ ActiveArtistOf # tab[t].artist =>
          tab[t].old \/ choice.at < session.at]_vars

\* Whatever cookies earlier users of the browser have left behind, one only ever
\* works for an artist one has chosen oneself or for the first of one's artists.
WritesFollowOnesOwnChoice ==
    [][\A t \in Tabs : Writes(t) =>
          ActiveArtistOf \in ArtistsOf(session.user)
             \cap (chosen[session.user] \cup {FirstArtist(session.user)})]_vars

=============================================================================
