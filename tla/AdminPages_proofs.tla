--------------------------- MODULE AdminPages_proofs ---------------------------
(***************************************************************************)
(* Which artist a form is taken for, in a browser with any number of tabs, *)
(* accounts and artists.                                                   *)
(***************************************************************************)
EXTENDS AdminPages, WellFoundedInduction, TLAPS

USE ArtistsAssumption, LifetimeAssumption, NoneAssumption, NoneIsNoCookie

\* The choice is the session's own; it may have run out.
ChoiceMatches ==
    /\ choice # None
    /\ choice.user = session.user
    /\ choice.artist \in ArtistsOf(session.user)

\* The artist that a page of the present cookies shows.
ShowsItsArtist(page) ==
    /\ session # None
    /\ session.user \notin revoked =>
          IF ChoiceMatches
          THEN \/ page.artist = choice.artist
               \/ page.artist = FirstArtist(session.user) /\ Expired(choice)
          ELSE page.artist = FirstArtist(session.user)

PagesShowTheirArtist ==
    \A t \in Tabs : tab[t] # Blank /\ ~tab[t].old => ShowsItsArtist(tab[t])

\* A choice that is kept in the browser was made by its account.
ChoicesWereMade == choice # None => choice.artist \in chosen[choice.user]

Inv == TypeOK /\ PagesShowTheirArtist /\ ChoicesWereMade

-----------------------------------------------------------------------------
(* The first artist of an account, and pages. *)

LEMMA FirstIsOneOfThem ==
    ASSUME NEW S \in SUBSET Nat, S # {}
    PROVE  FirstOf(S) \in S
<1> DEFINE R == {ss \in Nat \X Nat : ss[1] < ss[2]}
<1>1. R = OpToRel(<, Nat)
  BY Zenon DEF OpToRel
<1>2. IsWellFoundedOn(R, Nat)
  BY <1>1, NatLessThanWellFounded
<1>3. \E a \in S : \A b \in S : <<b, a>> \notin R
  <2> HIDE DEF R
  <2>1. QED
    BY <1>2, WFMin
<1>4. PICK a \in S : \A b \in S : <<b, a>> \notin R
  BY <1>3
<1>5. \A b \in S : a <= b
  <2> SUFFICES ASSUME NEW b \in S PROVE a <= b
    OBVIOUS
  <2>1. a \in Nat /\ b \in Nat /\ <<b, a>> \notin R
    BY <1>4
  <2>2. ~(b < a)
    BY <2>1
  <2>3. QED
    BY <2>1, <2>2
<1>6. QED
  BY <1>5 DEF FirstOf

LEMMA FirstArtistIsAssigned ==
    ASSUME NEW u, ArtistsOf(u) # {}
    PROVE  FirstArtist(u) \in ArtistsOf(u)
<1>1. ArtistsOf(u) \in SUBSET Nat
  BY DEF ArtistsOf
<1>2. QED
  BY <1>1, FirstIsOneOfThem DEF FirstArtist

LEMMA PageFields ==
    ASSUME NEW page \in Page
    PROVE  /\ page # Blank
           /\ page.artist \in Artists
           /\ [page EXCEPT !.old = TRUE] \in Page
           /\ [page EXCEPT !.old = TRUE].old
<1>1. CASE page \in [at : {"home", "new"}, artist : Artists, old : BOOLEAN]
  <2>1. page.at \in {"home", "new"} /\ page.artist \in Artists
    BY <1>1
  <2>2. page # Blank
    BY <2>1 DEF Blank
  <2>3. [page EXCEPT !.old = TRUE]
            \in [at : {"home", "new"}, artist : Artists, old : BOOLEAN]
    BY <1>1
  <2>4. [page EXCEPT !.old = TRUE].old
    BY <1>1
  <2>5. QED
    BY <2>1, <2>2, <2>3, <2>4 DEF Page
<1>2. CASE page \in [at : {"edit"}, artist : Artists, song : Songs, old : BOOLEAN]
  <2>1. page.at = "edit" /\ page.artist \in Artists
    BY <1>2
  <2>2. page # Blank
    BY <2>1 DEF Blank
  <2>3. [page EXCEPT !.old = TRUE]
            \in [at : {"edit"}, artist : Artists, song : Songs, old : BOOLEAN]
    BY <1>2
  <2>4. [page EXCEPT !.old = TRUE].old
    BY <1>2
  <2>5. QED
    BY <2>1, <2>2, <2>3, <2>4 DEF Page
<1>3. QED
  BY <1>1, <1>2 DEF Page

\* What a request works for is one of the account's artists.
LEMMA ActiveArtistIsAssigned ==
    ASSUME ActiveArtistOf # None
    PROVE  \/ ChoiceCounts /\ ActiveArtistOf = choice.artist
                           /\ choice.artist \in ArtistsOf(session.user)
           \/ ~ChoiceCounts /\ ActiveArtistOf = FirstArtist(session.user)
                            /\ FirstArtist(session.user) \in ArtistsOf(session.user)
<1>1. CASE ChoiceCounts
  BY <1>1 DEF ActiveArtistOf, ChoiceCounts
<1>2. CASE ~ChoiceCounts /\ ArtistsOf(session.user) # {}
  BY <1>2, FirstArtistIsAssigned DEF ActiveArtistOf
<1>3. CASE ~ChoiceCounts /\ ArtistsOf(session.user) = {}
  BY <1>3 DEF ActiveArtistOf
<1>4. QED
  BY <1>1, <1>2, <1>3

LEMMA ActiveArtistType ==
    ASSUME ActiveArtistOf # None
    PROVE  ActiveArtistOf \in Artists
  BY ActiveArtistIsAssigned DEF ArtistsOf

\* A page that is rendered now shows its artist.
LEMMA NewPagesShowTheirArtist ==
    ASSUME Authenticated, ActiveArtistOf # None,
           NEW page, page.artist = ActiveArtistOf
    PROVE  ShowsItsArtist(page)
  BY ActiveArtistIsAssigned
     DEF ShowsItsArtist, ChoiceMatches, ChoiceCounts, Authenticated

-----------------------------------------------------------------------------
(* The invariant. *)

LEMMA InitInv == Init => Inv
  BY DEF Init, Inv, TypeOK, PagesShowTheirArtist, ChoicesWereMade

\* Pages that stay as they are keep showing their artist as long as the cookies
\* and the account's artists stay, and time only runs on.
LEMMA PagesKeepShowing ==
    ASSUME Inv, clock \in Nat, clock' \in Nat, clock <= clock',
           UNCHANGED <<session, choice>>,
           revoked \subseteq revoked',
           session # None /\ session.user \notin revoked' =>
               ArtistsOf(session.user)' = ArtistsOf(session.user),
           NEW page, ShowsItsArtist(page)
    PROVE  ShowsItsArtist(page)'
<1>1. choice # None => choice.at \in Nat
  BY DEF Inv, TypeOK, ActiveArtist
<1>2. choice # None /\ Expired(choice) => Expired(choice)'
  BY <1>1 DEF Expired
<1>3. session # None /\ session.user \notin revoked' =>
        /\ FirstArtist(session.user)' = FirstArtist(session.user)
        /\ ChoiceMatches' <=> ChoiceMatches
  <2> SUFFICES ASSUME session # None, session.user \notin revoked'
               PROVE  /\ FirstArtist(session.user)' = FirstArtist(session.user)
                      /\ ChoiceMatches' <=> ChoiceMatches
    OBVIOUS
  <2>1. ArtistsOf(session.user)' = ArtistsOf(session.user)
    OBVIOUS
  <2>2. QED
    BY <2>1 DEF FirstArtist, ChoiceMatches
<1>4. session' = session /\ choice' = choice
  OBVIOUS
<1>5. CASE session.user \in revoked'
  BY <1>4, <1>5 DEF ShowsItsArtist
<1>6. CASE session.user \notin revoked'
  <2>1. session # None /\ session.user \notin revoked
    BY <1>6 DEF ShowsItsArtist
  <2>2. CASE ChoiceMatches
    <3>1. \/ page.artist = choice.artist
          \/ page.artist = FirstArtist(session.user) /\ Expired(choice)
      BY <2>1, <2>2 DEF ShowsItsArtist
    <3>2. choice # None
      BY <2>2 DEF ChoiceMatches
    <3>3. FirstArtist(session.user)' = FirstArtist(session.user) /\ ChoiceMatches'
      BY <1>3, <1>6, <2>1, <2>2
    <3>4. QED
      BY <1>2, <1>4, <2>1, <3>1, <3>2, <3>3 DEF ShowsItsArtist
  <2>3. CASE ~ChoiceMatches
    <3>1. page.artist = FirstArtist(session.user)
      BY <2>1, <2>3 DEF ShowsItsArtist
    <3>2. FirstArtist(session.user)' = FirstArtist(session.user) /\ ~ChoiceMatches'
      BY <1>3, <1>6, <2>1, <2>3
    <3>3. QED
      BY <1>4, <2>1, <3>1, <3>2 DEF ShowsItsArtist
  <2>4. QED
    BY <2>2, <2>3
<1>7. QED
  BY <1>5, <1>6

\* A step that changes a cookie leaves every page blank or old.
LEMMA AgedPages ==
    ASSUME Inv, NEW t \in Tabs, ShowAndAge(t, Blank)
    PROVE  /\ tab' \in [Tabs -> Page \cup {Blank}]
           /\ \A s \in Tabs : tab'[s] # Blank => tab'[s].old
<1> SUFFICES ASSUME NEW s \in Tabs
             PROVE  /\ tab'[s] \in Page \cup {Blank}
                    /\ tab'[s] # Blank => tab'[s].old
  BY DEF ShowAndAge
<1>1. tab[s] \in Page \cup {Blank}
  BY DEF Inv, TypeOK
<1>2. tab'[s] = IF s = t THEN Blank
                ELSE IF tab[s] = Blank THEN Blank
                ELSE [tab[s] EXCEPT !.old = TRUE]
  BY DEF ShowAndAge
<1>3. QED
  BY <1>1, <1>2, PageFields

LEMMA CookiesKeepInv ==
    ASSUME Inv, NEW t \in Tabs, ShowAndAge(t, Blank),
           UNCHANGED <<tables, clock>>,
           session' \in Session \cup {None},
           choice' \in ActiveArtist \cup {None},
           chosen' \in [Users -> SUBSET Artists],
           ChoicesWereMade'
    PROVE  Inv'
  BY AgedPages DEF Inv, TypeOK, PagesShowTheirArtist, tables

\* A step that leaves the cookies alone shows only pages of the active artist.
LEMMA PagesKeepInv ==
    ASSUME Inv, NEW t \in Tabs, NEW page, Show(t, page),
           page = Blank \/ /\ page \in Page
                           /\ Authenticated /\ ActiveArtistOf # None
                           /\ page.artist = ActiveArtistOf,
           UNCHANGED <<members, revoked, session, choice, clock, chosen>>,
           songs' \in [Artists -> SUBSET Songs]
    PROVE  Inv'
<1>1. TypeOK'
  BY DEF Inv, TypeOK, Show
<1>2. ChoicesWereMade'
  BY DEF Inv, ChoicesWereMade
<1>3. ASSUME NEW p PROVE ShowsItsArtist(p)' <=> ShowsItsArtist(p)
  BY DEF ShowsItsArtist, ChoiceMatches, ArtistsOf, FirstArtist, FirstOf, Expired
<1>4. ASSUME NEW s \in Tabs, tab'[s] # Blank, ~tab'[s].old
      PROVE  ShowsItsArtist(tab[s])'
  <2>1. CASE s = t
    <3>1. tab'[s] = page
      BY <2>1 DEF Show, Inv, TypeOK
    <3>2. ShowsItsArtist(page)'
      BY <1>3, <1>4, <3>1, NewPagesShowTheirArtist
    <3>3. QED
      BY <3>1, <3>2 DEF ShowsItsArtist
  <2>2. CASE s # t
    <3>1. tab'[s] = tab[s]
      BY <2>2 DEF Show, Inv, TypeOK
    <3>2. ShowsItsArtist(tab[s])
      BY <1>4, <3>1 DEF Inv, PagesShowTheirArtist
    <3>3. QED
      BY <3>1, <3>2
         DEF ShowsItsArtist, ChoiceMatches, ArtistsOf, FirstArtist, Expired
  <2>3. QED
    BY <2>1, <2>2
<1>5. QED
  BY <1>1, <1>2, <1>4 DEF Inv, PagesShowTheirArtist

LEMMA NextKeepsInv == Inv /\ [Next]_vars => Inv'
<1> SUFFICES ASSUME Inv, [Next]_vars PROVE Inv'
  OBVIOUS
<1> USE DEF tables
<1>1. ASSUME NEW t \in Tabs, NEW u \in Users, HandleLoginSubmit(t, u)
      PROVE  Inv'
  <2>1. session' \in Session
    BY <1>1 DEF HandleLoginSubmit, Session, Inv, TypeOK
  <2>2. ChoicesWereMade'
    BY <1>1 DEF HandleLoginSubmit, Inv, ChoicesWereMade
  <2>3. QED
    BY <1>1, <2>1, <2>2, CookiesKeepInv DEF HandleLoginSubmit, Inv, TypeOK
<1>2. ASSUME NEW t \in Tabs, HandleLogoutSubmit(t)
      PROVE  Inv'
  BY <1>2, CookiesKeepInv DEF HandleLogoutSubmit, Inv, TypeOK, ChoicesWereMade
<1>3. ASSUME NEW t \in Tabs, NEW a \in Artists, HandleActiveArtistSubmit(t, a)
      PROVE  Inv'
  <2>1. session.user \in Users
    BY <1>3 DEF HandleActiveArtistSubmit, Authenticated, Inv, TypeOK, Session
  <2>2. choice' \in ActiveArtist
    BY <1>3, <2>1 DEF HandleActiveArtistSubmit, ActiveArtist, Inv, TypeOK
  <2>3. chosen' \in [Users -> SUBSET Artists]
    BY <1>3, <2>1 DEF HandleActiveArtistSubmit, Inv, TypeOK
  <2>4. ChoicesWereMade'
    BY <1>3, <2>1 DEF HandleActiveArtistSubmit, Inv, TypeOK, ChoicesWereMade
  <2>5. QED
    BY <1>3, <2>2, <2>3, <2>4, CookiesKeepInv
       DEF HandleActiveArtistSubmit, Inv, TypeOK
<1>4. ASSUME NEW t \in Tabs,
             \/ HandleHome(t)
             \/ HandleNewSongPage(t)
             \/ \E s \in Songs : HandleEditSongPage(t, s)
      PROVE  Inv'
  <2>1. PICK page : /\ OpenPage(t, page)
                    /\ page.artist = ActiveArtistOf
                    /\ ActiveArtistOf \in Artists => page \in Page
    <3>1. CASE HandleHome(t)
      <4> DEFINE home == [at |-> "home", artist |-> ActiveArtistOf, old |-> FALSE]
      <4>1. home.artist = ActiveArtistOf
            /\ (ActiveArtistOf \in Artists => home \in Page)
        BY DEF Page
      <4>2. OpenPage(t, home)
        BY <3>1 DEF HandleHome
      <4>3. QED
        BY <4>1, <4>2
    <3>2. CASE HandleNewSongPage(t)
      <4> DEFINE new == [at |-> "new", artist |-> ActiveArtistOf, old |-> FALSE]
      <4>1. new.artist = ActiveArtistOf
            /\ (ActiveArtistOf \in Artists => new \in Page)
        BY DEF Page
      <4>2. OpenPage(t, new)
        BY <3>2 DEF HandleNewSongPage
      <4>3. QED
        BY <4>1, <4>2
    <3>3. ASSUME NEW s \in Songs, HandleEditSongPage(t, s)
          PROVE  \E page : /\ OpenPage(t, page)
                           /\ page.artist = ActiveArtistOf
                           /\ ActiveArtistOf \in Artists => page \in Page
      <4> DEFINE edit == [at |-> "edit", artist |-> ActiveArtistOf, song |-> s,
                          old |-> FALSE]
      <4>1. edit.artist = ActiveArtistOf
            /\ (ActiveArtistOf \in Artists => edit \in Page)
        BY DEF Page
      <4>2. OpenPage(t, edit)
        BY <3>3 DEF HandleEditSongPage
      <4>3. QED
        BY <4>1, <4>2
    <3>4. QED
      BY <1>4, <3>1, <3>2, <3>3
  <2>2. page \in Page
    BY <2>1, ActiveArtistType DEF OpenPage
  <2>3. QED
    BY <2>1, <2>2, PagesKeepInv DEF OpenPage, Inv, TypeOK
<1>5. ASSUME NEW t \in Tabs, Writes(t)
      PROVE  Inv'
  <2>1. Taken(t)
    BY <1>5 DEF Writes, HandleArtistSettingsSubmit, HandleCreateSongSubmit,
                HandleUpdateSongSubmit, HandleDeleteSongSubmit
  <2>2. songs' \in [Artists -> SUBSET Songs]
    BY <1>5 DEF Writes, HandleArtistSettingsSubmit, HandleCreateSongSubmit,
                HandleUpdateSongSubmit, HandleDeleteSongSubmit, Inv, TypeOK
  <2>3. QED
    BY <2>1, <2>2, PagesKeepInv DEF Taken
<1>6. ASSUME NEW t \in Tabs, SubmitRefused(t)
      PROVE  Inv'
  BY <1>6, PagesKeepInv DEF SubmitRefused, Inv, TypeOK
<1>7. ASSUME UNCHANGED <<tab, session, choice, chosen, songs>>,
             members' \in SUBSET (Users \X Artists), revoked' \in SUBSET Users,
             clock' \in Nat, clock <= clock', revoked \subseteq revoked',
             session # None /\ session.user \notin revoked' =>
                 ArtistsOf(session.user)' = ArtistsOf(session.user)
      PROVE  Inv'
  <2>1. TypeOK' /\ ChoicesWereMade'
    BY <1>7 DEF Inv, TypeOK, ChoicesWereMade
  <2>2. ASSUME NEW t \in Tabs, tab'[t] # Blank, ~tab'[t].old
        PROVE  ShowsItsArtist(tab[t])'
    <3>1. PICK page : page = tab[t] /\ page = tab'[t]
      BY <1>7
    <3>2. ShowsItsArtist(page)
      BY <2>2, <3>1 DEF Inv, PagesShowTheirArtist
    <3>3. ShowsItsArtist(page)'
      BY <1>7, <3>2, PagesKeepShowing DEF Inv, TypeOK
    <3>4. QED
      BY <3>1, <3>3 DEF ShowsItsArtist
  <2>3. QED
    BY <2>1, <2>2 DEF Inv, PagesShowTheirArtist
<1>8. ASSUME NEW u \in Users, DeleteUser(u)
      PROVE  Inv'
  <2>1. \A v : v # u => ArtistsOf(v)' = ArtistsOf(v)
    BY <1>8 DEF DeleteUser, ArtistsOf
  <2>2. members' \in SUBSET (Users \X Artists) /\ revoked' \in SUBSET Users
    BY <1>8 DEF DeleteUser, Inv, TypeOK
  <2>3. QED
    BY <1>7, <1>8, <2>1, <2>2 DEF DeleteUser, Inv, TypeOK
<1>9. CASE Tick
  BY <1>7, <1>9 DEF Tick, Inv, TypeOK, ArtistsOf
<1>10. CASE UNCHANGED vars
  BY <1>7, <1>10 DEF vars, Inv, TypeOK, ArtistsOf
<1>11. QED
  BY <1>1, <1>2, <1>3, <1>4, <1>5, <1>6, <1>8, <1>9, <1>10 DEF Next

THEOREM PagesInvariant == Spec => []Inv
  BY InitInv, NextKeepsInv, PTL DEF Spec

-----------------------------------------------------------------------------
(* What it gives. *)

\* Cookies, pages and the history are always well formed.
THEOREM PagesTypeCorrect == Spec => []TypeOK
<1>1. Inv => TypeOK
  BY DEF Inv
<1>2. QED
  BY <1>1, PagesInvariant, PTL

LEMMA WritingPages ==
    ASSUME Inv, NEW t \in Tabs, Writes(t)
    PROVE  /\ tab[t] # Blank
           /\ Authenticated
           /\ ActiveArtistOf # None
<1>1. tab[t].at \in {"home", "new", "edit"} /\ Authenticated /\ ActiveArtistOf # None
  BY DEF Writes, HandleArtistSettingsSubmit, HandleCreateSongSubmit,
         HandleUpdateSongSubmit, HandleDeleteSongSubmit, Submits
<1>2. QED
  BY <1>1 DEF Blank

\* A form is taken for another artist than its page shows only after a change
\* in another tab, or when a choice older than the session has run out.
THEOREM StrayWritesAlwaysHaveACause == Spec => StrayWritesHaveACause
<1>1. ASSUME Inv, NEW t \in Tabs, Writes(t), ActiveArtistOf # tab[t].artist,
             ~tab[t].old
      PROVE  choice.at < session.at
  <2>1. /\ Authenticated
        /\ ActiveArtistOf # None
        /\ ShowsItsArtist(tab[t])
    BY <1>1, WritingPages DEF Inv, PagesShowTheirArtist
  <2>2. session \in Session /\ ~Expired(session) /\ session.user \notin revoked
    BY <1>1, <2>1 DEF Authenticated, Inv, TypeOK
  <2>3. ChoiceMatches /\ Expired(choice)
    BY <1>1, <2>1, <2>2, ActiveArtistIsAssigned
       DEF ShowsItsArtist, ChoiceMatches, ChoiceCounts
  <2>4. choice \in ActiveArtist
    BY <1>1, <2>3 DEF ChoiceMatches, Inv, TypeOK
  <2>5. QED
    BY <1>1, <2>2, <2>3, <2>4 DEF Expired, Session, ActiveArtist, Inv, TypeOK
<1>2. Inv /\ [Next]_vars =>
        [\A t \in Tabs : Writes(t) /\ ActiveArtistOf # tab[t].artist =>
            tab[t].old \/ choice.at < session.at]_vars
  BY <1>1
<1>3. QED
  BY <1>2, PagesInvariant, PTL DEF Spec, StrayWritesHaveACause

\* One only works for an artist one has chosen oneself, or for the first one.
THEOREM WritesAlwaysFollowOnesOwnChoice == Spec => WritesFollowOnesOwnChoice
<1>1. ASSUME Inv, NEW t \in Tabs, Writes(t)
      PROVE  ActiveArtistOf \in ArtistsOf(session.user)
                \cap (chosen[session.user] \cup {FirstArtist(session.user)})
  BY <1>1, WritingPages, ActiveArtistIsAssigned
     DEF ChoiceCounts, Inv, ChoicesWereMade
<1>2. Inv /\ [Next]_vars =>
        [\A t \in Tabs : Writes(t) =>
            ActiveArtistOf \in ArtistsOf(session.user)
               \cap (chosen[session.user] \cup {FirstArtist(session.user)})]_vars
  BY <1>1
<1>3. QED
  BY <1>2, PagesInvariant, PTL DEF Spec, WritesFollowOnesOwnChoice

=============================================================================
