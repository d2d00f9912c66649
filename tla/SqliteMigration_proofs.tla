----------------------- MODULE SqliteMigration_proofs -----------------------
(***************************************************************************)
(* No crash loses a membership, and the server never runs with an          *)
(* invitation that does not expire, and no upgrade goes round in circles:  *)
(* for every old database and any number of crashes.                       *)
(***************************************************************************)
EXTENDS SqliteMigration, TLAPS

USE NullAssumption, MaxCrashesAssumption

\* While users waits to be rebuilt, the temporary table holds all there is.
CollectedIsComplete ==
    at = "rebuild users" =>
        collected = Memberships /\ "users.artist_id" \in schema

\* Every start fills the expiry before it goes on.
FilledBeforeServing ==
    at \in {"check e-mails", "serving"} => \A i \in Invitations : expires[i]

MigrationInv ==
    /\ TypeOK
    /\ MembershipsSurvive
    /\ CollectedIsComplete
    /\ FilledBeforeServing

-----------------------------------------------------------------------------
LEMMA MigrationInvInit == Init => MigrationInv
<1> SUFFICES ASSUME Init PROVE MigrationInv
  OBVIOUS
<1>1. /\ schema \subseteq Movable
      /\ artistSlug \in [Songs -> Slugs]
      /\ songArtist \in [Songs -> Slugs \cup {Null}]
      /\ userArtist \in [Users -> Slugs \cup {Null}]
      /\ members \subseteq Users \X Slugs
  BY DEF Init
<1>2. artists \subseteq Slugs
  <2>1. \A s \in Songs : songArtist[s] \in Slugs \cup {Null}
    BY <1>1
  <2>2. \A u \in Users : userArtist[u] \in Slugs \cup {Null}
    BY <1>1
  <2>3. \A m \in members : m[2] \in Slugs
    BY <1>1
  <2>4. artists = ({songArtist[s] : s \in Songs} \cup
                   {userArtist[u] : u \in Users} \cup
                   {m[2] : m \in members}) \ {Null}
    BY DEF Init
  <2>5. QED
    BY <2>1, <2>2, <2>3, <2>4
<1>3. LegacyMembers \subseteq Users \X Slugs
  BY DEF LegacyMembers
<1>4. owed = LegacyMembers \cup members
  BY DEF Init
<1>5. TypeOK
  <2>1. /\ expires \in [Invitations -> BOOLEAN]
        /\ colliding \in BOOLEAN
        /\ collected \subseteq Users \X Slugs
    BY DEF Init
  <2>2. at \in Steps /\ crashes \in 0..MaxCrashes
    <3>1. at = "add song artists" /\ crashes = 0
      BY DEF Init
    <3>2. 0 \in 0..MaxCrashes
      BY MaxCrashesAssumption
    <3>3. QED
      BY <3>1, <3>2 DEF Steps
  <2>3. owed \subseteq Users \X Slugs
    BY <1>1, <1>3, <1>4
  <2>4. QED
    BY <1>1, <1>2, <2>1, <2>2, <2>3 DEF TypeOK
<1>6. MembershipsSurvive
  BY <1>4 DEF MembershipsSurvive
<1>7. CollectedIsComplete /\ FilledBeforeServing
  BY DEF Init, CollectedIsComplete, FilledBeforeServing
<1>8. QED
  BY <1>5, <1>6, <1>7 DEF MigrationInv

\* What a step that leaves users and user_artists alone keeps.
LEMMA LegacyUnchanged ==
    ASSUME UNCHANGED <<userArtist, members, owed>>,
           "users.artist_id" \in schema' <=> "users.artist_id" \in schema
    PROVE  /\ LegacyMembers' = LegacyMembers
           /\ Memberships' = Memberships
           /\ MembershipsSurvive => MembershipsSurvive'
<1>1. LegacyMembers' = LegacyMembers
  BY DEF LegacyMembers
<1>2. QED
  BY <1>1 DEF Memberships, MembershipsSurvive

LEMMA OneMore ==
    ASSUME NEW m \in Nat, NEW n \in 0..m, n < m
    PROVE  n + 1 \in 0..m
  OBVIOUS

LEMMA TypeStep ==
    ASSUME TypeOK, [Next]_vars
    PROVE  TypeOK'
<1> USE DEF TypeOK, Goes, Steps, Movable
<1>1. CASE AddSongArtists
  BY <1>1 DEF AddSongArtists
<1>2. CASE InsertArtists
  BY <1>2 DEF InsertArtists
<1>3. CASE FillSongs
  BY <1>3 DEF FillSongs
<1>4. CASE CollectMembers
  <2>1. Memberships \subseteq Users \X Slugs
    BY DEF Memberships, LegacyMembers
  <2>2. QED
    BY <1>4, <2>1 DEF CollectMembers
<1>5. CASE RebuildUsers
  BY <1>5 DEF RebuildUsers
<1>6. CASE CreateUserArtists
  BY <1>6 DEF CreateUserArtists
<1>7. CASE AddExpiry
  BY <1>7 DEF AddExpiry
<1>8. CASE FillExpiry
  BY <1>8 DEF FillExpiry
<1>9. CASE CheckEmails
  BY <1>9 DEF CheckEmails
<1>10. CASE Stop
  <2>1. crashes' \in 0..MaxCrashes
    <3>1. crashes \in 0..MaxCrashes /\ crashes < MaxCrashes
      BY <1>10 DEF Stop
    <3>2. crashes' = crashes + 1
      BY <1>10 DEF Stop
    <3>3. QED
      BY <3>1, <3>2, OneMore, MaxCrashesAssumption
  <2>2. at' \in Steps /\ collected' \subseteq Users \X Slugs
    BY <1>10 DEF Stop
  <2>3. QED
    BY <1>10, <2>1, <2>2 DEF Stop
<1>11. CASE Normalize \/ Start
  BY <1>11 DEF Normalize, Start
<1>12. CASE UNCHANGED vars
  BY <1>12 DEF vars
<1>13. QED
  BY <1>1, <1>2, <1>3, <1>4, <1>5, <1>6, <1>7, <1>8, <1>9, <1>10, <1>11,
     <1>12 DEF Next, Migrate

LEMMA MembershipStep ==
    ASSUME TypeOK, MembershipsSurvive, CollectedIsComplete, [Next]_vars
    PROVE  MembershipsSurvive' /\ CollectedIsComplete'
<1>1. CASE CollectMembers
  <2>1. MembershipsSurvive' /\ Memberships' = Memberships
    BY <1>1, LegacyUnchanged DEF CollectMembers
  <2>2. CollectedIsComplete'
    BY <1>1, <2>1 DEF CollectMembers, CollectedIsComplete, Goes
  <2>3. QED
    BY <2>1, <2>2
<1>2. CASE RebuildUsers
  <2>1. collected = Memberships
    BY <1>2 DEF RebuildUsers, Goes, CollectedIsComplete
  <2>2. LegacyMembers' = {}
    BY <1>2 DEF RebuildUsers, LegacyMembers
  <2>3. members' = members \cup LegacyMembers
    BY <1>2, <2>1 DEF RebuildUsers, Memberships
  <2>4. MembershipsSurvive'
    BY <1>2, <2>2, <2>3 DEF RebuildUsers, MembershipsSurvive
  <2>5. CollectedIsComplete'
    BY <1>2 DEF RebuildUsers, Goes, CollectedIsComplete
  <2>6. QED
    BY <2>4, <2>5
<1>3. CASE UNCHANGED vars
  <2>1. MembershipsSurvive' /\ Memberships' = Memberships
    BY <1>3, LegacyUnchanged DEF vars
  <2>2. QED
    BY <1>3, <2>1 DEF vars, CollectedIsComplete
<1>4. ASSUME \/ AddSongArtists \/ InsertArtists \/ FillSongs
             \/ CreateUserArtists \/ AddExpiry \/ FillExpiry \/ CheckEmails
             \/ Stop \/ Normalize \/ Start
      PROVE  MembershipsSurvive' /\ CollectedIsComplete'
  <2>1. /\ UNCHANGED <<userArtist, members, owed>>
        /\ "users.artist_id" \in schema' <=> "users.artist_id" \in schema
    BY <1>4 DEF AddSongArtists, InsertArtists, FillSongs, CreateUserArtists,
       AddExpiry, FillExpiry, CheckEmails, Stop, Normalize, Start
  <2>2. MembershipsSurvive'
    BY <2>1, LegacyUnchanged
  <2>3. at' # "rebuild users"
    BY <1>4 DEF AddSongArtists, InsertArtists, FillSongs, CreateUserArtists,
       AddExpiry, FillExpiry, CheckEmails, Stop, Normalize, Start, Goes
  <2>4. QED
    BY <2>2, <2>3 DEF CollectedIsComplete
<1>5. QED
  BY <1>1, <1>2, <1>3, <1>4 DEF Next, Migrate

LEMMA ExpiryStep ==
    ASSUME TypeOK, FilledBeforeServing, [Next]_vars
    PROVE  FilledBeforeServing'
<1>1. CASE FillExpiry
  BY <1>1 DEF FillExpiry, FilledBeforeServing
<1>2. CASE CheckEmails
  BY <1>2 DEF CheckEmails, Goes, FilledBeforeServing
<1>3. CASE UNCHANGED vars
  BY <1>3 DEF vars, FilledBeforeServing
<1>4. ASSUME \/ AddSongArtists \/ InsertArtists \/ FillSongs
             \/ CollectMembers \/ RebuildUsers \/ CreateUserArtists
             \/ AddExpiry \/ Stop \/ Normalize \/ Start
      PROVE  FilledBeforeServing'
  <2>1. at' \notin {"check e-mails", "serving"}
    BY <1>4 DEF AddSongArtists, InsertArtists, FillSongs, CollectMembers,
       RebuildUsers, CreateUserArtists, AddExpiry, Stop, Normalize, Start, Goes
  <2>2. QED
    BY <2>1 DEF FilledBeforeServing
<1>5. QED
  BY <1>1, <1>2, <1>3, <1>4 DEF Next, Migrate

LEMMA MigrationInvariant == Spec => []MigrationInv
<1>1. MigrationInv /\ [Next]_vars => MigrationInv'
  BY TypeStep, MembershipStep, ExpiryStep DEF MigrationInv
<1>2. QED
  BY MigrationInvInit, <1>1, PTL DEF Spec

\* The variables keep their types.
THEOREM MigrationTypes == Spec => []TypeOK
<1>1. MigrationInv => TypeOK
  BY DEF MigrationInv
<1>2. QED
  BY MigrationInvariant, <1>1, PTL

\* Whatever the old database and wherever the upgrade dies, no membership is
\* lost or invented (removeLegacyUserArtistID).
THEOREM NoMembershipIsLost == Spec => []MembershipsSurvive
<1>1. MigrationInv => MembershipsSurvive
  BY DEF MigrationInv
<1>2. QED
  BY MigrationInvariant, <1>1, PTL

\* The server never runs with an invitation that has no expiry.
THEOREM ServedInvitationsExpire == Spec => []InvitationsExpire
<1>1. MigrationInv => InvitationsExpire
  BY DEF MigrationInv, FilledBeforeServing, InvitationsExpire
<1>2. QED
  BY MigrationInvariant, <1>1, PTL

-----------------------------------------------------------------------------
(* What can be proved of MigrationEnds. *)

\* The statements that a start still has before it, the longest way.
StatementsLeft ==
    IF at = "stopped" THEN 10
    ELSE IF at = "add song artists" THEN 9
    ELSE IF at = "insert artists" THEN 8
    ELSE IF at = "fill songs" THEN 7
    ELSE IF at = "collect members" THEN 6
    ELSE IF at = "rebuild users" THEN 5
    ELSE IF at = "create user_artists" THEN 4
    ELSE IF at = "add expiry" THEN 3
    ELSE IF at = "fill expiry" THEN 2
    ELSE IF at = "check e-mails" THEN 1
    ELSE 0

\* An upgrade that is begun again repeats statements, and still no statement
\* sends it back: each brings its start nearer to its end, and only a crash, of
\* which there are no more than MaxCrashes, makes it begin again.
UpgradeAdvances ==
    [][\/ crashes' = crashes + 1
       \/ crashes' = crashes /\ StatementsLeft' < StatementsLeft
       \/ Normalize /\ UNCHANGED <<crashes, StatementsLeft>>]_vars

LEMMA StatementAdvances ==
    ASSUME Migrate
    PROVE  crashes' = crashes /\ StatementsLeft' < StatementsLeft
<1>1. crashes' = crashes
  BY DEF Migrate, AddSongArtists, InsertArtists, FillSongs, CollectMembers,
         RebuildUsers, CreateUserArtists, AddExpiry, FillExpiry, CheckEmails
<1>2. CASE AddSongArtists
  <2>1. StatementsLeft = 9 /\ StatementsLeft' \in {6, 8}
    BY <1>2 DEF AddSongArtists, Goes, StatementsLeft
  <2>2. QED
    BY <1>1, <2>1
<1>3. CASE InsertArtists
  <2>1. StatementsLeft = 8 /\ StatementsLeft' = 7
    BY <1>3 DEF InsertArtists, Goes, StatementsLeft
  <2>2. QED
    BY <1>1, <2>1
<1>4. CASE FillSongs
  <2>1. StatementsLeft = 7 /\ StatementsLeft' = 6
    BY <1>4 DEF FillSongs, Goes, StatementsLeft
  <2>2. QED
    BY <1>1, <2>1
<1>5. CASE CollectMembers
  <2>1. StatementsLeft = 6 /\ StatementsLeft' \in {4, 5}
    BY <1>5 DEF CollectMembers, Goes, StatementsLeft
  <2>2. QED
    BY <1>1, <2>1
<1>6. CASE RebuildUsers
  <2>1. StatementsLeft = 5 /\ StatementsLeft' = 4
    BY <1>6 DEF RebuildUsers, Goes, StatementsLeft
  <2>2. QED
    BY <1>1, <2>1
<1>7. CASE CreateUserArtists \/ AddExpiry
  <2>1. \/ StatementsLeft = 4 /\ StatementsLeft' = 3
        \/ StatementsLeft = 3 /\ StatementsLeft' = 2
    BY <1>7 DEF CreateUserArtists, AddExpiry, Goes, StatementsLeft
  <2>2. QED
    BY <1>1, <2>1
<1>8. CASE FillExpiry \/ CheckEmails
  <2>1. \/ StatementsLeft = 2 /\ StatementsLeft' = 1
        \/ StatementsLeft = 1 /\ StatementsLeft' = 0
    BY <1>8 DEF FillExpiry, CheckEmails, Goes, StatementsLeft
  <2>2. QED
    BY <1>1, <2>1
<1>9. QED
  BY <1>2, <1>3, <1>4, <1>5, <1>6, <1>7, <1>8 DEF Migrate

\* migrate has no loop: with C crashes it runs at most nine statements C + 1
\* times, from whatever database it begins.
THEOREM UpgradeAlwaysAdvances == Spec => UpgradeAdvances
<1>1. Stop => crashes' = crashes + 1
  BY DEF Stop
<1>2. Start => crashes' = crashes /\ StatementsLeft' < StatementsLeft
  <2>1. Start => crashes' = crashes /\ StatementsLeft = 10 /\ StatementsLeft' = 9
    BY DEF Start, Goes, StatementsLeft
  <2>2. QED
    BY <2>1
<1>3. Normalize => UNCHANGED <<crashes, StatementsLeft>>
  BY DEF Normalize, StatementsLeft
<1>4. [Next]_vars =>
          [\/ crashes' = crashes + 1
           \/ crashes' = crashes /\ StatementsLeft' < StatementsLeft
           \/ Normalize /\ UNCHANGED <<crashes, StatementsLeft>>]_vars
  BY <1>1, <1>2, <1>3, StatementAdvances DEF Next
<1>5. QED
  BY <1>4, PTL DEF Spec, UpgradeAdvances

=============================================================================
