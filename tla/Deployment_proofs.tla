-------------------------- MODULE Deployment_proofs --------------------------
(***************************************************************************)
(* For any number of processes, songs, artists and accounts: no failed or  *)
(* killed upgrade is seen half done, no upgrade takes anything from what   *)
(* it finds, no request runs before an upgrade has committed, memberships  *)
(* that were taken away stay away, no request is cut short unseen, and     *)
(* nobody who starts or stops waits for what will not come.                *)
(***************************************************************************)
EXTENDS Deployment, TLAPS

USE OldFlawsAssumption, NoArtistAssumption, NoRowAssumption, NoneAssumption,
    BoundsAssumption

-----------------------------------------------------------------------------
(* The invariant. *)

\* Every song and account of d has the artist it had in the old database.
SongsComplete(d) ==
    \A s \in Songs : d.songs[s] # NoRow =>
        d.songs[s] = legacy.slug[s] /\ d.songs[s] \in d.artists

AccountsComplete(d) ==
    \A u \in d.users : legacy.artist[u] # NoArtist =>
        <<u, legacy.artist[u]>> \in d.members /\ legacy.artist[u] \in d.artists

\* An old database on the way up.
Upgrading(d) ==
    /\ ~d.ready
    /\ d.users = db.users
    /\ db.artists \subseteq d.artists
    /\ \A s \in Songs : d.songs[s] \notin {NoRow, NoArtist} =>
          d.songs[s] = legacy.slug[s] /\ d.songs[s] \in d.artists

\* How far the upgrade has come at each statement.
DraftOK ==
    /\ Upgrading(draft)
    /\ \A p \in Procs : pc[p] \in {"invitations", "commit"} =>
          SongsComplete(draft) /\ AccountsComplete(draft)

\* An upgrade of an upgraded database changes nothing.
DatabaseOK ==
    IF db.ready
    THEN draft = db /\ SongsComplete(db) /\ AccountsComplete(db)
    ELSE /\ OldDatabase(db, legacy)
         /\ gone = {}
         /\ writer = None \/ DraftOK

MembersOK ==
    /\ writer \in Procs \cup {None}
    /\ \A m \in db.members : m[1] \in db.users
    /\ \A m \in draft.members : m[1] \in draft.users
    /\ \A m \in gone : m[1] \in usedUsers \ db.users

ReplicaOK(p) ==
    /\ pc[p] \in Running => db.ready
    /\ pool[p] <=> pc[p] \in Running \ {"returning"}
    /\ pc[p] \notin Running =>
          listener[p] = "none" /\ errCh[p] = "empty" /\ handlers[p] = 0
    /\ pc[p] = "serving" => listener[p] # "closed" /\ errCh[p] # "closed"
    /\ cut[p] => pc[p] = "exited" /\ result[p] # "nil"
    /\ pc[p] = "draining" /\ handlers[p] > 0 => shutdownErr[p]
    /\ pc[p] \in {"closing", "returning"} /\ handlers[p] > 0 =>
          result[p] = "error" /\ (shutdownErr[p] \/ errCh[p] = "failed")

Inv ==
    /\ DeploymentTypeOK
    /\ MembersOK
    /\ DatabaseOK
    /\ \A p \in Procs : ReplicaOK(p)

-----------------------------------------------------------------------------
(* Steps that leave the database alone. *)

Labels ==
    {"down", "validating", "opened", "waiting", "exited"} \cup UpgradeStages \cup Running

ServerTypeOK ==
    /\ pc \in [Procs -> Labels]
    /\ listener \in [Procs -> {"none", "open", "closed", "failed", "returned"}]
    /\ errCh \in [Procs -> {"empty", "closed", "failed"}]
    /\ handlers \in [Procs -> 0 .. MaxHandlers]
    /\ signalled \in [Procs -> BOOLEAN]
    /\ shutdownErr \in [Procs -> BOOLEAN]
    /\ pool \in [Procs -> BOOLEAN]
    /\ result \in [Procs -> {"none", "nil", "error"}]
    /\ cut \in [Procs -> BOOLEAN]

LEMMA TypeParts ==
    DeploymentTypeOK <=>
        /\ MigrationTypeOK
        /\ ServerTypeOK
        /\ starts \in 0 .. MaxStarts
        /\ db.users \subseteq usedUsers
        /\ gone \subseteq Users \X Artists
        /\ \A p \in Procs : handlers[p] > 0 \/ pool[p] => pc[p] \in Running
  BY DEF DeploymentTypeOK, ServerTypeOK, Labels

\* Only p does anything.
Moves(p) ==
    /\ ServerTypeOK'
    /\ ReplicaOK(p)'
    /\ \A q \in Procs \ {p} :
          /\ pc'[q] = pc[q]
          /\ listener'[q] = listener[q]
          /\ errCh'[q] = errCh[q]
          /\ handlers'[q] = handlers[q]
          /\ shutdownErr'[q] = shutdownErr[q]
          /\ pool'[q] = pool[q]
          /\ result'[q] = result[q]
          /\ cut'[q] = cut[q]

LEMMA ReplicasStay ==
    ASSUME Inv, NEW p \in Procs, Moves(p), db.ready => db'.ready
    PROVE  /\ \A q \in Procs : ReplicaOK(q)'
           /\ (\A q \in Procs : handlers[q] > 0 \/ pool[q] => pc[q] \in Running)'
<1>1. ASSUME NEW q \in Procs \ {p} PROVE ReplicaOK(q)'
  <2>1. ReplicaOK(q)
    BY DEF Inv
  <2>2. QED
    BY <2>1 DEF Moves, ReplicaOK
<1>2. \A q \in Procs : ReplicaOK(q)'
  BY <1>1 DEF Moves
<1>3. \A q \in Procs : handlers'[q] > 0 \/ pool'[q] => pc'[q] \in Running
  BY <1>2 DEF ReplicaOK
<1>4. QED
  BY <1>2, <1>3

LEMMA MoveKeepsInv ==
    ASSUME Inv, NEW p \in Procs, Moves(p),
           UNCHANGED <<legacy, db, writer, draft, usedUsers, gone>>,
           mode' \in [Procs -> Modes \cup {"none"}], saw' \in [Procs -> BOOLEAN],
           starts' \in 0 .. MaxStarts,
           pc[p] \notin UpgradeStages, pc'[p] \notin UpgradeStages
    PROVE  Inv'
<1>1. \A q \in Procs : /\ pc'[q] \in UpgradeStages <=> pc[q] \in UpgradeStages
                       /\ pc'[q] \in {"invitations", "commit"} =>
                             pc[q] \in {"invitations", "commit"}
  BY DEF Moves, UpgradeStages
<1>2. MigrationTypeOK'
  BY <1>1, TypeParts DEF Inv, MigrationTypeOK
<1>3. /\ \A q \in Procs : ReplicaOK(q)'
      /\ (\A q \in Procs : handlers[q] > 0 \/ pool[q] => pc[q] \in Running)'
  BY ReplicasStay
<1>4. DeploymentTypeOK'
  <2>1. /\ ServerTypeOK' /\ starts' \in 0 .. MaxStarts
        /\ db'.users \subseteq usedUsers' /\ gone' \subseteq Users \X Artists
    BY TypeParts DEF Moves, Inv
  <2>2. QED
    BY <1>2, <1>3, <2>1 DEF DeploymentTypeOK, ServerTypeOK, Labels
<1>5. MembersOK' /\ DatabaseOK'
  BY <1>1 DEF Inv, MembersOK, DatabaseOK, OldDatabase, DraftOK, Upgrading,
              SongsComplete, AccountsComplete
<1>6. QED
  BY <1>3, <1>4, <1>5 DEF Inv

LEMMA LaunchKeepsInv ==
    ASSUME Inv, NEW p \in Procs, NEW m \in Modes, Launch(p, m)
    PROVE  Inv'
<1>1. /\ ServerTypeOK /\ ReplicaOK(p)
      /\ mode \in [Procs -> Modes \cup {"none"}] /\ saw \in [Procs -> BOOLEAN]
      /\ starts \in 0 .. MaxStarts
  BY TypeParts DEF Inv, MigrationTypeOK
<1>2. pc[p] \notin UpgradeStages /\ pc'[p] \notin UpgradeStages
  BY <1>1 DEF Launch, StartProcess, Enter, UpgradeStages, ServerTypeOK
<1>3. ServerTypeOK'
  BY <1>1 DEF Launch, StartProcess, Enter, ServerTypeOK, Set, Labels
<1>4. ReplicaOK(p)'
  BY <1>1 DEF Launch, StartProcess, Enter, ServerTypeOK, Set, ReplicaOK, Running
<1>5. Moves(p)
  BY <1>1, <1>3, <1>4 DEF Launch, StartProcess, Enter, ServerTypeOK, Set, Moves
<1>6. /\ UNCHANGED <<legacy, db, writer, draft, usedUsers, gone>>
      /\ mode' \in [Procs -> Modes \cup {"none"}] /\ saw' \in [Procs -> BOOLEAN]
      /\ starts' \in 0 .. MaxStarts
  BY <1>1 DEF Launch, StartProcess
<1>7. QED
  BY <1>2, <1>5, <1>6, MoveKeepsInv

\* A replica that runs has nothing to do with upgrades any more.
LEMMA RunningKeepsInv ==
    ASSUME Inv, NEW p \in Procs, pc[p] \in Running,
           Moves(p), pc'[p] \in Running \cup {"exited"},
           UNCHANGED <<legacy, db, writer, draft, mode, saw, historyVars>>
    PROVE  Inv'
<1>1. pc[p] \notin UpgradeStages /\ pc'[p] \notin UpgradeStages
  BY DEF UpgradeStages, Running
<1>2. /\ mode' \in [Procs -> Modes \cup {"none"}] /\ saw' \in [Procs -> BOOLEAN]
      /\ starts' \in 0 .. MaxStarts
  BY TypeParts DEF Inv, MigrationTypeOK, historyVars
<1>3. QED
  BY <1>1, <1>2, MoveKeepsInv DEF historyVars

LEMMA ReplicaFacts ==
    ASSUME Inv, NEW p \in Procs
    PROVE  /\ ServerTypeOK /\ ReplicaOK(p)
           /\ pc[p] \in Labels /\ handlers[p] \in Nat
           /\ handlers[p] > 0 => pc[p] \in Running
  BY TypeParts DEF Inv, ServerTypeOK

LEMMA ListenKeepsInv ==
    ASSUME Inv, NEW p \in Procs, Listen(p)
    PROVE  Inv'
<1>1. /\ ServerTypeOK /\ ReplicaOK(p) /\ pc[p] \in Running
      /\ handlers[p] \in 0 .. MaxHandlers
  BY ReplicaFacts DEF Listen, ServerTypeOK, Running
<1>2. ServerTypeOK'
  BY <1>1 DEF Listen, ShuttingDown, ServerTypeOK, Set, Labels, Running, migrationVars
<1>3. ReplicaOK(p)'
  BY <1>1 DEF Listen, ShuttingDown, ServerTypeOK, Set, ReplicaOK, Running, migrationVars
<1>4. Moves(p) /\ pc'[p] \in Running \cup {"exited"}
  BY <1>1, <1>2, <1>3 DEF Listen, ShuttingDown, ServerTypeOK, Set, Moves, Running, migrationVars
<1>5. QED
  BY <1>1, <1>4, RunningKeepsInv DEF Listen, ShuttingDown, migrationVars

LEMMA ListenFailsKeepsInv ==
    ASSUME Inv, NEW p \in Procs, ListenFails(p)
    PROVE  Inv'
<1>1. /\ ServerTypeOK /\ ReplicaOK(p) /\ pc[p] \in Running
      /\ handlers[p] \in 0 .. MaxHandlers
  BY ReplicaFacts DEF ListenFails, ServerTypeOK, Running
<1>2. ServerTypeOK'
  BY <1>1 DEF ListenFails, ServerTypeOK, Set, Labels, Running, migrationVars
<1>3. ReplicaOK(p)'
  BY <1>1 DEF ListenFails, ServerTypeOK, Set, ReplicaOK, Running, migrationVars
<1>4. Moves(p) /\ pc'[p] \in Running \cup {"exited"}
  BY <1>1, <1>2, <1>3 DEF ListenFails, ServerTypeOK, Set, Moves, Running, migrationVars
<1>5. QED
  BY <1>1, <1>4, RunningKeepsInv DEF ListenFails, migrationVars

LEMMA ListenReturnsKeepsInv ==
    ASSUME Inv, NEW p \in Procs, ListenReturns(p)
    PROVE  Inv'
<1>1. /\ ServerTypeOK /\ ReplicaOK(p) /\ pc[p] \in Running
      /\ handlers[p] \in 0 .. MaxHandlers
  BY ReplicaFacts DEF ListenReturns, ServerTypeOK, Running
<1>2. ServerTypeOK'
  BY <1>1 DEF ListenReturns, ServerTypeOK, Set, Labels, Running, migrationVars
<1>3. ReplicaOK(p)'
  BY <1>1 DEF ListenReturns, ServerTypeOK, Set, ReplicaOK, Running, migrationVars
<1>4. Moves(p) /\ pc'[p] \in Running \cup {"exited"}
  BY <1>1, <1>2, <1>3 DEF ListenReturns, ServerTypeOK, Set, Moves, Running, migrationVars
<1>5. QED
  BY <1>1, <1>4, RunningKeepsInv DEF ListenReturns, migrationVars

LEMMA SignalKeepsInv ==
    ASSUME Inv, NEW p \in Procs, Signal(p)
    PROVE  Inv'
<1>1. /\ ServerTypeOK /\ ReplicaOK(p) /\ pc[p] \in Running
      /\ handlers[p] \in 0 .. MaxHandlers
  BY ReplicaFacts DEF Signal, ServerTypeOK, Running
<1>2. ServerTypeOK'
  BY <1>1 DEF Signal, ServerTypeOK, Set, Labels, Running, migrationVars
<1>3. ReplicaOK(p)'
  BY <1>1 DEF Signal, ServerTypeOK, Set, ReplicaOK, Running, migrationVars
<1>4. Moves(p) /\ pc'[p] \in Running \cup {"exited"}
  BY <1>1, <1>2, <1>3 DEF Signal, ServerTypeOK, Set, Moves, Running, migrationVars
<1>5. QED
  BY <1>1, <1>4, RunningKeepsInv DEF Signal, migrationVars

LEMMA SelectErrorKeepsInv ==
    ASSUME Inv, NEW p \in Procs, SelectError(p)
    PROVE  Inv'
<1>1. /\ ServerTypeOK /\ ReplicaOK(p) /\ pc[p] \in Running
      /\ handlers[p] \in 0 .. MaxHandlers
  BY ReplicaFacts DEF SelectError, ServerTypeOK, Running
<1>2. ServerTypeOK'
  BY <1>1 DEF SelectError, ResultOf, Enter, ServerTypeOK, Set, Labels, Running, migrationVars
<1>3. ReplicaOK(p)'
  BY <1>1 DEF SelectError, ResultOf, Enter, ServerTypeOK, Set, ReplicaOK, Running, migrationVars
<1>4. Moves(p) /\ pc'[p] \in Running \cup {"exited"}
  BY <1>1, <1>2, <1>3 DEF SelectError, ResultOf, Enter, ServerTypeOK, Set, Moves, Running, migrationVars
<1>5. QED
  BY <1>1, <1>4, RunningKeepsInv DEF SelectError, ResultOf, Enter, migrationVars

LEMMA SelectSignalKeepsInv ==
    ASSUME Inv, NEW p \in Procs, SelectSignal(p)
    PROVE  Inv'
<1>1. /\ ServerTypeOK /\ ReplicaOK(p) /\ pc[p] \in Running
      /\ handlers[p] \in 0 .. MaxHandlers
  BY ReplicaFacts DEF SelectSignal, ServerTypeOK, Running
<1>2. ServerTypeOK'
  BY <1>1 DEF SelectSignal, Enter, ServerTypeOK, Set, Labels, Running, migrationVars
<1>3. ReplicaOK(p)'
  BY <1>1 DEF SelectSignal, Enter, ServerTypeOK, Set, ReplicaOK, Running, migrationVars
<1>4. Moves(p) /\ pc'[p] \in Running \cup {"exited"}
  BY <1>1, <1>2, <1>3 DEF SelectSignal, Enter, ServerTypeOK, Set, Moves, Running, migrationVars
<1>5. QED
  BY <1>1, <1>4, RunningKeepsInv DEF SelectSignal, Enter, migrationVars

LEMMA ShutdownReturnsKeepsInv ==
    ASSUME Inv, NEW p \in Procs, ShutdownReturns(p)
    PROVE  Inv'
<1>1. /\ ServerTypeOK /\ ReplicaOK(p) /\ pc[p] \in Running
      /\ handlers[p] \in 0 .. MaxHandlers
  BY ReplicaFacts DEF ShutdownReturns, ServerTypeOK, Running
<1>2. ServerTypeOK'
  BY <1>1 DEF ShutdownReturns, Enter, ServerTypeOK, Set, Labels, Running, migrationVars
<1>3. ReplicaOK(p)'
  BY <1>1 DEF ShutdownReturns, Enter, ServerTypeOK, Set, ReplicaOK, Running, migrationVars
<1>4. Moves(p) /\ pc'[p] \in Running \cup {"exited"}
  BY <1>1, <1>2, <1>3 DEF ShutdownReturns, Enter, ServerTypeOK, Set, Moves, Running, migrationVars
<1>5. QED
  BY <1>1, <1>4, RunningKeepsInv DEF ShutdownReturns, Enter, migrationVars

LEMMA ReceiveErrorKeepsInv ==
    ASSUME Inv, NEW p \in Procs, ReceiveError(p)
    PROVE  Inv'
<1>1. /\ ServerTypeOK /\ ReplicaOK(p) /\ pc[p] \in Running
      /\ handlers[p] \in 0 .. MaxHandlers
  BY ReplicaFacts DEF ReceiveError, ServerTypeOK, Running
<1>2. ServerTypeOK'
  BY <1>1 DEF ReceiveError, ResultOf, Enter, ServerTypeOK, Set, Labels, Running, migrationVars
<1>3. ReplicaOK(p)'
  BY <1>1 DEF ReceiveError, ResultOf, Enter, ServerTypeOK, Set, ReplicaOK, Running, migrationVars
<1>4. Moves(p) /\ pc'[p] \in Running \cup {"exited"}
  BY <1>1, <1>2, <1>3 DEF ReceiveError, ResultOf, Enter, ServerTypeOK, Set, Moves, Running, migrationVars
<1>5. QED
  BY <1>1, <1>4, RunningKeepsInv DEF ReceiveError, ResultOf, Enter, migrationVars

LEMMA CloseRepositoryKeepsInv ==
    ASSUME Inv, NEW p \in Procs, CloseRepository(p)
    PROVE  Inv'
<1>1. /\ ServerTypeOK /\ ReplicaOK(p) /\ pc[p] \in Running
      /\ handlers[p] \in 0 .. MaxHandlers
  BY ReplicaFacts DEF CloseRepository, ServerTypeOK, Running
<1>2. ServerTypeOK'
  BY <1>1 DEF CloseRepository, Enter, ServerTypeOK, Set, Labels, Running, migrationVars
<1>3. ReplicaOK(p)'
  BY <1>1 DEF CloseRepository, Enter, ServerTypeOK, Set, ReplicaOK, Running, migrationVars
<1>4. Moves(p) /\ pc'[p] \in Running \cup {"exited"}
  BY <1>1, <1>2, <1>3 DEF CloseRepository, Enter, ServerTypeOK, Set, Moves, Running, migrationVars
<1>5. QED
  BY <1>1, <1>4, RunningKeepsInv DEF CloseRepository, Enter, migrationVars

LEMMA AcceptKeepsInv ==
    ASSUME Inv, NEW p \in Procs, Accept(p)
    PROVE  Inv'
<1>1. /\ ServerTypeOK /\ ReplicaOK(p) /\ pc[p] \in Running
      /\ handlers[p] \in 0 .. MaxHandlers
  BY ReplicaFacts DEF Accept, ServerTypeOK, Running
<1>2. ServerTypeOK'
  BY <1>1 DEF Accept, ServerTypeOK, Set, Labels, Running, migrationVars
<1>3. ReplicaOK(p)'
  BY <1>1 DEF Accept, ServerTypeOK, Set, ReplicaOK, Running, migrationVars
<1>4. Moves(p) /\ pc'[p] \in Running \cup {"exited"}
  BY <1>1, <1>2, <1>3 DEF Accept, ServerTypeOK, Set, Moves, Running, migrationVars
<1>5. QED
  BY <1>1, <1>4, RunningKeepsInv DEF Accept, migrationVars

LEMMA HandlerEndsKeepsInv ==
    ASSUME Inv, NEW p \in Procs, HandlerEnds(p)
    PROVE  Inv'
<1>1. /\ ServerTypeOK /\ ReplicaOK(p) /\ pc[p] \in Running
      /\ handlers[p] \in 0 .. MaxHandlers
  BY ReplicaFacts DEF HandlerEnds, ServerTypeOK, Running
<1>2. ServerTypeOK'
  BY <1>1 DEF HandlerEnds, ServerTypeOK, Set, Labels, Running, migrationVars
<1>3. ReplicaOK(p)'
  BY <1>1 DEF HandlerEnds, ServerTypeOK, Set, ReplicaOK, Running, migrationVars
<1>4. Moves(p) /\ pc'[p] \in Running \cup {"exited"}
  BY <1>1, <1>2, <1>3 DEF HandlerEnds, ServerTypeOK, Set, Moves, Running, migrationVars
<1>5. QED
  BY <1>1, <1>4, RunningKeepsInv DEF HandlerEnds, migrationVars

LEMMA ExitKeepsInv ==
    ASSUME Inv, NEW p \in Procs, Exit(p)
    PROVE  Inv'
<1>1. /\ ServerTypeOK /\ ReplicaOK(p) /\ pc[p] \in Running
      /\ handlers[p] \in 0 .. MaxHandlers
  BY ReplicaFacts DEF Exit, ServerTypeOK, Running
<1>2. ServerTypeOK'
  BY <1>1 DEF Exit, Vanish, Enter, ServerTypeOK, Set, Labels, Running, migrationVars
<1>3. ReplicaOK(p)'
  BY <1>1 DEF Exit, Vanish, Enter, ServerTypeOK, Set, ReplicaOK, Running, migrationVars
<1>4. Moves(p) /\ pc'[p] \in Running \cup {"exited"}
  BY <1>1, <1>2, <1>3 DEF Exit, Vanish, Enter, ServerTypeOK, Set, Moves, Running, migrationVars
<1>5. QED
  BY <1>1, <1>4, RunningKeepsInv DEF Exit, Vanish, Enter, migrationVars

LEMMA KilledKeepsInv ==
    ASSUME Inv, NEW p \in Procs, Killed(p)
    PROVE  Inv'
<1>1. /\ ServerTypeOK /\ ReplicaOK(p) /\ pc[p] \in Running
      /\ handlers[p] \in 0 .. MaxHandlers
  BY ReplicaFacts DEF Killed, ServerTypeOK, Running
<1>2. ServerTypeOK'
  BY <1>1 DEF Killed, Vanish, Enter, ServerTypeOK, Set, Labels, Running, migrationVars
<1>3. ReplicaOK(p)'
  BY <1>1 DEF Killed, Vanish, Enter, ServerTypeOK, Set, ReplicaOK, Running, migrationVars
<1>4. Moves(p) /\ pc'[p] \in Running \cup {"exited"}
  BY <1>1, <1>2, <1>3 DEF Killed, Vanish, Enter, ServerTypeOK, Set, Moves, Running, migrationVars
<1>5. QED
  BY <1>1, <1>4, RunningKeepsInv DEF Killed, Vanish, Enter, migrationVars

LEMMA ValidateKeepsInv ==
    ASSUME Inv, NEW p \in Procs, Validate(p), pool' = Set(pool, p, pc'[p] = "serving"),
           UNCHANGED <<listener, errCh, handlers, signalled, shutdownErr, result,
                       cut, historyVars>>
    PROVE  Inv'
<1>1. /\ ServerTypeOK /\ ReplicaOK(p)
      /\ mode \in [Procs -> Modes \cup {"none"}] /\ saw \in [Procs -> BOOLEAN]
      /\ db.ready \in BOOLEAN /\ starts \in 0 .. MaxStarts
  BY TypeParts DEF Inv, MigrationTypeOK, Database
<1>2. pc[p] \notin UpgradeStages /\ pc'[p] \notin UpgradeStages
  BY <1>1 DEF Validate, Validates, Leave, Enter, UpgradeStages, ServerTypeOK
<1>3. ServerTypeOK'
  BY <1>1 DEF Validate, Validates, Leave, Enter, ServerTypeOK, Set, Labels, Running
<1>4. ReplicaOK(p)'
  BY <1>1 DEF Validate, Validates, Leave, Enter, ServerTypeOK, Set, ReplicaOK, Running
<1>5. Moves(p)
  BY <1>1, <1>3, <1>4 DEF Validate, Validates, Leave, Enter, ServerTypeOK, Set, Moves
<1>6. /\ UNCHANGED <<legacy, db, writer, draft, usedUsers, gone>>
      /\ mode' \in [Procs -> Modes \cup {"none"}] /\ saw' \in [Procs -> BOOLEAN]
      /\ starts' \in 0 .. MaxStarts
  BY <1>1 DEF Validate, Validates, Leave, Enter, historyVars
<1>7. QED
  BY <1>2, <1>5, <1>6, MoveKeepsInv

LEMMA LookForTablesKeepsInv ==
    ASSUME Inv, NEW p \in Procs, LookForTables(p), pool' = Set(pool, p, pc'[p] = "serving"),
           UNCHANGED <<listener, errCh, handlers, signalled, shutdownErr, result,
                       cut, historyVars>>
    PROVE  Inv'
<1>1. /\ ServerTypeOK /\ ReplicaOK(p)
      /\ mode \in [Procs -> Modes \cup {"none"}] /\ saw \in [Procs -> BOOLEAN]
      /\ db.ready \in BOOLEAN /\ starts \in 0 .. MaxStarts
  BY TypeParts DEF Inv, MigrationTypeOK, Database
<1>2. pc[p] \notin UpgradeStages /\ pc'[p] \notin UpgradeStages
  BY <1>1 DEF LookForTables, Enter, UpgradeStages, ServerTypeOK
<1>3. ServerTypeOK'
  BY <1>1 DEF LookForTables, Enter, ServerTypeOK, Set, Labels, Running
<1>4. ReplicaOK(p)'
  BY <1>1 DEF LookForTables, Enter, ServerTypeOK, Set, ReplicaOK, Running
<1>5. Moves(p)
  BY <1>1, <1>3, <1>4 DEF LookForTables, Enter, ServerTypeOK, Set, Moves
<1>6. /\ UNCHANGED <<legacy, db, writer, draft, usedUsers, gone>>
      /\ mode' \in [Procs -> Modes \cup {"none"}] /\ saw' \in [Procs -> BOOLEAN]
      /\ starts' \in 0 .. MaxStarts
  BY <1>1 DEF LookForTables, Enter, historyVars
<1>7. QED
  BY <1>2, <1>5, <1>6, MoveKeepsInv

LEMMA CollideKeepsInv ==
    ASSUME Inv, NEW p \in Procs, Collide(p), pool' = Set(pool, p, pc'[p] = "serving"),
           UNCHANGED <<listener, errCh, handlers, signalled, shutdownErr, result,
                       cut, historyVars>>
    PROVE  Inv'
<1>1. /\ ServerTypeOK /\ ReplicaOK(p)
      /\ mode \in [Procs -> Modes \cup {"none"}] /\ saw \in [Procs -> BOOLEAN]
      /\ db.ready \in BOOLEAN /\ starts \in 0 .. MaxStarts
  BY TypeParts DEF Inv, MigrationTypeOK, Database
<1>2. pc[p] \notin UpgradeStages /\ pc'[p] \notin UpgradeStages
  BY <1>1 DEF Collide, Leave, Enter, UpgradeStages, ServerTypeOK
<1>3. ServerTypeOK'
  BY <1>1 DEF Collide, Leave, Enter, ServerTypeOK, Set, Labels, Running
<1>4. ReplicaOK(p)'
  BY <1>1 DEF Collide, Leave, Enter, ServerTypeOK, Set, ReplicaOK, Running
<1>5. Moves(p)
  BY <1>1, <1>3, <1>4 DEF Collide, Leave, Enter, ServerTypeOK, Set, Moves
<1>6. /\ UNCHANGED <<legacy, db, writer, draft, usedUsers, gone>>
      /\ mode' \in [Procs -> Modes \cup {"none"}] /\ saw' \in [Procs -> BOOLEAN]
      /\ starts' \in 0 .. MaxStarts
  BY <1>1 DEF Collide, Leave, Enter, historyVars
<1>7. QED
  BY <1>2, <1>5, <1>6, MoveKeepsInv

-----------------------------------------------------------------------------
(* Statements of the upgrade. *)

LEMMA StatementsKeepRows ==
    ASSUME legacy \in Legacy, NEW d \in Database
    PROVE  /\ WithArtists(d) \in Database
           /\ WithSongs(d) \in Database
           /\ WithMembers(d) \in Database
<1>1. WithArtists(d) \in Database
  <2>1. {legacy.slug[s] : s \in {t \in Songs : d.songs[t] # NoRow}} \ {NoArtist}
            \subseteq Artists
    BY DEF Legacy
  <2>2. QED
    BY <2>1 DEF WithArtists, Database
<1>2. WithSongs(d) \in Database
  <2>1. [s \in Songs |-> IF d.songs[s] = NoArtist /\ legacy.slug[s] \in d.artists
                         THEN legacy.slug[s] ELSE d.songs[s]]
            \in [Songs -> Artists \cup {NoArtist, NoRow}]
    BY DEF Legacy, Database
  <2>2. QED
    BY <2>1 DEF WithSongs, Database
<1>3. WithMembers(d) \in Database
  <2>1. {<<u, legacy.artist[u]>> : u \in {v \in d.users : legacy.artist[v] # NoArtist}}
            \subseteq Users \X Artists
    BY DEF Legacy, Database
  <2>2. QED
    BY <2>1 DEF WithMembers, Database
<1>4. QED
  BY <1>1, <1>2, <1>3

\* A database that has been upgraded is left as it is.
LEMMA UpgradingAgain ==
    ASSUME legacy \in Legacy, NEW d \in Database, d.ready,
           SongsComplete(d), AccountsComplete(d)
    PROVE  WithArtists(d) = d /\ WithSongs(d) = d /\ WithMembers(d) = d
<1>1. WithArtists(d) = d
  BY DEF WithArtists
<1>2. WithSongs(d) = d
  <2>1. \A s \in Songs : d.songs[s] # NoArtist
    BY DEF SongsComplete, Database
  <2>2. [s \in Songs |-> IF d.songs[s] = NoArtist /\ legacy.slug[s] \in d.artists
                         THEN legacy.slug[s] ELSE d.songs[s]] = d.songs
    BY <2>1 DEF Database
  <2>3. QED
    BY <2>2 DEF WithSongs, Database
<1>3. WithMembers(d) = d
  <2>1. {<<u, legacy.artist[u]>> : u \in {v \in d.users : legacy.artist[v] # NoArtist}}
            \subseteq d.members
    BY DEF AccountsComplete
  <2>2. d.members \cup
        {<<u, legacy.artist[u]>> : u \in {v \in d.users : legacy.artist[v] # NoArtist}}
            = d.members
    BY <2>1
  <2>3. QED
    BY <2>2 DEF WithMembers, Database
<1>4. QED
  BY <1>1, <1>2, <1>3

\* What a step of a starting process leaves to show.
LEMMA StartingKeepsInv ==
    ASSUME Inv, NEW p \in Procs, Moves(p),
           UNCHANGED <<legacy, historyVars>>,
           db.ready => db'.ready, db'.users = db.users,
           MigrationTypeOK', MembersOK', DatabaseOK'
    PROVE  Inv'
<1>1. /\ \A q \in Procs : ReplicaOK(q)'
      /\ (\A q \in Procs : handlers[q] > 0 \/ pool[q] => pc[q] \in Running)'
  BY ReplicasStay
<1>2. /\ ServerTypeOK' /\ starts' \in 0 .. MaxStarts
      /\ db'.users \subseteq usedUsers' /\ gone' \subseteq Users \X Artists
  BY TypeParts DEF Moves, Inv, historyVars
<1>3. DeploymentTypeOK'
  BY <1>1, <1>2 DEF DeploymentTypeOK, ServerTypeOK, Labels
<1>4. QED
  BY <1>1, <1>3 DEF Inv

\* A process that is not running yet moves on to another label of its start.
LEMMA StartMoves ==
    ASSUME Inv, NEW p \in Procs, pc[p] \notin Running,
           NEW label \in Labels \ (Running \ {"serving"}), Enter(p, label),
           label = "serving" => db'.ready,
           cut[p] = FALSE \/ label = "exited",
           pool' = Set(pool, p, pc'[p] = "serving"),
           UNCHANGED <<listener, errCh, handlers, signalled, shutdownErr, result, cut>>
    PROVE  Moves(p)
<1>1. ServerTypeOK /\ ReplicaOK(p)
  BY ReplicaFacts
<1>2. pc'[p] = label
  BY <1>1 DEF ServerTypeOK, Enter
<1>3. ServerTypeOK'
  BY <1>1, <1>2 DEF ServerTypeOK, Set, Enter
<1>4. ReplicaOK(p)'
  BY <1>1, <1>2 DEF ServerTypeOK, Set, ReplicaOK, Running
<1>5. QED
  BY <1>1, <1>3, <1>4 DEF Moves, Enter, ServerTypeOK, Set

LEMMA StartingFacts ==
    ASSUME Inv, NEW p \in Procs,
           pc[p] \in {"validating", "opened", "waiting"} \cup UpgradeStages
    PROVE  /\ pc[p] \notin Running /\ cut[p] = FALSE
           /\ legacy \in Legacy /\ db \in Database /\ draft \in Database
           /\ mode \in [Procs -> Modes \cup {"none"}] /\ saw \in [Procs -> BOOLEAN]
           /\ pc \in [Procs -> Labels]
           /\ writer = p <=> pc[p] \in UpgradeStages
           /\ \A q \in Procs : pc[q] \in UpgradeStages <=> writer = q
           /\ writer = None => draft = db
           /\ pool[p] = FALSE
<1>1. ServerTypeOK /\ ReplicaOK(p)
  BY ReplicaFacts
<1>2. pc[p] \notin Running /\ pc[p] # "exited"
  BY DEF Running, UpgradeStages
<1>3. QED
  BY <1>1, <1>2, TypeParts DEF Inv, MigrationTypeOK, ReplicaOK, ServerTypeOK

LEMMA GetLocksKeepsInv ==
    ASSUME Inv, NEW p \in Procs, GetLocks(p),
           pool' = Set(pool, p, pc'[p] = "serving"),
           UNCHANGED <<listener, errCh, handlers, signalled, shutdownErr, result,
                       cut, historyVars>>
    PROVE  Inv'
<1>1. /\ pc[p] \notin Running /\ cut[p] = FALSE
      /\ legacy \in Legacy /\ db \in Database /\ draft \in Database
      /\ mode \in [Procs -> Modes \cup {"none"}] /\ saw \in [Procs -> BOOLEAN]
      /\ pc \in [Procs -> Labels]
      /\ \A q \in Procs : pc[q] \notin UpgradeStages
      /\ draft = db
  BY StartingFacts DEF GetLocks
<1>2. Moves(p)
  BY <1>1, StartMoves DEF GetLocks, Labels, UpgradeStages, Running
<1>3. \A q \in Procs : pc'[q] = IF q = p THEN "artists" ELSE pc[q]
  BY <1>1 DEF GetLocks, Enter
<1>4. /\ MigrationTypeOK'
      /\ MembersOK'
  BY <1>1, <1>3 DEF GetLocks, Inv, MigrationTypeOK, MembersOK, UpgradeStages,
                    historyVars
<1>5. DatabaseOK'
  <2>1. CASE db.ready
    BY <1>1, <2>1 DEF GetLocks, Inv, DatabaseOK, SongsComplete, AccountsComplete
  <2>2. CASE ~db.ready
    <3>1. OldDatabase(db, legacy) /\ gone = {}
      BY <2>2 DEF Inv, DatabaseOK
    <3>2. Upgrading(draft)'
      BY <1>1, <2>2, <3>1 DEF GetLocks, Upgrading, OldDatabase
    <3>3. DraftOK'
      BY <1>1, <1>3, <3>2 DEF DraftOK, UpgradeStages
    <3>4. QED
      BY <2>2, <3>1, <3>3 DEF GetLocks, DatabaseOK, OldDatabase, historyVars
  <2>3. QED
    BY <2>1, <2>2
<1>6. QED
  BY <1>1, <1>2, <1>4, <1>5, StartingKeepsInv DEF GetLocks, historyVars

\* A statement gives the writer a draft d, and the next label.
LEMMA StatementKeepsInv ==
    ASSUME Inv, NEW p \in Procs, NEW next \in UpgradeStages, NEW d \in Database,
           pc[p] \in UpgradeStages, Enter(p, next), draft' = d,
           UNCHANGED <<legacy, db, writer, mode, saw>>,
           pool' = Set(pool, p, pc'[p] = "serving"),
           UNCHANGED <<listener, errCh, handlers, signalled, shutdownErr, result,
                       cut, historyVars>>,
           \A m \in d.members : m[1] \in d.users,
           db.ready => d = db,
           ~db.ready =>
               /\ Upgrading(d)
               /\ next \in {"invitations", "commit"} =>
                     SongsComplete(d) /\ AccountsComplete(d)
    PROVE  Inv'
<1>1. /\ pc[p] \notin Running /\ cut[p] = FALSE
      /\ legacy \in Legacy /\ db \in Database
      /\ mode \in [Procs -> Modes \cup {"none"}] /\ saw \in [Procs -> BOOLEAN]
      /\ pc \in [Procs -> Labels]
      /\ writer = p
      /\ \A q \in Procs : pc[q] \in UpgradeStages <=> writer = q
  BY StartingFacts
<1>2. Moves(p)
  BY <1>1, StartMoves DEF Labels, UpgradeStages, Running
<1>3. \A q \in Procs : pc'[q] = IF q = p THEN next ELSE pc[q]
  BY <1>1 DEF Enter
<1>4. /\ MigrationTypeOK'
      /\ MembersOK'
  BY <1>1, <1>3 DEF Inv, MigrationTypeOK, MembersOK, historyVars
<1>5. DatabaseOK'
  <2>1. CASE db.ready
    BY <2>1 DEF Inv, DatabaseOK, SongsComplete, AccountsComplete
  <2>2. CASE ~db.ready
    <3>1. Upgrading(draft)'
      BY <2>2 DEF Upgrading
    <3>2. ASSUME NEW q \in Procs, pc'[q] \in {"invitations", "commit"}
          PROVE  (SongsComplete(draft) /\ AccountsComplete(draft))'
      <4>1. q = p
        BY <1>1, <1>3, <3>2 DEF UpgradeStages
      <4>2. SongsComplete(d) /\ AccountsComplete(d)
        BY <1>3, <2>2, <3>2, <4>1
      <4>3. QED
        BY <4>2 DEF SongsComplete, AccountsComplete
    <3>3. DraftOK'
      BY <3>1, <3>2 DEF DraftOK
    <3>4. QED
      BY <2>2, <3>3 DEF Inv, DatabaseOK, OldDatabase, historyVars
  <2>3. QED
    BY <2>1, <2>2
<1>6. QED
  BY <1>1, <1>2, <1>4, <1>5, StartingKeepsInv DEF historyVars

\* What a statement finds.
LEMMA WriterFacts ==
    ASSUME Inv, NEW p \in Procs, pc[p] \in UpgradeStages
    PROVE  /\ legacy \in Legacy /\ db \in Database /\ draft \in Database
           /\ writer = p
           /\ \A m \in draft.members : m[1] \in draft.users
           /\ db.ready => /\ draft = db /\ draft.ready
                          /\ SongsComplete(draft) /\ AccountsComplete(draft)
           /\ ~db.ready =>
                 /\ Upgrading(draft)
                 /\ OldDatabase(db, legacy)
                 /\ pc[p] \in {"invitations", "commit"} =>
                       SongsComplete(draft) /\ AccountsComplete(draft)
<1>1. writer = p /\ writer # None
  BY StartingFacts
<1>2. QED
  BY <1>1, StartingFacts DEF Inv, MembersOK, DatabaseOK, DraftOK

LEMMA InsertArtistsKeepsInv ==
    ASSUME Inv, NEW p \in Procs, InsertArtists(p),
           pool' = Set(pool, p, pc'[p] = "serving"),
           UNCHANGED <<listener, errCh, handlers, signalled, shutdownErr, result,
                       cut, historyVars>>
    PROVE  Inv'
<1>1. pc[p] = "artists" /\ pc[p] \in UpgradeStages /\ "songs" \in UpgradeStages
  BY DEF InsertArtists, RunStatement, UpgradeStages
<1>2. PICK d \in Database : d = WithArtists(draft)
  BY <1>1, WriterFacts, StatementsKeepRows
<1>3. db.ready => d = db
  BY <1>1, <1>2, WriterFacts, UpgradingAgain
<1>4. /\ d.members = draft.members /\ d.users = draft.users /\ d.ready = draft.ready
      /\ d.songs = draft.songs /\ draft.artists \subseteq d.artists
  BY <1>1, <1>2, WriterFacts DEF WithArtists, Database
<1>5. ~db.ready => Upgrading(d)
  BY <1>1, <1>4, WriterFacts DEF Upgrading
<1>6. \A m \in d.members : m[1] \in d.users
  BY <1>1, <1>4, WriterFacts
<1>7. QED
  BY <1>1, <1>2, <1>3, <1>5, <1>6, StatementKeepsInv DEF InsertArtists, RunStatement

LEMMA FillSongsKeepsInv ==
    ASSUME Inv, NEW p \in Procs, FillSongs(p),
           pool' = Set(pool, p, pc'[p] = "serving"),
           UNCHANGED <<listener, errCh, handlers, signalled, shutdownErr, result,
                       cut, historyVars>>
    PROVE  Inv'
<1>1. pc[p] = "songs" /\ pc[p] \in UpgradeStages /\ "members" \in UpgradeStages
  BY DEF FillSongs, RunStatement, UpgradeStages
<1>2. PICK d \in Database : d = WithSongs(draft)
  BY <1>1, WriterFacts, StatementsKeepRows
<1>3. db.ready => d = db
  BY <1>1, <1>2, WriterFacts, UpgradingAgain
<1>4. /\ d.members = draft.members /\ d.users = draft.users /\ d.ready = draft.ready
      /\ d.artists = draft.artists
      /\ \A s \in Songs :
            \/ d.songs[s] = draft.songs[s]
            \/ d.songs[s] = legacy.slug[s] /\ legacy.slug[s] \in d.artists
  BY <1>1, <1>2, WriterFacts DEF WithSongs, Database
<1>5. ~db.ready => Upgrading(d)
  BY <1>1, <1>4, WriterFacts DEF Upgrading
<1>6. \A m \in d.members : m[1] \in d.users
  BY <1>1, <1>4, WriterFacts
<1>7. QED
  BY <1>1, <1>2, <1>3, <1>5, <1>6, StatementKeepsInv DEF FillSongs, RunStatement

LEMMA FillMembersKeepsInv ==
    ASSUME Inv, NEW p \in Procs, FillMembers(p),
           pool' = Set(pool, p, pc'[p] = "serving"),
           UNCHANGED <<listener, errCh, handlers, signalled, shutdownErr, result,
                       cut, historyVars>>
    PROVE  Inv'
<1>1. pc[p] = "members" /\ pc[p] \in UpgradeStages /\ "invitations" \in UpgradeStages
  BY DEF FillMembers, RunStatement, UpgradeStages
<1>2. PICK d \in Database : d = WithMembers(draft)
  BY <1>1, WriterFacts, StatementsKeepRows
<1>3. db.ready => d = db
  BY <1>1, <1>2, WriterFacts, UpgradingAgain
<1>4. /\ d.users = draft.users /\ d.ready = draft.ready
      /\ d.artists = draft.artists /\ d.songs = draft.songs
      /\ d.members = draft.members \cup
             {<<u, legacy.artist[u]>> :
                 u \in {v \in d.users : legacy.artist[v] # NoArtist}}
  BY <1>1, <1>2, WriterFacts DEF WithMembers, Database
<1>5. ~db.ready => Upgrading(d)
  BY <1>1, <1>4, WriterFacts DEF Upgrading
<1>6. \A m \in d.members : m[1] \in d.users
  BY <1>1, <1>4, WriterFacts
<1>7. \A s \in Songs : d.songs[s] # NoArtist
  BY <1>1, <1>4 DEF FillMembers, RunStatement, Refuses
<1>8. ~db.ready => SongsComplete(d) /\ AccountsComplete(d)
  <2> SUFFICES ASSUME ~db.ready PROVE SongsComplete(d) /\ AccountsComplete(d)
    OBVIOUS
  <2>1. SongsComplete(d)
    BY <1>5, <1>7 DEF SongsComplete, Upgrading
  <2>2. \A u \in d.users : legacy.artist[u] # NoArtist => legacy.artist[u] \in d.artists
    BY <1>1, <1>5, WriterFacts DEF Upgrading, OldDatabase, Database
  <2>3. QED
    BY <1>4, <2>1, <2>2 DEF AccountsComplete
<1>9. QED
  BY <1>1, <1>2, <1>3, <1>5, <1>6, <1>8, StatementKeepsInv
     DEF FillMembers, RunStatement

LEMMA CheckInvitationsKeepsInv ==
    ASSUME Inv, NEW p \in Procs, CheckInvitations(p),
           pool' = Set(pool, p, pc'[p] = "serving"),
           UNCHANGED <<listener, errCh, handlers, signalled, shutdownErr, result,
                       cut, historyVars>>
    PROVE  Inv'
<1>1. pc[p] = "invitations" /\ pc[p] \in UpgradeStages /\ "commit" \in UpgradeStages
  BY DEF CheckInvitations, RunStatement, UpgradeStages
<1>2. PICK d \in Database : d = draft
  BY <1>1, WriterFacts
<1>3. QED
  BY <1>1, <1>2, WriterFacts, StatementKeepsInv DEF CheckInvitations, RunStatement

LEMMA CommitUpgradeKeepsInv ==
    ASSUME Inv, NEW p \in Procs, CommitUpgrade(p),
           pool' = Set(pool, p, pc'[p] = "serving"),
           UNCHANGED <<listener, errCh, handlers, signalled, shutdownErr, result,
                       cut, historyVars>>
    PROVE  Inv'
<1>1. pc[p] = "commit" /\ pc[p] \in UpgradeStages
  BY DEF CommitUpgrade, UpgradeStages
<1>2. /\ pc[p] \notin Running /\ cut[p] = FALSE
      /\ legacy \in Legacy /\ draft \in Database
      /\ mode \in [Procs -> Modes \cup {"none"}] /\ saw \in [Procs -> BOOLEAN]
      /\ pc \in [Procs -> Labels]
      /\ \A q \in Procs : pc[q] \in UpgradeStages <=> writer = q
  BY <1>1, StartingFacts
<1>3. PICK d \in Database : d = [draft EXCEPT !.ready = TRUE]
  BY <1>2 DEF Database
<1>4. /\ d.ready /\ d.songs = draft.songs /\ d.artists = draft.artists
      /\ d.users = draft.users /\ d.members = draft.members
      /\ db' = d /\ draft' = d /\ writer' = None /\ legacy' = legacy
  BY <1>2, <1>3 DEF CommitUpgrade, Database
<1>5. PICK label \in {"exited", "serving"} : Leave(p, label)
  BY DEF CommitUpgrade
<1>6. \A q \in Procs : pc'[q] = IF q = p THEN label ELSE pc[q]
  BY <1>2, <1>5 DEF Leave, Enter
<1>7. Moves(p)
  BY <1>2, <1>4, <1>5, StartMoves DEF Leave, Labels, Running
<1>8. SongsComplete(draft) /\ AccountsComplete(draft) /\ draft.users = db.users
  BY <1>1, WriterFacts DEF Upgrading
<1>9. DatabaseOK'
  <2>1. SongsComplete(d) /\ AccountsComplete(d)
    BY <1>4, <1>8 DEF SongsComplete, AccountsComplete
  <2>2. QED
    BY <1>4, <2>1 DEF DatabaseOK, SongsComplete, AccountsComplete
<1>10. MembersOK'
  BY <1>4, <1>8 DEF Inv, MembersOK, historyVars
<1>11. MigrationTypeOK'
  <2>1. \A q \in Procs : pc'[q] \notin UpgradeStages
    <3>1. writer = p
      BY <1>1, <1>2
    <3>2. QED
      BY <1>2, <1>6, <3>1 DEF UpgradeStages
  <2>2. mode' \in [Procs -> Modes \cup {"none"}] /\ saw' \in [Procs -> BOOLEAN]
    BY <1>2, <1>5 DEF Leave
  <2>3. QED
    BY <1>2, <1>4, <2>1, <2>2 DEF MigrationTypeOK
<1>12. QED
  BY <1>4, <1>7, <1>8, <1>9, <1>10, <1>11, StartingKeepsInv DEF historyVars

\* The start of a process fails, wherever it is.
LEMMA RollbackKeepsInv ==
    ASSUME Inv, NEW p \in Procs,
           pc[p] \in {"validating", "opened", "waiting"} \cup UpgradeStages,
           Rollback(p), Leave(p, "exited"),
           pool' = pool \/ pool' = Set(pool, p, pc'[p] = "serving"),
           UNCHANGED <<legacy, db, listener, errCh, handlers, signalled,
                       shutdownErr, result, cut, historyVars>>
    PROVE  Inv'
<1>1. /\ pc[p] \notin Running /\ cut[p] = FALSE /\ pool[p] = FALSE
      /\ legacy \in Legacy /\ db \in Database /\ draft \in Database
      /\ mode \in [Procs -> Modes \cup {"none"}] /\ saw \in [Procs -> BOOLEAN]
      /\ pc \in [Procs -> Labels]
      /\ \A q \in Procs : pc[q] \in UpgradeStages <=> writer = q
      /\ writer = None => draft = db
  BY StartingFacts
<1>2. \A q \in Procs : pc'[q] = IF q = p THEN "exited" ELSE pc[q]
  BY <1>1 DEF Leave, Enter
<1>3. pool' = Set(pool, p, pc'[p] = "serving")
  <2>1. pool \in [Procs -> BOOLEAN]
    BY ReplicaFacts DEF ServerTypeOK
  <2>2. QED
    BY <1>1, <1>2, <2>1 DEF Set
<1>4. Moves(p)
  BY <1>1, <1>3, StartMoves DEF Leave, Labels, Running
<1>5. \/ writer' = writer /\ draft' = draft /\ writer # p
      \/ writer' = None /\ draft' = db
  BY DEF Rollback
<1>6. \A q \in Procs : pc'[q] \in UpgradeStages <=> writer' = q
  BY <1>1, <1>2, <1>5 DEF Rollback, UpgradeStages
<1>7. MigrationTypeOK'
  <2>1. mode' \in [Procs -> Modes \cup {"none"}] /\ saw' \in [Procs -> BOOLEAN]
    BY <1>1 DEF Leave
  <2>2. QED
    BY <1>1, <1>5, <1>6, <2>1 DEF MigrationTypeOK
<1>8. MembersOK'
  BY <1>5 DEF Inv, MembersOK, historyVars
<1>9. DatabaseOK'
  <2>1. CASE db.ready
    BY <1>5, <2>1 DEF Inv, DatabaseOK, SongsComplete, AccountsComplete
  <2>2. CASE ~db.ready
    <3>1. OldDatabase(db, legacy) /\ gone = {} /\ (writer = None \/ DraftOK)
      BY <2>2 DEF Inv, DatabaseOK
    <3>2. writer' = None \/ DraftOK'
      <4>1. CASE writer' = writer /\ draft' = draft /\ writer # None
        BY <1>2, <3>1, <4>1 DEF DraftOK, Upgrading, SongsComplete, AccountsComplete
      <4>2. QED
        BY <1>5, <4>1
    <3>3. QED
      BY <2>2, <3>1, <3>2 DEF DatabaseOK, OldDatabase, historyVars
  <2>3. QED
    BY <2>1, <2>2
<1>10. QED
  BY <1>4, <1>7, <1>8, <1>9, StartingKeepsInv

LEMMA StartingStepKeepsInv ==
    ASSUME Inv, NEW p \in Procs, Starting(p)
    PROVE  Inv'
<1>1. /\ StartStep(p)
      /\ pool' = Set(pool, p, pc'[p] = "serving")
      /\ UNCHANGED <<listener, errCh, handlers, signalled, shutdownErr, result,
                     cut, historyVars>>
  BY DEF Starting
<1>2. CASE Validate(p)
  BY <1>1, <1>2, ValidateKeepsInv
<1>3. CASE LookForTables(p)
  BY <1>1, <1>3, LookForTablesKeepsInv
<1>4. CASE GetLocks(p)
  BY <1>1, <1>4, GetLocksKeepsInv
<1>5. CASE Collide(p)
  BY <1>1, <1>5, CollideKeepsInv
<1>6. CASE InsertArtists(p)
  BY <1>1, <1>6, InsertArtistsKeepsInv
<1>7. CASE FillSongs(p)
  BY <1>1, <1>7, FillSongsKeepsInv
<1>8. CASE FillMembers(p)
  BY <1>1, <1>8, FillMembersKeepsInv
<1>9. CASE CheckInvitations(p)
  BY <1>1, <1>9, CheckInvitationsKeepsInv
<1>10. CASE CommitUpgrade(p)
  BY <1>1, <1>10, CommitUpgradeKeepsInv
<1>11. CASE UpgradeRefused(p)
  BY <1>1, <1>11, RollbackKeepsInv DEF UpgradeRefused
<1>12. QED
  BY <1>1, <1>2, <1>3, <1>4, <1>5, <1>6, <1>7, <1>8, <1>9, <1>10, <1>11
     DEF StartStep

LEMMA FailsToStartKeepsInv ==
    ASSUME Inv, NEW p \in Procs, FailsToStart(p)
    PROVE  Inv'
  BY RollbackKeepsInv DEF FailsToStart, StartFails, serverVars

-----------------------------------------------------------------------------
(* Requests. *)

\* A request makes d of an upgraded database.
LEMMA RequestKeepsInv ==
    ASSUME Inv, db.ready, NEW d \in Database, d.ready, db' = d, draft' = d,
           UNCHANGED <<legacy, writer, pc, mode, saw, serverVars, starts>>,
           SongsComplete(d), AccountsComplete(d),
           \A m \in d.members : m[1] \in d.users,
           d.users \subseteq usedUsers', gone' \subseteq Users \X Artists,
           \A m \in gone' : m[1] \in usedUsers' \ d.users
    PROVE  Inv'
<1>1. DeploymentTypeOK'
  BY DEF Inv, DeploymentTypeOK, MigrationTypeOK, serverVars
<1>2. DatabaseOK'
  BY DEF DatabaseOK, SongsComplete, AccountsComplete
<1>3. MembersOK'
  BY DEF Inv, MembersOK
<1>4. ASSUME NEW q \in Procs PROVE ReplicaOK(q)'
  <2>1. ReplicaOK(q)
    BY DEF Inv
  <2>2. QED
    BY <2>1 DEF ReplicaOK, serverVars
<1>5. QED
  BY <1>1, <1>2, <1>3, <1>4 DEF Inv

\* What a request finds.
LEMMA RequestFacts ==
    ASSUME Inv, NEW p \in Procs, CanQuery(p)
    PROVE  /\ db.ready /\ draft = db /\ db \in Database /\ legacy \in Legacy
           /\ SongsComplete(db) /\ AccountsComplete(db)
           /\ \A m \in db.members : m[1] \in db.users
           /\ db.users \subseteq usedUsers
           /\ gone \subseteq Users \X Artists
           /\ \A m \in gone : m[1] \in usedUsers \ db.users
<1>1. db.ready
  BY ReplicaFacts DEF CanQuery, ReplicaOK
<1>2. QED
  BY <1>1, TypeParts DEF Inv, DatabaseOK, MembersOK, MigrationTypeOK

LEMMA RegisterKeepsInv ==
    ASSUME Inv, NEW p \in Procs, NEW u \in Users, NEW a \in Artists, Register(p, u, a)
    PROVE  Inv'
<1>1. /\ db.ready /\ db \in Database /\ legacy \in Legacy
      /\ SongsComplete(db) /\ AccountsComplete(db)
      /\ \A m \in db.members : m[1] \in db.users
      /\ db.users \subseteq usedUsers
      /\ gone \subseteq Users \X Artists
      /\ \A m \in gone : m[1] \in usedUsers \ db.users
      /\ u \notin usedUsers /\ legacy.artist[u] = NoArtist
  BY RequestFacts DEF Register
<1>2. PICK d \in Database :
         d = [db EXCEPT !.users = @ \cup {u}, !.members = @ \cup {<<u, a>>}]
  <2>1. /\ db.users \cup {u} \in SUBSET Users
        /\ db.members \cup {<<u, a>>} \in SUBSET (Users \X Artists)
    BY <1>1 DEF Database
  <2>2. QED
    BY <1>1, <2>1 DEF Database
<1>3. /\ d.ready /\ d.songs = db.songs /\ d.artists = db.artists
      /\ d.users = db.users \cup {u} /\ d.members = db.members \cup {<<u, a>>}
  BY <1>1, <1>2 DEF Database
<1>4. SongsComplete(d) /\ AccountsComplete(d)
  BY <1>1, <1>3 DEF SongsComplete, AccountsComplete
<1>5. \A m \in d.members : m[1] \in d.users
  BY <1>1, <1>3
<1>6. /\ db' = d /\ draft' = d /\ usedUsers' = usedUsers \cup {u}
      /\ UNCHANGED <<legacy, writer, pc, mode, saw, serverVars, starts, gone>>
  BY <1>2 DEF Register
<1>7. /\ d.users \subseteq usedUsers' /\ gone' \subseteq Users \X Artists
      /\ \A m \in gone' : m[1] \in usedUsers' \ d.users
  BY <1>1, <1>3, <1>6
<1>8. QED
  BY <1>1, <1>3, <1>4, <1>5, <1>6, <1>7, RequestKeepsInv

LEMMA DeleteUserKeepsInv ==
    ASSUME Inv, NEW p \in Procs, NEW u \in Users, DeleteUser(p, u)
    PROVE  Inv'
<1>1. /\ db.ready /\ draft = db /\ db \in Database /\ legacy \in Legacy
      /\ SongsComplete(db) /\ AccountsComplete(db)
      /\ \A m \in db.members : m[1] \in db.users
      /\ db.users \subseteq usedUsers /\ u \in db.users
      /\ gone \subseteq Users \X Artists
      /\ \A m \in gone : m[1] \in usedUsers \ db.users
  BY RequestFacts DEF DeleteUser
<1>2. PICK d \in Database : d = Without(db, u)
  BY <1>1 DEF Database, Without
<1>3. /\ d.ready /\ d.songs = db.songs /\ d.artists = db.artists
      /\ d.users = db.users \ {u}
      /\ d.members = {m \in db.members : m[1] # u}
  BY <1>1, <1>2 DEF Database, Without, MembershipsOf
<1>4. SongsComplete(d) /\ AccountsComplete(d)
  BY <1>1, <1>3 DEF SongsComplete, AccountsComplete
<1>5. \A m \in d.members : m[1] \in d.users
  BY <1>1, <1>3
<1>6. /\ db' = d /\ draft' = d /\ gone' = gone \cup MembershipsOf(db, u)
      /\ UNCHANGED <<legacy, writer, pc, mode, saw, serverVars, starts, usedUsers>>
  BY <1>1, <1>2 DEF DeleteUser
<1>7. /\ d.users \subseteq usedUsers' /\ gone' \subseteq Users \X Artists
      /\ \A m \in gone' : m[1] \in usedUsers' \ d.users
  BY <1>1, <1>3, <1>6 DEF MembershipsOf, Database
<1>8. QED
  BY <1>1, <1>3, <1>4, <1>5, <1>6, <1>7, RequestKeepsInv

LEMMA DeleteArtistKeepsInv ==
    ASSUME Inv, NEW p \in Procs, NEW a \in Artists, DeleteArtist(p, a)
    PROVE  Inv'
<1>1. /\ db.ready /\ db \in Database /\ legacy \in Legacy
      /\ SongsComplete(db) /\ AccountsComplete(db)
      /\ \A m \in db.members : m[1] \in db.users
      /\ db.users \subseteq usedUsers
      /\ gone \subseteq Users \X Artists
      /\ \A m \in gone : m[1] \in usedUsers \ db.users
      /\ \A u \in Users : <<u, a>> \notin db.members
  BY RequestFacts DEF DeleteArtist
<1>2. PICK d \in Database :
         d = [db EXCEPT
                 !.artists = @ \ {a},
                 !.songs = [s \in Songs |-> IF @[s] = a THEN NoRow ELSE @[s]]]
  BY <1>1 DEF Database
<1>3. /\ d.ready /\ d.artists = db.artists \ {a}
      /\ d.users = db.users /\ d.members = db.members
      /\ \A s \in Songs : d.songs[s] = IF db.songs[s] = a THEN NoRow ELSE db.songs[s]
  BY <1>1, <1>2 DEF Database
<1>4. SongsComplete(d)
  BY <1>1, <1>3 DEF SongsComplete
<1>5. AccountsComplete(d)
  BY <1>1, <1>3 DEF AccountsComplete, Database
<1>6. /\ db' = d /\ draft' = d
      /\ UNCHANGED <<legacy, writer, pc, mode, saw, serverVars, historyVars>>
  BY <1>2 DEF DeleteArtist
<1>7. QED
  BY <1>1, <1>3, <1>4, <1>5, <1>6, RequestKeepsInv DEF historyVars

-----------------------------------------------------------------------------
(* The theorems. *)

LEMMA InitInv ==
    ASSUME DeploymentInit
    PROVE  Inv
<1> USE DEF DeploymentInit, MigrationInit
<1>1. DeploymentTypeOK
  BY DEF DeploymentTypeOK, MigrationTypeOK, Modes, UpgradeStages
<1>2. DatabaseOK
  BY DEF DatabaseOK, OldDatabase
<1>3. MembersOK
  BY DEF MembersOK, OldDatabase
<1>4. \A p \in Procs : ReplicaOK(p)
  BY DEF ReplicaOK, Running
<1>5. QED
  BY <1>1, <1>2, <1>3, <1>4 DEF Inv

LEMMA NextKeepsInv ==
    ASSUME Inv, [DeploymentNext]_allVars
    PROVE  Inv'
<1>1. ASSUME NEW p \in Procs, \E m \in Modes : Launch(p, m) PROVE Inv'
  BY <1>1, LaunchKeepsInv
<1>2. ASSUME NEW p \in Procs, Starting(p) \/ FailsToStart(p) PROVE Inv'
  BY <1>2, StartingStepKeepsInv, FailsToStartKeepsInv
<1>3. ASSUME NEW p \in Procs, ServerStep(p) PROVE Inv'
  BY <1>3, ListenKeepsInv, ListenReturnsKeepsInv, SelectErrorKeepsInv,
     SelectSignalKeepsInv, ShutdownReturnsKeepsInv, ReceiveErrorKeepsInv,
     CloseRepositoryKeepsInv, ExitKeepsInv DEF ServerStep
<1>4. ASSUME NEW p \in Procs, \/ ListenFails(p) \/ Signal(p) \/ Killed(p)
                              \/ Accept(p) \/ HandlerEnds(p)
      PROVE  Inv'
  BY <1>4, ListenFailsKeepsInv, SignalKeepsInv, KilledKeepsInv, AcceptKeepsInv,
     HandlerEndsKeepsInv
<1>5. ASSUME NEW p \in Procs, Query(p) PROVE Inv'
  BY <1>5, DeleteUserKeepsInv, RegisterKeepsInv, DeleteArtistKeepsInv DEF Query
<1>6. CASE UNCHANGED allVars
  BY <1>6 DEF allVars, migrationVars, serverVars, historyVars, Inv,
              DeploymentTypeOK, MigrationTypeOK, MembersOK, DatabaseOK,
              OldDatabase, DraftOK, Upgrading, SongsComplete, AccountsComplete,
              ReplicaOK
<1>7. QED
  BY <1>1, <1>2, <1>3, <1>4, <1>5, <1>6 DEF DeploymentNext

\* Everything below in one inductive invariant.
THEOREM DeploymentInvariant == DeploymentSpec => []Inv
<1>1. DeploymentInit => Inv
  BY InitInv
<1>2. Inv /\ [DeploymentNext]_allVars => Inv'
  BY NextKeepsInv
<1>3. QED
  BY <1>1, <1>2, PTL DEF DeploymentSpec

\* Goroutines, channels, tables and the upgrade's draft are well formed, and a
\* process holds the locks exactly while it upgrades.
THEOREM DeploymentTypeCorrect == DeploymentSpec => []DeploymentTypeOK
<1>1. Inv => DeploymentTypeOK
  BY DEF Inv
<1>2. QED
  BY <1>1, DeploymentInvariant, PTL

\* MigratePostgresRepository commits all of its statements or none, whichever
\* process fails or dies at whichever statement.
THEOREM UpgradeIsAlwaysAllOrNothing == DeploymentSpec => []UpgradeIsAllOrNothing
<1>1. Inv => UpgradeIsAllOrNothing
  BY DEF Inv, DatabaseOK, UpgradeIsAllOrNothing
<1>2. QED
  BY <1>1, DeploymentInvariant, PTL

\* After an upgrade every song and account has the artist it had before, and it
\* keeps it through every later upgrade and request.
THEOREM UpgradeAlwaysKeepsArtists == DeploymentSpec => []UpgradeKeepsArtists
<1>1. Inv => UpgradeKeepsArtists
  BY DEF Inv, DatabaseOK, SongsComplete, AccountsComplete, UpgradeKeepsArtists,
         SongsKeepTheirArtist, AccountsKeepTheirArtist
<1>2. QED
  BY <1>1, DeploymentInvariant, PTL

\* A replica only serves an upgraded database: no request ever meets another.
THEOREM RequestsAlwaysSeeCurrentSchema == DeploymentSpec => []RequestsSeeCurrentSchema
<1>1. ASSUME Inv, NEW p \in Procs, handlers[p] > 0 PROVE db.ready
  BY <1>1, ReplicaFacts DEF ReplicaOK
<1>2. Inv => RequestsSeeCurrentSchema
  BY <1>1 DEF RequestsSeeCurrentSchema
<1>3. QED
  BY <1>2, DeploymentInvariant, PTL

\* serveHTTPServer returns nil only when no request was cut short, and the pool
\* closes under a request only with an error to report.
THEOREM CutsAreAlwaysReported == DeploymentSpec => []CutsAreReported
<1>1. ASSUME Inv, NEW p \in Procs
      PROVE  /\ pc[p] = "exited" /\ result[p] = "nil" => ~cut[p]
             /\ handlers[p] > 0 /\ ~pool[p] =>
                   /\ result[p] = "error"
                   /\ shutdownErr[p] \/ errCh[p] = "failed"
  BY <1>1, ReplicaFacts DEF ReplicaOK, Running
<1>2. Inv => CutsAreReported
  BY <1>1 DEF CutsAreReported
<1>3. QED
  BY <1>2, DeploymentInvariant, PTL

\* The upgrade of a restarting replica gives no account back a membership that
\* a request has taken away, although it copies users.artist_id every time.
THEOREM MembershipsAlwaysStayGone == DeploymentSpec => []MembershipsStayGone
<1>1. Inv => MembershipsStayGone
  BY DEF Inv, MembersOK, MembershipsStayGone
<1>2. QED
  BY <1>1, DeploymentInvariant, PTL

-----------------------------------------------------------------------------
(* What can be proved of StartsEnd and SignalsStop: nobody waits for what will *)
(* not come, and every step of a process brings it nearer to its end.          *)

\* The report of the listening goroutine is made once, and is received by the
\* main goroutine only when that is about to leave.
ReportOK(p) ==
    /\ pc[p] \in Running /\ errCh[p] # "empty" => listener[p] = "returned"
    /\ pc[p] \in {"serving", "shutdown", "draining"} /\ listener[p] = "returned" =>
          errCh[p] # "empty"
    /\ ShuttingDown(p) => listener[p] # "open"

ReportsOK == \A p \in Procs : ReportOK(p)

\* A step of p has what it waits for: TLC finds Starting(p) \/ ServerStep(p)
\* enabled exactly then.
CanGoOn(p) ==
    \/ pc[p] \in {"validating", "opened", "shutdown", "closing", "returning"}
                \cup UpgradeStages
    \/ pc[p] = "waiting" /\ writer = None
    \/ pc[p] = "serving" /\ (signalled[p] \/ errCh[p] # "empty" \/ listener[p] = "none")
    \/ pc[p] \in Running /\ listener[p] \in {"closed", "failed"} /\ errCh[p] = "empty"
    \/ pc[p] = "draining" /\ (errCh[p] # "empty" \/ listener[p] = "none")

\* A process that waits for the locks of an upgrade waits for another that can
\* go on; only a replica that listens, and was told nothing, waits for the world.
NobodyHangs ==
    \A p \in Procs :
        /\ pc[p] \notin {"down", "waiting", "exited"} =>
              \/ CanGoOn(p)
              \/ pc[p] = "serving" /\ ~signalled[p] /\ listener[p] = "open"
        /\ pc[p] = "waiting" =>
              \/ CanGoOn(p)
              \/ writer \in Procs \ {p} /\ CanGoOn(writer)

MainLeft ==
    [opened |-> 15, waiting |-> 14, artists |-> 13, songs |-> 12, members |-> 11,
     invitations |-> 10, commit |-> 9, validating |-> 9, serving |-> 5,
     shutdown |-> 4, draining |-> 3, closing |-> 2, returning |-> 1,
     down |-> 0, exited |-> 0]

ListenerLeft == [none |-> 3, open |-> 2, closed |-> 1, failed |-> 1, returned |-> 0]

\* A bound on the steps that both goroutines of p still have.
StepsLeft(p) ==
    MainLeft[pc[p]] + (IF pc[p] \in {"down", "exited"} THEN 0 ELSE ListenerLeft[listener[p]])

\* A start or a stop never turns back: no step of p goes round a loop, and no
\* failure, request, signal, or step of another process gives it more to do.
StepsRunOut ==
    [][\A p \in Procs :
          /\ Starting(p) \/ ServerStep(p) => StepsLeft(p)' < StepsLeft(p)
          /\ pc[p] \notin {"down", "exited"} => StepsLeft(p)' <= StepsLeft(p)]_allVars

LEMMA StartingBringsNearer ==
    ASSUME Inv, NEW p \in Procs, Starting(p)
    PROVE  StepsLeft(p)' < StepsLeft(p)
<1>1. /\ listener' = listener /\ pc \in [Procs -> Labels]
      /\ listener[p] \in {"none", "open", "closed", "failed", "returned"}
  BY ReplicaFacts DEF Starting, ServerTypeOK
<1>2. \/ pc[p] = "validating" /\ pc'[p] \in {"serving", "exited"}
      \/ pc[p] = "opened" /\ pc'[p] = "waiting"
      \/ pc[p] = "waiting" /\ pc'[p] \in {"artists", "exited"}
      \/ pc[p] = "artists" /\ pc'[p] = "songs"
      \/ pc[p] = "songs" /\ pc'[p] = "members"
      \/ pc[p] = "members" /\ pc'[p] = "invitations"
      \/ pc[p] = "invitations" /\ pc'[p] = "commit"
      \/ pc[p] = "commit" /\ pc'[p] \in {"serving", "exited"}
      \/ pc[p] \in UpgradeStages /\ pc'[p] = "exited"
  BY <1>1 DEF Starting, StartStep, Validate, LookForTables, GetLocks, Collide,
              InsertArtists, FillSongs, FillMembers, CheckInvitations, RunStatement,
              CommitUpgrade, UpgradeRefused, Leave, Enter
<1>3. QED
  BY <1>1, <1>2 DEF StepsLeft, MainLeft, ListenerLeft, UpgradeStages

\* Steps of a replica that runs.
LEMMA RunningBringsNearer ==
    ASSUME Inv, NEW p \in Procs,
           ServerStep(p) \/ ListenFails(p) \/ Killed(p)
    PROVE  StepsLeft(p)' < StepsLeft(p)
<1>1. /\ pc \in [Procs -> Labels]
      /\ listener \in [Procs -> {"none", "open", "closed", "failed", "returned"}]
  BY ReplicaFacts DEF ServerTypeOK
<1>2. CASE Listen(p) \/ ListenReturns(p) \/ ListenFails(p)
  <2>1. /\ pc' = pc /\ pc[p] \in Running
        /\ \/ listener[p] = "none" /\ listener'[p] \in {"open", "closed", "failed"}
           \/ listener[p] = "open" /\ listener'[p] = "failed"
           \/ listener[p] \in {"closed", "failed"} /\ listener'[p] = "returned"
    BY <1>1, <1>2 DEF Listen, ListenReturns, ListenFails, Set, Running, migrationVars
  <2>2. QED
    BY <1>1, <2>1 DEF StepsLeft, MainLeft, ListenerLeft, Running
<1>3. CASE \/ SelectError(p) \/ SelectSignal(p) \/ ShutdownReturns(p)
           \/ ReceiveError(p) \/ CloseRepository(p)
  <2>1. /\ \/ pc[p] = "serving" /\ pc'[p] \in {"closing", "shutdown"}
           \/ pc[p] = "shutdown" /\ pc'[p] = "draining"
           \/ pc[p] = "draining" /\ pc'[p] = "closing"
           \/ pc[p] = "closing" /\ pc'[p] = "returning"
        /\ \/ listener'[p] = listener[p]
           \/ listener[p] = "open" /\ listener'[p] = "closed"
    BY <1>1, <1>3 DEF SelectError, SelectSignal, ShutdownReturns, ReceiveError,
                      CloseRepository, Enter, Set
  <2>2. QED
    BY <1>1, <2>1 DEF StepsLeft, MainLeft, ListenerLeft
<1>4. CASE Exit(p) \/ Killed(p)
  <2>1. pc[p] \in Running /\ pc'[p] = "exited"
    BY <1>1, <1>4 DEF Exit, Killed, Vanish, Enter, Running
  <2>2. QED
    BY <1>1, <2>1 DEF StepsLeft, MainLeft, ListenerLeft, Running
<1>5. QED
  BY <1>2, <1>3, <1>4 DEF ServerStep

\* A step of q leaves another process where it is.
LEMMA OthersStay ==
    ASSUME Inv, NEW p \in Procs, NEW q \in Procs \ {p},
           \/ \E m \in Modes : Launch(q, m)
           \/ Starting(q) \/ FailsToStart(q) \/ ServerStep(q)
           \/ ListenFails(q) \/ Signal(q) \/ Killed(q)
           \/ Accept(q) \/ HandlerEnds(q) \/ Query(q)
    PROVE  pc'[p] = pc[p] /\ listener'[p] = listener[p]
<1>1. /\ pc \in [Procs -> Labels]
      /\ listener \in [Procs -> {"none", "open", "closed", "failed", "returned"}]
  BY ReplicaFacts DEF ServerTypeOK
<1>2. CASE \/ \E m \in Modes : Launch(q, m)
           \/ Starting(q) \/ FailsToStart(q)
  BY <1>1, <1>2
     DEF Launch, StartProcess, Starting, StartStep, Validate, LookForTables,
         GetLocks, Collide, InsertArtists, FillSongs, FillMembers,
         CheckInvitations, RunStatement, CommitUpgrade, UpgradeRefused,
         FailsToStart, StartFails, Leave, Enter, serverVars
<1>3. CASE ServerStep(q) \/ Killed(q)
  BY <1>1, <1>3
     DEF ServerStep, Listen, ListenReturns, SelectError, SelectSignal,
         ShutdownReturns, ReceiveError, CloseRepository, Exit, Killed, Vanish,
         Enter, Set, migrationVars
<1>4. CASE ListenFails(q) \/ Signal(q) \/ Accept(q) \/ HandlerEnds(q) \/ Query(q)
  BY <1>1, <1>4
     DEF ListenFails, Signal, Accept, HandlerEnds, Query, DeleteUser, Register,
         DeleteArtist, Set, migrationVars, serverVars
<1>5. QED
  BY <1>2, <1>3, <1>4

LEMMA NothingTurnsBack ==
    ASSUME Inv, [DeploymentNext]_allVars, NEW p \in Procs, pc[p] \notin {"down", "exited"}
    PROVE  StepsLeft(p)' <= StepsLeft(p)
<1>1. StepsLeft(p) \in Nat
  <2>1. pc[p] \in Labels /\ listener[p] \in {"none", "open", "closed", "failed", "returned"}
    BY ReplicaFacts DEF ServerTypeOK
  <2>2. QED
    BY <2>1 DEF StepsLeft, MainLeft, ListenerLeft, Labels, UpgradeStages, Running
<1>2. CASE pc'[p] = pc[p] /\ listener'[p] = listener[p]
  BY <1>1, <1>2 DEF StepsLeft
<1>3. CASE StepsLeft(p)' < StepsLeft(p)
  <2>1. /\ pc'[p] \in Labels
        /\ listener'[p] \in {"none", "open", "closed", "failed", "returned"}
    BY NextKeepsInv, TypeParts DEF Inv, DeploymentTypeOK, Labels
  <2>2. StepsLeft(p)' \in Nat
    BY <2>1 DEF StepsLeft, MainLeft, ListenerLeft, Labels, UpgradeStages, Running
  <2>3. QED
    BY <1>1, <1>3, <2>2
<1>4. CASE UNCHANGED allVars
  BY <1>2, <1>4 DEF allVars, migrationVars, serverVars
<1>5. ASSUME NEW m \in Modes, Launch(p, m) PROVE FALSE
  BY <1>5 DEF Launch, StartProcess
<1>6. CASE Starting(p) \/ ServerStep(p) \/ ListenFails(p) \/ Killed(p)
  BY <1>3, <1>6, StartingBringsNearer, RunningBringsNearer
<1>7. CASE FailsToStart(p)
  <2>1. /\ pc[p] \in {"validating", "opened", "waiting"} \cup UpgradeStages
        /\ pc'[p] = "exited"
    BY <1>7, ReplicaFacts DEF ServerTypeOK, FailsToStart, StartFails, Leave, Enter
  <2>2. listener[p] \in {"none", "open", "closed", "failed", "returned"}
    BY ReplicaFacts DEF ServerTypeOK
  <2>3. StepsLeft(p)' = 0
    BY <2>1 DEF StepsLeft, MainLeft
  <2>4. QED
    BY <1>1, <2>3
<1>8. CASE Signal(p) \/ Accept(p) \/ HandlerEnds(p) \/ Query(p)
  BY <1>2, <1>8 DEF Signal, Accept, HandlerEnds, Query, DeleteUser, Register,
                    DeleteArtist, migrationVars, serverVars
<1>9. QED
  BY <1>2, <1>4, <1>5, <1>6, <1>7, <1>8, OthersStay DEF DeploymentNext

\* A process has at most eighteen steps between its start and its exit, and
\* every step that it takes is one of them.
THEOREM StepsAlwaysRunOut == DeploymentSpec => StepsRunOut
<1>1. ASSUME Inv, [DeploymentNext]_allVars
      PROVE  \A p \in Procs :
                /\ Starting(p) \/ ServerStep(p) => StepsLeft(p)' < StepsLeft(p)
                /\ pc[p] \notin {"down", "exited"} => StepsLeft(p)' <= StepsLeft(p)
  BY <1>1, StartingBringsNearer, RunningBringsNearer, NothingTurnsBack
<1>2. QED
  BY <1>1, DeploymentInvariant, PTL DEF DeploymentSpec, StepsRunOut

LEMMA StartingKeepsReports ==
    ASSUME Inv, ReportsOK, NEW p \in Procs,
           \/ \E m \in Modes : Launch(p, m)
           \/ Starting(p) \/ FailsToStart(p)
    PROVE  ReportsOK'
<1>1. /\ pc \in [Procs -> Labels] /\ pc[p] \notin Running
      /\ listener[p] = "none" /\ errCh[p] = "empty"
      /\ listener' = listener /\ errCh' = errCh
  BY ReplicaFacts
     DEF ServerTypeOK, ReplicaOK, Launch, StartProcess, Starting, StartStep,
         Validate, LookForTables, GetLocks, Collide, InsertArtists, FillSongs,
         FillMembers, CheckInvitations, RunStatement, CommitUpgrade,
         UpgradeRefused, FailsToStart, StartFails, serverVars, Running,
         UpgradeStages
<1>2. \A q \in Procs \ {p} : pc'[q] = pc[q]
  <2>1. PICK label : Enter(p, label)
    BY DEF Launch, StartProcess, Starting, StartStep, Validate, LookForTables,
           GetLocks, Collide, InsertArtists, FillSongs, FillMembers,
           CheckInvitations, RunStatement, CommitUpgrade, UpgradeRefused,
           FailsToStart, StartFails, Leave
  <2>2. QED
    BY <1>1, <2>1 DEF Enter
<1>3. ASSUME NEW q \in Procs PROVE ReportOK(q)'
  <2>1. ReportOK(q)
    BY DEF ReportsOK
  <2>2. QED
    BY <1>1, <1>2, <2>1 DEF ReportOK, ShuttingDown
<1>4. QED
  BY <1>3 DEF ReportsOK

LEMMA RunningKeepsReports ==
    ASSUME Inv, ReportsOK, NEW p \in Procs,
           \/ ServerStep(p) \/ ListenFails(p) \/ Signal(p) \/ Killed(p)
           \/ Accept(p) \/ HandlerEnds(p) \/ Query(p)
    PROVE  ReportsOK'
<1>1. /\ pc \in [Procs -> Labels]
      /\ listener \in [Procs -> {"none", "open", "closed", "failed", "returned"}]
      /\ errCh \in [Procs -> {"empty", "closed", "failed"}]
  BY ReplicaFacts DEF ServerTypeOK
<1> DEFINE Same(q) == pc'[q] = pc[q] /\ listener'[q] = listener[q] /\ errCh'[q] = errCh[q]
<1>2. \A q \in Procs : ReportOK(q)
  BY DEF ReportsOK
<1>3. \A q \in Procs : Same(q) => ReportOK(q)'
  BY <1>2 DEF ReportOK, ShuttingDown
<1>4. CASE Listen(p) \/ ListenReturns(p) \/ ListenFails(p)
  <2>1. \A q \in Procs \ {p} : Same(q)
    BY <1>1, <1>4 DEF Listen, ListenReturns, ListenFails, Set, migrationVars
  <2>2. ReportOK(p)'
    BY <1>1, <1>2, <1>4
       DEF Listen, ListenReturns, ListenFails, Set, migrationVars, ReportOK,
           ShuttingDown, Running
  <2>3. QED
    BY <1>3, <2>1, <2>2 DEF ReportsOK
<1>5. CASE \/ SelectError(p) \/ SelectSignal(p) \/ ShutdownReturns(p)
           \/ ReceiveError(p) \/ CloseRepository(p)
  <2>1. \A q \in Procs \ {p} : Same(q)
    BY <1>1, <1>5 DEF SelectError, SelectSignal, ShutdownReturns, ReceiveError,
                      CloseRepository, Enter, Set
  <2>2. ReportOK(p)'
    BY <1>1, <1>2, <1>5
       DEF SelectError, SelectSignal, ShutdownReturns, ReceiveError,
           CloseRepository, Enter, Set, ReportOK, ShuttingDown, Running
  <2>3. QED
    BY <1>3, <2>1, <2>2 DEF ReportsOK
<1>6. CASE Exit(p) \/ Killed(p)
  <2>1. \A q \in Procs \ {p} : Same(q)
    BY <1>1, <1>6 DEF Exit, Killed, Vanish, Enter, Set
  <2>2. ReportOK(p)'
    BY <1>1, <1>6 DEF Exit, Killed, Vanish, Enter, Set, ReportOK, ShuttingDown, Running
  <2>3. QED
    BY <1>3, <2>1, <2>2 DEF ReportsOK
<1>7. CASE Signal(p) \/ Accept(p) \/ HandlerEnds(p) \/ Query(p)
  <2>1. \A q \in Procs : Same(q)
    BY <1>7 DEF Signal, Accept, HandlerEnds, Query, DeleteUser, Register,
                DeleteArtist, migrationVars, serverVars
  <2>2. QED
    BY <1>3, <2>1 DEF ReportsOK
<1>8. QED
  BY <1>4, <1>5, <1>6, <1>7 DEF ServerStep

LEMMA NobodyHangsAnywhere ==
    ASSUME Inv, ReportsOK
    PROVE  NobodyHangs
<1>1. ASSUME NEW p \in Procs, pc[p] \in UpgradeStages \cup {"validating", "opened"}
      PROVE  CanGoOn(p)
  BY <1>1 DEF CanGoOn
<1>2. ASSUME NEW p \in Procs, pc[p] \in Running
      PROVE  CanGoOn(p) \/ (pc[p] = "serving" /\ ~signalled[p] /\ listener[p] = "open")
  <2>1. /\ ReplicaOK(p) /\ ReportOK(p)
        /\ listener[p] \in {"none", "open", "closed", "failed", "returned"}
    BY ReplicaFacts DEF ReportsOK, ServerTypeOK
  <2>2. CASE pc[p] = "serving"
    BY <2>1, <2>2 DEF CanGoOn, ReportOK, Running
  <2>3. CASE pc[p] = "draining"
    BY <2>1, <2>3 DEF CanGoOn, ReportOK, ShuttingDown, Running
  <2>4. CASE pc[p] \in {"shutdown", "closing", "returning"}
    BY <2>4 DEF CanGoOn
  <2>5. QED
    BY <1>2, <2>2, <2>3, <2>4 DEF Running
<1>3. ASSUME NEW p \in Procs, pc[p] = "waiting"
      PROVE  CanGoOn(p) \/ (writer \in Procs \ {p} /\ CanGoOn(writer))
  <2>1. /\ writer \in Procs \cup {None}
        /\ \A q \in Procs : pc[q] \in UpgradeStages <=> writer = q
    BY DEF Inv, MembersOK, DeploymentTypeOK, MigrationTypeOK
  <2>2. QED
    BY <1>1, <1>3, <2>1 DEF CanGoOn, UpgradeStages
<1>4. \A p \in Procs : pc[p] \in Labels
  BY ReplicaFacts
<1>5. QED
  BY <1>1, <1>2, <1>3, <1>4 DEF NobodyHangs, Labels

\* No goroutine waits for a report that was received already or that nobody is
\* going to make, and no start for locks that nobody is going to give back.
THEOREM NobodyEverHangs == DeploymentSpec => []NobodyHangs
<1>1. DeploymentInit => ReportsOK
  BY DEF DeploymentInit, MigrationInit, ReportsOK, ReportOK, ShuttingDown, Running
<1>2. ASSUME Inv, ReportsOK, [DeploymentNext]_allVars PROVE ReportsOK'
  <2>1. CASE UNCHANGED allVars
    BY <1>2, <2>1 DEF allVars, migrationVars, serverVars, ReportsOK, ReportOK,
                      ShuttingDown
  <2>2. QED
    BY <1>2, <2>1, StartingKeepsReports, RunningKeepsReports DEF DeploymentNext
<1>3. Inv /\ ReportsOK => NobodyHangs
  BY NobodyHangsAnywhere
<1>4. QED
  BY <1>1, <1>2, <1>3, DeploymentInvariant, PTL DEF DeploymentSpec

=============================================================================
