------------------------------ MODULE Deployment ------------------------------
(***************************************************************************)
(* Replicas of the SongDock server from start to exit.  Module PgMigration *)
(* has their starts; here they listen, run requests that change the        *)
(* database, are told to stop, drain their requests, close the pool of     *)
(* connections and exit, or are killed on the way, and start again.        *)
(*                                                                         *)
(* serveHTTPServer runs in the main goroutine and ListenAndServe in one of *)
(* its own, which reports through a channel of capacity one; net/http and  *)
(* the ten seconds of Shutdown are modelled by what they promise.          *)
(***************************************************************************)
EXTENDS PgMigration

CONSTANTS
    MaxHandlers,    \* bound on the requests a replica runs at once
    MaxStarts       \* bound on the starts of processes

ASSUME BoundsAssumption == MaxHandlers \in Nat /\ MaxStarts \in Nat

VARIABLES
    listener,       \* process -> the state of its listening goroutine
    errCh,          \* process -> the channel of that goroutine
    handlers,       \* process -> its running requests
    signalled,      \* process -> ctx is done
    shutdownErr,    \* process -> Shutdown ran into its timeout
    pool,           \* process -> the repository is open
    result,         \* process -> what serveHTTPServer returned
    cut,            \* process -> it exited under a running request (history)
    starts,         \* starts so far
    usedUsers,      \* account ids given so far
    gone            \* memberships taken away so far (history)

serverVars ==
    <<listener, errCh, handlers, signalled, shutdownErr, pool, result, cut>>
historyVars == <<starts, usedUsers, gone>>
allVars == <<migrationVars, serverVars, historyVars>>

Running == {"serving", "shutdown", "draining", "closing", "returning"}

DeploymentInit ==
    /\ MigrationInit
    /\ listener = [p \in Procs |-> "none"]
    /\ errCh = [p \in Procs |-> "empty"]
    /\ handlers = [p \in Procs |-> 0]
    /\ signalled = [p \in Procs |-> FALSE]
    /\ shutdownErr = [p \in Procs |-> FALSE]
    /\ pool = [p \in Procs |-> FALSE]
    /\ result = [p \in Procs |-> "none"]
    /\ cut = [p \in Procs |-> FALSE]
    /\ starts = 0
    /\ usedUsers = db.users
    /\ gone = {}

Set(f, p, value) == [f EXCEPT ![p] = value]

-----------------------------------------------------------------------------
(* Starting *)

\* A process is started, possibly where an earlier one has exited.
Launch(p, m) ==
    /\ starts < MaxStarts
    /\ StartProcess(p, m)
    /\ starts' = starts + 1
    /\ result' = Set(result, p, "none")
    /\ cut' = Set(cut, p, FALSE)
    /\ UNCHANGED <<listener, errCh, handlers, signalled, shutdownErr, pool,
                   usedUsers, gone>>

\* OpenConfiguredRepository, or MigrateConfiguredDatabase, which closes again.
Starting(p) ==
    /\ StartStep(p)
    /\ pool' = Set(pool, p, pc'[p] = "serving")
    /\ UNCHANGED <<listener, errCh, handlers, signalled, shutdownErr, result,
                   cut, historyVars>>

FailsToStart(p) == StartFails(p) /\ UNCHANGED <<serverVars, historyVars>>

-----------------------------------------------------------------------------
(* The listening goroutine of serveHTTPServer *)

\* Shutdown has begun: net/http accepts nothing and reports ErrServerClosed.
ShuttingDown(p) == pc[p] \in {"shutdown", "draining"}

Listen(p) ==
    /\ pc[p] \in {"serving", "shutdown", "draining"}
    /\ listener[p] = "none"
    /\ listener' = Set(listener, p, IF ShuttingDown(p) THEN "closed" ELSE "open")
    /\ UNCHANGED <<migrationVars, errCh, handlers, signalled, shutdownErr, pool,
                   result, cut, historyVars>>

\* The address is taken, or Accept fails for good.
ListenFails(p) ==
    /\ pc[p] = "serving"
    /\ listener[p] \in {"none", "open"}
    /\ listener' = Set(listener, p, "failed")
    /\ UNCHANGED <<migrationVars, errCh, handlers, signalled, shutdownErr, pool,
                   result, cut, historyVars>>

\* errCh <- listen(): the channel has room, so this never waits.
ListenReturns(p) ==
    /\ pc[p] \in Running
    /\ listener[p] \in {"closed", "failed"}
    /\ errCh[p] = "empty"
    /\ errCh' = Set(errCh, p, listener[p])
    /\ listener' = Set(listener, p, "returned")
    /\ UNCHANGED <<migrationVars, handlers, signalled, shutdownErr, pool, result,
                   cut, historyVars>>

-----------------------------------------------------------------------------
(* The main goroutine *)

Signal(p) ==
    /\ pc[p] \in Running
    /\ ~signalled[p]
    /\ signalled' = Set(signalled, p, TRUE)
    /\ UNCHANGED <<migrationVars, listener, errCh, handlers, shutdownErr, pool,
                   result, cut, historyVars>>

ResultOf(err) == IF err = "closed" THEN "nil" ELSE "error"

\* The first case of the select.
SelectError(p) ==
    /\ pc[p] = "serving"
    /\ errCh[p] # "empty"
    /\ result' = Set(result, p, ResultOf(errCh[p]))
    /\ Enter(p, "closing")
    /\ UNCHANGED <<legacy, db, writer, draft, mode, saw, listener, errCh,
                   handlers, signalled, shutdownErr, pool, cut, historyVars>>

\* The second case: Shutdown closes the listener and waits for the requests.
SelectSignal(p) ==
    /\ pc[p] = "serving"
    /\ signalled[p]
    /\ Enter(p, "shutdown")
    /\ listener' = Set(listener, p,
           IF listener[p] = "open" THEN "closed" ELSE listener[p])
    /\ UNCHANGED <<legacy, db, writer, draft, mode, saw, errCh, handlers,
                   signalled, shutdownErr, pool, result, cut, historyVars>>

\* Variant: Shutdown is given a context without a deadline.
ShutdownReturns_NoDeadline(p) ==
    /\ pc[p] = "shutdown"
    /\ handlers[p] = 0
    /\ Enter(p, "draining")
    /\ UNCHANGED <<legacy, db, writer, draft, mode, saw, listener, errCh,
                   handlers, signalled, shutdownErr, pool, result, cut,
                   historyVars>>

\* Shutdown returns when the requests have ended or after ten seconds.
ShutdownReturns(p) ==
    /\ pc[p] = "shutdown"
    /\ shutdownErr' = Set(shutdownErr, p, handlers[p] > 0)
    /\ Enter(p, "draining")
    /\ UNCHANGED <<legacy, db, writer, draft, mode, saw, listener, errCh,
                   handlers, signalled, pool, result, cut, historyVars>>

\* Variant: the error of Shutdown is dropped.
ReceiveError_Only(p) ==
    /\ pc[p] = "draining"
    /\ errCh[p] # "empty"
    /\ result' = Set(result, p, ResultOf(errCh[p]))
    /\ errCh' = Set(errCh, p, "empty")
    /\ Enter(p, "closing")
    /\ UNCHANGED <<legacy, db, writer, draft, mode, saw, listener, handlers,
                   signalled, shutdownErr, pool, cut, historyVars>>

\* err := <-errCh, after which the error of Shutdown takes precedence.
ReceiveError(p) ==
    /\ pc[p] = "draining"
    /\ errCh[p] # "empty"
    /\ result' = Set(result, p,
           IF shutdownErr[p] THEN "error" ELSE ResultOf(errCh[p]))
    /\ errCh' = Set(errCh, p, "empty")
    /\ Enter(p, "closing")
    /\ UNCHANGED <<legacy, db, writer, draft, mode, saw, listener, handlers,
                   signalled, shutdownErr, pool, cut, historyVars>>

\* The deferred repo.Close().
CloseRepository(p) ==
    /\ pc[p] = "closing"
    /\ pool' = Set(pool, p, FALSE)
    /\ Enter(p, "returning")
    /\ UNCHANGED <<legacy, db, writer, draft, mode, saw, listener, errCh,
                   handlers, signalled, shutdownErr, result, cut, historyVars>>

\* The process is gone, and with it its goroutines and running requests.
Vanish(p) ==
    /\ cut' = Set(cut, p, handlers[p] > 0)
    /\ handlers' = Set(handlers, p, 0)
    /\ listener' = Set(listener, p, "none")
    /\ errCh' = Set(errCh, p, "empty")
    /\ signalled' = Set(signalled, p, FALSE)
    /\ shutdownErr' = Set(shutdownErr, p, FALSE)
    /\ pool' = Set(pool, p, FALSE)
    /\ Enter(p, "exited")
    /\ UNCHANGED <<legacy, db, writer, draft, mode, saw, historyVars>>

Exit(p) ==
    /\ pc[p] = "returning"
    /\ Vanish(p)
    /\ UNCHANGED result

\* SIGKILL, or the machine goes down.
Killed(p) ==
    /\ pc[p] \in Running
    /\ Vanish(p)
    /\ result' = Set(result, p, "none")

ServerStep(p) ==
    \/ Listen(p)
    \/ ListenReturns(p)
    \/ SelectError(p)
    \/ SelectSignal(p)
    \/ ShutdownReturns(p)
    \/ ReceiveError(p)
    \/ CloseRepository(p)
    \/ Exit(p)

-----------------------------------------------------------------------------
(* Requests *)

Accept(p) ==
    /\ listener[p] = "open"
    /\ pc[p] = "serving"
    /\ handlers[p] < MaxHandlers
    /\ handlers' = Set(handlers, p, handlers[p] + 1)
    /\ UNCHANGED <<migrationVars, listener, errCh, signalled, shutdownErr, pool,
                   result, cut, historyVars>>

HandlerEnds(p) ==
    /\ handlers[p] > 0
    /\ handlers' = Set(handlers, p, handlers[p] - 1)
    /\ UNCHANGED <<migrationVars, listener, errCh, signalled, shutdownErr, pool,
                   result, cut, historyVars>>

CanQuery(p) == handlers[p] > 0 /\ pool[p]

\* RedeemInvitation: its foreign keys wait for an upgrade to end.
Register(p, u, a) ==
    /\ CanQuery(p)
    /\ writer = None
    /\ u \notin usedUsers /\ legacy.artist[u] = NoArtist
    /\ a \in db.artists
    /\ db' = [db EXCEPT !.users = @ \cup {u}, !.members = @ \cup {<<u, a>>}]
    /\ draft' = db'
    /\ usedUsers' = usedUsers \cup {u}
    /\ UNCHANGED <<legacy, writer, pc, mode, saw, serverVars, starts, gone>>

MembershipsOf(d, u) == {m \in d.members : m[1] = u}

Without(d, u) ==
    [d EXCEPT !.users = @ \ {u}, !.members = @ \ MembershipsOf(d, u)]

\* Variant: the account itself is kept.
DeleteUser_KeepsAccount(p, u) ==
    /\ CanQuery(p)
    /\ u \in db.users
    /\ db' = [db EXCEPT !.members = @ \ MembershipsOf(db, u)]
    /\ draft' = db'
    /\ gone' = gone \cup MembershipsOf(db, u)
    /\ UNCHANGED <<legacy, writer, pc, mode, saw, serverVars, starts, usedUsers>>

\* An upgrade locks the tables of DeleteUser only near its end (SHARE, for its
\* unique indexes on users and user_invitations).  Not to wait for that allows
\* more than PostgreSQL does; the upgrade sees what is deleted.
DeleteUser(p, u) ==
    /\ CanQuery(p)
    /\ u \in db.users
    /\ db' = Without(db, u)
    /\ draft' = Without(draft, u)
    /\ gone' = gone \cup MembershipsOf(db, u)
    /\ UNCHANGED <<legacy, writer, pc, mode, saw, serverVars, starts, usedUsers>>

DeleteArtist(p, a) ==
    /\ CanQuery(p)
    /\ writer = None
    /\ a \in db.artists
    /\ \A u \in Users : <<u, a>> \notin db.members
    /\ db' = [db EXCEPT
           !.artists = @ \ {a},
           !.songs = [s \in Songs |-> IF @[s] = a THEN NoRow ELSE @[s]]]
    /\ draft' = db'
    /\ UNCHANGED <<legacy, writer, pc, mode, saw, serverVars, historyVars>>

Query(p) ==
    \/ \E u \in Users : DeleteUser(p, u) \/ \E a \in Artists : Register(p, u, a)
    \/ \E a \in Artists : DeleteArtist(p, a)

DeploymentNext ==
    \E p \in Procs :
        \/ \E m \in Modes : Launch(p, m)
        \/ Starting(p) \/ FailsToStart(p)
        \/ ServerStep(p)
        \/ ListenFails(p) \/ Signal(p) \/ Killed(p)
        \/ Accept(p) \/ HandlerEnds(p) \/ Query(p)

\* A started process runs on: the database answers, the listening goroutine is
\* scheduled, and the deadline of Shutdown passes.  Nothing has to fail,
\* requests need not end, and nobody has to send a signal.
DeploymentSpec ==
    /\ DeploymentInit
    /\ [][DeploymentNext]_allVars
    /\ \A p \in Procs :
          /\ WF_allVars(Starting(p))
          /\ WF_allVars(Listen(p) \/ ListenReturns(p))
          /\ WF_allVars(SelectError(p) \/ SelectSignal(p) \/ ShutdownReturns(p)
                        \/ ReceiveError(p) \/ CloseRepository(p) \/ Exit(p))

-----------------------------------------------------------------------------
(* Properties *)

\* Every goroutine and channel of a replica is in one of its states, and only
\* a replica runs requests.
DeploymentTypeOK ==
    /\ MigrationTypeOK
    /\ pc \in [Procs -> {"down", "validating", "opened", "waiting", "exited"}
                        \cup UpgradeStages \cup Running]
    /\ listener \in [Procs -> {"none", "open", "closed", "failed", "returned"}]
    /\ errCh \in [Procs -> {"empty", "closed", "failed"}]
    /\ handlers \in [Procs -> 0 .. MaxHandlers]
    /\ signalled \in [Procs -> BOOLEAN]
    /\ shutdownErr \in [Procs -> BOOLEAN]
    /\ pool \in [Procs -> BOOLEAN]
    /\ result \in [Procs -> {"none", "nil", "error"}]
    /\ cut \in [Procs -> BOOLEAN]
    /\ starts \in 0 .. MaxStarts
    /\ db.users \subseteq usedUsers
    /\ gone \subseteq Users \X Artists
    /\ \A p \in Procs : handlers[p] > 0 \/ pool[p] => pc[p] \in Running

\* No request runs on a database whose upgrade has not committed, whichever
\* process upgrades it, and whoever starts, fails or is killed meanwhile.
RequestsSeeCurrentSchema == \A p \in Procs : handlers[p] > 0 => db.ready

\* An operator who sees a replica exit with 0 knows that no request was cut
\* short.  The pool of connections is taken from under a running request only
\* after a broken listener or an expired deadline, and then the process says so.
CutsAreReported ==
    \A p \in Procs :
        /\ pc[p] = "exited" /\ result[p] = "nil" => ~cut[p]
        /\ handlers[p] > 0 /\ ~pool[p] =>
              /\ result[p] = "error"
              /\ shutdownErr[p] \/ errCh[p] = "failed"

\* A restart never gives an account back what was taken from it, although every
\* upgrade inserts the memberships of users.artist_id again.
MembershipsStayGone == db.members \cap gone = {}

\* Every start ends in a serving replica or an exit, however many processes
\* upgrade the same database and die doing so: nobody waits for ever for locks.
StartsEnd ==
    \A p \in Procs :
        pc[p] \in {"validating", "opened", "waiting"} \cup UpgradeStages
            ~> pc[p] \in Running \cup {"exited"}

\* A replica that is told to stop does so, even if a request never ends, and
\* whether the signal comes before, while or after it listens.
SignalsStop ==
    \A p \in Procs : pc[p] = "serving" /\ signalled[p] ~> pc[p] = "exited"

=============================================================================
