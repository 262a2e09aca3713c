------------------------------ MODULE Migrations ------------------------------
(***************************************************************************)
(* init_db of several processes on one database: the API's lifespan and    *)
(* each worker process, on its first task, run run_migrations and then     *)
(* open their pool; the API goes on to connect to Redis.  The version is   *)
(* read before any lock is taken, so two starting processes may run the    *)
(* same file; the primary key of schema_version lets one of the two        *)
(* transactions commit.                                                    *)
(*                                                                         *)
(* A file is its version; version 0 is the base schema (run_base_schema).  *)
(* Statements that wait for another transaction's locks are not told apart *)
(* from statements that have not started yet.                              *)
(***************************************************************************)
EXTENDS Integers, Sequences, FiniteSets, FiniteSetsExt, SequencesExt

CONSTANTS Process,      \* processes that call init_db
          Api,          \* those that run app_lifespan, the others run tasks
          Files,        \* Files[p]: migrations in p's image, in sorted() order
          MaxFailures   \* how often a process may fail for other reasons

ASSUME MigrationsAssumption ==
    /\ Files \in [Process -> Seq(Nat \ {0})]
    \* file names are padded, so that sorted() orders them by version
    /\ \A p \in Process : \A i, j \in DOMAIN Files[p] :
          i < j => Files[p][i] < Files[p][j]
    \* an older image has fewer files, not other ones
    /\ \A p, q \in Process :
          IsPrefix(Files[p], Files[q]) \/ IsPrefix(Files[q], Files[p])
    /\ Api \subseteq Process
    /\ MaxFailures \in Nat

Version == {0} \cup UNION {Range(Files[p]) : p \in Process}

VARIABLES created,      \* schema_version exists
          recorded,     \* the versions in schema_version
          runs,         \* runs[v]: committed executions of file v
          process,      \* process[p]: where init_db has got to
          pool,         \* processes whose global pool is set
          redis,        \* processes with a Redis client
          failures      \* failures so far, other than lost races

schemaVars == <<created, recorded, runs>>
memoryVars == <<pool, redis>>
vars == <<schemaVars, process, memoryVars, failures>>

Pc == {"idle", "create", "read", "next", "execute", "record", "commit",
       "open_pool", "warm_up", "connect_redis", "ready"}

\* version is the local current_version; -1 stands for NULL
NoVersion == -1

MigrationsTypeOK ==
    /\ created \in BOOLEAN
    /\ recorded \subseteq Version
    /\ runs \in [Version -> Nat]
    /\ process \in [Process -> [pc : Pc, version : Version \cup {NoVersion}]]
    /\ pool \subseteq Process /\ redis \subseteq Api
    /\ failures \in 0..MaxFailures

Init ==
    /\ created = FALSE
    /\ recorded = {}
    /\ runs = [v \in Version |-> 0]
    /\ process = [p \in Process |-> [pc |-> "idle", version |-> NoVersion]]
    /\ pool = {} /\ redis = {}
    /\ failures = 0

At(p, pc) == process[p].pc = pc
Goto(p, pc) == process' = [process EXCEPT ![p].pc = pc]

\* a faulty variant: skips only the files below current_version
PendingInclusive(p) ==
    IF process[p].version = NoVersion THEN {0}
    ELSE {v \in Range(Files[p]) : v >= process[p].version}

\* The file p runs next: the base schema, or the first one above its
\* current_version.
Pending(p) ==
    IF process[p].version = NoVersion THEN {0}
    ELSE {v \in Range(Files[p]) : v > process[p].version}
Target(p) == Min(Pending(p))

-----------------------------------------------------------------------------

\* The lifespan of the API, or _run with _initialized still false.  With a
\* pool, left by an earlier attempt of the process, init_db returns at once.
Start(p) ==
    /\ At(p, "idle")
    /\ process' = [process EXCEPT ![p] =
          [pc |-> IF p \in pool THEN "ready" ELSE "create", version |-> NoVersion]]
    /\ UNCHANGED <<schemaVars, memoryVars, failures>>

\* CREATE TABLE IF NOT EXISTS schema_version
CreateTable(p) ==
    /\ At(p, "create")
    /\ created' = TRUE
    /\ Goto(p, "read")
    /\ UNCHANGED <<recorded, runs, memoryVars, failures>>

\* a faulty variant: NULL is taken for zero
ReadNullAsZero(p) ==
    /\ At(p, "read")
    /\ process' = [process EXCEPT ![p] =
          [pc |-> "next", version |-> Max(recorded \cup {0})]]
    /\ UNCHANGED <<schemaVars, memoryVars, failures>>

\* SELECT MAX(version)
ReadVersion(p) ==
    /\ At(p, "read")
    /\ process' = [process EXCEPT ![p] =
          [pc |-> "next",
           version |-> Max(recorded \cup {NoVersion})]]
    /\ UNCHANGED <<schemaVars, memoryVars, failures>>

\* Another pending file: begin a transaction and run it.
Begin(p) ==
    /\ At(p, "next")
    /\ Pending(p) # {}
    /\ Goto(p, "execute")
    /\ UNCHANGED <<schemaVars, memoryVars, failures>>

\* No pending file: the connection is closed.
Finish(p) ==
    /\ At(p, "next")
    /\ Pending(p) = {}
    /\ Goto(p, "open_pool")
    /\ UNCHANGED <<schemaVars, memoryVars, failures>>

\* The file's statements.  They may find what a committed run of the same
\* file has left (a second ADD CONSTRAINT), and then fail.
Execute(p) ==
    /\ At(p, "execute")
    /\ \/ Goto(p, "record")
       \/ /\ runs[Target(p)] > 0
          /\ Goto(p, "idle")
    /\ UNCHANGED <<schemaVars, memoryVars, failures>>

\* a faulty variant: ON CONFLICT DO NOTHING
RecordIfMissing(p) ==
    /\ At(p, "record")
    /\ \A q \in Process \ {p} : At(q, "commit") => Target(q) # Target(p)
    /\ Goto(p, "commit")
    /\ UNCHANGED <<schemaVars, memoryVars, failures>>

\* INSERT INTO schema_version: waits for an uncommitted row with the same
\* key; a committed one makes the transaction fail and roll back.
Record(p) ==
    /\ At(p, "record")
    /\ \A q \in Process \ {p} : At(q, "commit") => Target(q) # Target(p)
    /\ Goto(p, IF Target(p) \in recorded THEN "idle" ELSE "commit")
    /\ UNCHANGED <<schemaVars, memoryVars, failures>>

\* The transaction commits; current_version = migration_version.
Commit(p) ==
    /\ At(p, "commit")
    /\ recorded' = recorded \cup {Target(p)}
    /\ runs' = [runs EXCEPT ![Target(p)] = @ + 1]
    /\ process' = [process EXCEPT ![p] = [pc |-> "next", version |-> Target(p)]]
    /\ UNCHANGED <<created, memoryVars, failures>>

OpenPool(p) ==
    /\ At(p, "open_pool")
    /\ pool' = pool \cup {p}
    /\ Goto(p, "warm_up")
    /\ UNCHANGED <<schemaVars, redis, failures>>

\* SELECT 1 on the new pool ends init_db; a worker is ready to run its task.
WarmUp(p) ==
    /\ At(p, "warm_up")
    /\ Goto(p, IF p \in Api THEN "connect_redis" ELSE "ready")
    /\ UNCHANGED <<schemaVars, memoryVars, failures>>

\* The API pings Redis, keeps the client and serves.
ConnectRedis(p) ==
    /\ At(p, "connect_redis")
    /\ redis' = redis \cup {p}
    /\ Goto(p, "ready")
    /\ UNCHANGED <<schemaVars, pool, failures>>

\* The API is shut down: close_redis, close_db.
Shutdown(p) ==
    /\ p \in Api /\ At(p, "ready")
    /\ redis' = redis \ {p} /\ pool' = pool \ {p}
    /\ Goto(p, "idle")
    /\ UNCHANGED <<schemaVars, failures>>

\* A statement or Redis fails for another reason (two CREATE TABLE IF NOT
\* EXISTS may collide too), or the process dies: PostgreSQL rolls back.  The
\* API exits; a worker's task fails, and the process lives on or dies.
Fail(p) ==
    /\ process[p].pc \notin {"idle", "ready"}
    /\ failures < MaxFailures
    /\ failures' = failures + 1
    /\ Goto(p, "idle")
    /\ pool' \in {pool \ {p}} \cup (IF p \in Api THEN {} ELSE {pool})
    /\ UNCHANGED <<schemaVars, redis>>

Run(p) == \/ CreateTable(p) \/ ReadVersion(p) \/ Begin(p) \/ Finish(p)
          \/ Execute(p) \/ Record(p) \/ Commit(p)
          \/ OpenPool(p) \/ WarmUp(p) \/ ConnectRedis(p)

Next == \E p \in Process : Start(p) \/ Run(p) \/ Fail(p) \/ Shutdown(p)

Spec == Init /\ [][Next]_vars

(* A process that runs goes on.  One whose init_db failed comes back: a    *)
(* worker with its next task (_initialized stays false), the API when it   *)
(* is started again.                                                       *)
FairSpec == Spec /\ \A p \in Process : WF_vars(Start(p)) /\ WF_vars(Run(p))

-----------------------------------------------------------------------------

(* A version is recorded exactly when its file has run, once: neither      *)
(* starting processes that race nor failures run a file twice or leave one *)
(* half done ("Prevents duplicate migration execution", run_migrations).   *)
RecordedIsRun ==
    \A v \in Version : runs[v] = IF v \in recorded THEN 1 ELSE 0

(* Files run in order and none is left out, also when a process with an    *)
(* older image starts beside it.  A pool, which makes init_db return at    *)
(* once from then on, is there only with every file of the image, and a    *)
(* process that serves has its pool, the API also its Redis client         *)
(* (run_migrations, init_db, app_lifespan).                                *)
NothingSkipped ==
    /\ \A v \in recorded, u \in Version : u < v => u \in recorded
    /\ \A p \in pool : {0} \cup Range(Files[p]) \subseteq recorded
    /\ \A p \in Process :
          At(p, "ready") => p \in pool /\ (p \in Api => p \in redis)

(* Every process that starts gets to serve: losing races cannot go on for  *)
(* ever, because every lost race has a winner (run_migrations).            *)
EveryProcessServes == \A p \in Process : <>At(p, "ready")
=============================================================================
