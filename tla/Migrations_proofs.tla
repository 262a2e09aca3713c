--------------------------- MODULE Migrations_proofs ---------------------------
(***************************************************************************)
(* Proofs about Migrations, for every set of processes and images.         *)
(*                                                                         *)
(* The argument: the files of two images agree as far as both go, so the   *)
(* file a process runs next is the next version for every image            *)
(* (NothingBetween).  What is recorded then has no gaps, and it has a      *)
(* largest version, which is what SELECT MAX(version) finds (HasLast).     *)
(* Between its INSERT and its commit a process is the only one with its    *)
(* version, and the version is not recorded (CommitsAreAlone).             *)
(***************************************************************************)
EXTENDS Migrations, TLAPS, SequenceTheorems

USE MigrationsAssumption DEF NoVersion

-----------------------------------------------------------------------------
(* The inductive invariant.                                                *)

Image(p) == {0} \cup Range(Files[p])

HasLast == recorded # {} => \E m \in recorded : \A v \in recorded : v <= m

NoGaps == \A v \in recorded, u \in Version : u < v => u \in recorded

\* current_version is what was recorded when it was read.
VersionsAreRecorded ==
    \A p \in Process : process[p].version # NoVersion => process[p].version \in recorded

InTransaction(p) == process[p].pc \in {"execute", "record", "commit"}

FilesArePending == \A p \in Process : InTransaction(p) => Pending(p) # {}

CommitsAreAlone ==
    \A p \in Process : At(p, "commit") =>
        /\ Target(p) \notin recorded
        /\ \A q \in Process \ {p} : At(q, "commit") => Target(q) # Target(p)

Migrated(p) == process[p].pc \in {"open_pool", "warm_up", "connect_redis", "ready"}
Pooled(p) == process[p].pc \in {"warm_up", "connect_redis", "ready"}

ImagesAreThere ==
    \A p \in Process : Migrated(p) \/ p \in pool => Image(p) \subseteq recorded

\* An API process has a pool only from open_pool to its end.
PoolsAreOpen ==
    \A p \in Process : /\ Pooled(p) => p \in pool
                       /\ p \in Api /\ p \in pool => Pooled(p)
                       /\ At(p, "connect_redis") => p \in Api
                       /\ At(p, "ready") /\ p \in Api => p \in redis

MigrationsInv ==
    /\ MigrationsTypeOK
    /\ HasLast
    /\ NoGaps
    /\ VersionsAreRecorded
    /\ FilesArePending
    /\ CommitsAreAlone
    /\ RecordedIsRun
    /\ ImagesAreThere
    /\ PoolsAreOpen

-----------------------------------------------------------------------------
(* Files.                                                                  *)

LEMMA FileTypes ==
    /\ \A p \in Process : Files[p] \in Seq(Nat \ {0}) /\ DOMAIN Files[p] = 1..Len(Files[p])
    /\ Version \subseteq Nat
    /\ \A p \in Process : Image(p) \subseteq Version
<1>1. \A p \in Process : Files[p] \in Seq(Nat \ {0})
  OBVIOUS
<1>2. \A p \in Process : Range(Files[p]) \subseteq Nat
  BY <1>1 DEF Range
<1>3. QED
  BY <1>1, <1>2 DEF Version, Image

LEMMA PrefixAgrees ==
    ASSUME NEW s \in Seq(Nat \ {0}), NEW t \in Seq(Nat \ {0}), IsPrefix(s, t),
           NEW i \in DOMAIN s, i \in DOMAIN t
    PROVE  s[i] = t[i]
<1>1. Len(s) \in Nat /\ Len(t) \in Nat /\ Len(s) <= Len(t) /\ i \in 1..Len(s)
  BY DEF IsPrefix
<1>2. \A j \in 1..Len(s) : SubSeq(s, 1, Len(s))[j] = s[j]
  BY <1>1
<1>3. \A j \in 1..Len(s) : SubSeq(t, 1, Len(s))[j] = t[j]
  BY <1>1
<1>4. QED
  BY <1>1, <1>2, <1>3 DEF IsPrefix

(* Two images have the same file at the same place.                        *)
LEMMA FilesAgree ==
    ASSUME NEW p \in Process, NEW q \in Process, NEW i \in DOMAIN Files[p],
           i \in DOMAIN Files[q]
    PROVE  Files[p][i] = Files[q][i]
<1>1. Files[p] \in Seq(Nat \ {0}) /\ Files[q] \in Seq(Nat \ {0})
  BY FileTypes
<1>2. CASE IsPrefix(Files[p], Files[q])
  BY <1>1, <1>2, PrefixAgrees
<1>3. CASE IsPrefix(Files[q], Files[p])
  BY <1>1, <1>3, PrefixAgrees
<1>4. QED
  BY <1>2, <1>3

LEMMA FilesAscend ==
    ASSUME NEW p \in Process, NEW i \in DOMAIN Files[p], NEW j \in DOMAIN Files[p],
           i <= j
    PROVE  Files[p][i] <= Files[p][j] /\ Files[p][i] \in Nat \ {0}
<1>1. Files[p][i] \in Nat \ {0} /\ Files[p][j] \in Nat \ {0} /\ i \in Nat /\ j \in Nat
  BY FileTypes
<1>2. i < j => Files[p][i] < Files[p][j]
  OBVIOUS
<1>3. QED
  BY <1>1, <1>2

(* Whatever version an image goes on from, the first file it has after     *)
(* that is the next version there is.                                      *)
LEMMA NothingBetween ==
    ASSUME NEW p \in Process, NEW v \in Version, NEW later \in Range(Files[p]),
           later > v
    PROVE  \E t \in Range(Files[p]) : t > v /\ \A u \in Version : v < u => t <= u
<1>1. PICK i \in DOMAIN Files[p] : later = Files[p][i]
  BY DEF Range
<1>2. /\ i \in 1..Len(Files[p]) /\ Len(Files[p]) \in Nat
      /\ DOMAIN Files[p] = 1..Len(Files[p]) /\ v \in Nat
  BY FileTypes
<1>3. ASSUME NEW k \in Nat, k + 1 \in DOMAIN Files[p], Files[p][k + 1] > v,
             \A q \in Process : \A j \in DOMAIN Files[q] : Files[q][j] > v => j > k
      PROVE  \E t \in Range(Files[p]) : t > v /\ \A u \in Version : v < u => t <= u
  <2> DEFINE t == Files[p][k + 1]
  <2>1. ASSUME NEW u \in Version, v < u
        PROVE  t <= u
    <3>1. u # 0 /\ u \in Nat
      BY <1>2, <2>1, FileTypes
    <3>2. PICK q \in Process : \E j \in DOMAIN Files[q] : u = Files[q][j]
      BY <3>1 DEF Version, Range
    <3>3. PICK j \in DOMAIN Files[q] : u = Files[q][j]
      BY <3>2
    <3>4. j > k /\ j \in 1..Len(Files[q]) /\ Len(Files[q]) \in Nat
          /\ DOMAIN Files[q] = 1..Len(Files[q])
      BY <1>3, <2>1, <3>3, FileTypes
    <3>5. k + 1 \in DOMAIN Files[q] /\ k + 1 <= j
      BY <3>4
    <3>6. Files[q][k + 1] <= Files[q][j]
      BY <3>5, FilesAscend
    <3>7. Files[q][k + 1] = Files[p][k + 1]
      BY <1>3, <3>5, FilesAgree
    <3>8. QED
      BY <3>3, <3>6, <3>7
  <2>2. t \in Range(Files[p])
    BY <1>3 DEF Range
  <2>3. QED
    BY <1>3, <2>1, <2>2
<1>4. CASE v = 0
  <2>1. 1 \in DOMAIN Files[p]
    BY <1>2
  <2>2. Files[p][1] > v
    BY <1>4, <2>1, FilesAscend
  <2>3. \A q \in Process : \A j \in DOMAIN Files[q] : j > 0
    BY FileTypes
  <2>4. QED
    BY <1>3, <2>1, <2>2, <2>3
<1>5. CASE v # 0
  <2>1. PICK r \in Process : \E k \in DOMAIN Files[r] : v = Files[r][k]
    BY <1>5 DEF Version, Range
  <2>2. PICK k \in DOMAIN Files[r] : v = Files[r][k]
    BY <2>1
  <2>3. /\ k \in 1..Len(Files[r]) /\ Len(Files[r]) \in Nat
        /\ DOMAIN Files[r] = 1..Len(Files[r])
    BY FileTypes
  <2>4. ASSUME NEW q \in Process, NEW j \in DOMAIN Files[q], Files[q][j] > v
        PROVE  j > k
    <3>1. SUFFICES ASSUME ~(j > k)
                   PROVE  FALSE
      OBVIOUS
    <3>2. j \in 1..Len(Files[q]) /\ Len(Files[q]) \in Nat
      BY FileTypes
    <3>3. j \in DOMAIN Files[r] /\ j <= k
      BY <2>3, <3>1, <3>2
    <3>4. Files[q][j] = Files[r][j] /\ Files[r][j] <= Files[r][k] /\ Files[r][j] \in Nat
      BY <3>3, FilesAgree, FilesAscend
    <3>5. QED
      BY <1>2, <2>2, <2>4, <3>4
  <2>5. k + 1 \in DOMAIN Files[p] /\ k \in DOMAIN Files[p] /\ k \in Nat
    <3>1. i > k
      BY <1>1, <2>4
    <3>2. QED
      BY <1>2, <2>3, <3>1
  <2>6. Files[p][k + 1] > v
    <3>1. Files[p][k] = v
      BY <2>2, <2>5, FilesAgree
    <3>2. Files[p][k] < Files[p][k + 1]
      BY <2>5
    <3>3. QED
      BY <3>1, <3>2, <1>2, <2>5, FilesAscend
  <2>7. QED
    BY <1>3, <2>4, <2>5, <2>6
<1>6. QED
  BY <1>4, <1>5

(* The file a process runs next is above its version, and everything below *)
(* that file is not.                                                       *)
LEMMA TargetIsNext ==
    ASSUME MigrationsTypeOK, NEW p \in Process, Pending(p) # {}
    PROVE  /\ Target(p) \in Pending(p) /\ Target(p) \in Image(p)
           /\ \A u \in Version : u < Target(p) =>
                 process[p].version # NoVersion /\ u <= process[p].version
<1> DEFINE v == process[p].version
<1>1. v \in Version \cup {NoVersion} /\ Version \subseteq Nat
  BY FileTypes DEF MigrationsTypeOK
<1>2. CASE v = NoVersion
  <2>1. Pending(p) = {0}
    BY <1>2 DEF Pending
  <2>2. Target(p) = 0
    BY <2>1 DEF Target, Min
  <2>3. QED
    BY <1>1, <2>1, <2>2 DEF Image
<1>3. CASE v # NoVersion
  <2>1. Pending(p) = {u \in Range(Files[p]) : u > v} /\ v \in Version
    BY <1>1, <1>3 DEF Pending
  <2>2. PICK later \in Range(Files[p]) : later > v
    BY <2>1
  <2>3. PICK t \in Range(Files[p]) : t > v /\ \A u \in Version : v < u => t <= u
    BY <2>1, <2>2, NothingBetween
  <2>4. Range(Files[p]) \subseteq Version
    BY FileTypes DEF Image
  <2>5. t \in Pending(p) /\ \A u \in Pending(p) : t <= u
    BY <2>1, <2>3, <2>4
  <2>6. Target(p) \in Pending(p) /\ \A u \in Pending(p) : Target(p) <= u
    BY <2>5 DEF Target, Min
  <2>7. Target(p) = t
    <3>1. Target(p) \in Nat /\ t \in Nat
      BY <1>1, <2>1, <2>4, <2>6
    <3>2. t <= Target(p) /\ Target(p) <= t
      BY <2>5, <2>6
    <3>3. QED
      BY <3>1, <3>2
  <2>8. ASSUME NEW u \in Version, u < t
        PROVE  u <= v
    <3>1. u \in Nat /\ t \in Nat /\ v \in Nat
      BY <1>1, <2>1, <2>4
    <3>2. v < u => t <= u
      BY <2>3
    <3> HIDE DEF v
    <3>3. QED
      BY <2>8, <3>1, <3>2
  <2>9. t \in Image(p)
    BY DEF Image
  <2>10. QED
    BY <1>3, <2>6, <2>7, <2>8, <2>9
<1>4. QED
  BY <1>2, <1>3

-----------------------------------------------------------------------------
(* The steps.                                                              *)

LEMMA InitMigrationsInv == Init => MigrationsInv
<1> SUFFICES ASSUME Init
             PROVE  MigrationsInv
  OBVIOUS
<1>1. Version # {} /\ {0} \subseteq Version
  BY DEF Version
<1>2. MigrationsTypeOK
  <2>1. process \in [Process -> [pc : Pc, version : Version \cup {NoVersion}]]
    BY DEF Init, Pc
  <2>2. failures \in 0..MaxFailures
    BY DEF Init
  <2>3. QED
    BY <2>1, <2>2 DEF Init, MigrationsTypeOK
<1>3. HasLast /\ NoGaps /\ VersionsAreRecorded /\ RecordedIsRun
  BY DEF Init, HasLast, NoGaps, VersionsAreRecorded, RecordedIsRun
<1>4. FilesArePending /\ CommitsAreAlone /\ ImagesAreThere /\ PoolsAreOpen
  BY DEF Init, FilesArePending, CommitsAreAlone, ImagesAreThere, PoolsAreOpen,
     InTransaction, Migrated, Pooled, At
<1>5. QED
  BY <1>2, <1>3, <1>4 DEF MigrationsInv

(* A process that keeps its version, and does not reach commit, needs its  *)
(* file while it is in a transaction and its image once it is through.     *)
LEMMA ProcessMoves ==
    ASSUME MigrationsInv, NEW p \in Process, NEW pc \in Pc \ {"commit"}, Goto(p, pc),
           pc \in {"execute", "record"} => Pending(p) # {},
           pc \in {"open_pool", "warm_up", "connect_redis", "ready"}
              => Image(p) \subseteq recorded,
           pc \in {"warm_up", "connect_redis", "ready"} => p \in pool',
           p \in Api /\ p \in pool' => pc \in {"warm_up", "connect_redis", "ready"},
           pc = "connect_redis" => p \in Api,
           pc = "ready" /\ p \in Api => p \in redis',
           pool' \subseteq Process, redis' \subseteq Api,
           \A q \in Process \ {p} : /\ q \in pool' <=> q \in pool
                                    /\ q \in redis' <=> q \in redis,
           p \in pool' => Image(p) \subseteq recorded,
           created' \in BOOLEAN, failures' \in 0..MaxFailures,
           UNCHANGED <<recorded, runs>>
    PROVE  MigrationsInv'
<1> USE DEF At
<1>1. /\ process'[p].pc = pc /\ process'[p].version = process[p].version
      /\ \A q \in Process \ {p} : process'[q] = process[q]
      /\ \A q \in Process : process'[q].version = process[q].version
  BY DEF Goto, MigrationsInv, MigrationsTypeOK
<1>2. MigrationsTypeOK'
  BY DEF Goto, MigrationsInv, MigrationsTypeOK
<1>3. HasLast' /\ NoGaps' /\ VersionsAreRecorded' /\ RecordedIsRun'
  BY <1>1
  DEF MigrationsInv, HasLast, NoGaps, VersionsAreRecorded, RecordedIsRun
<1>4. \A q \in Process : Pending(q)' = Pending(q) /\ Target(q)' = Target(q)
  BY <1>1 DEF Pending, Target
<1>5. FilesArePending'
  BY <1>1, <1>4 DEF MigrationsInv, FilesArePending, InTransaction
<1>6. CommitsAreAlone'
  BY <1>1, <1>4 DEF MigrationsInv, CommitsAreAlone
<1>7. ImagesAreThere'
  BY <1>1 DEF MigrationsInv, ImagesAreThere, Migrated
<1>8. PoolsAreOpen'
  BY <1>1 DEF MigrationsInv, PoolsAreOpen, Pooled
<1>9. QED
  BY <1>2, <1>3, <1>5, <1>6, <1>7, <1>8 DEF MigrationsInv

(* Starting and reading change what a process takes for its version.       *)
LEMMA VersionMoves ==
    ASSUME MigrationsInv, NEW p \in Process, NEW pc \in {"create", "next", "ready"},
           NEW version \in recorded \cup {NoVersion},
           process' = [process EXCEPT ![p] = [pc |-> pc, version |-> version]],
           IF pc = "ready" THEN p \in pool /\ p \notin Api ELSE p \in Api => p \notin pool,
           UNCHANGED <<schemaVars, memoryVars, failures>>
    PROVE  MigrationsInv'
<1> USE DEF At, schemaVars, memoryVars
<1>1. /\ process'[p].pc = pc /\ process'[p].version = version
      /\ \A q \in Process \ {p} : process'[q] = process[q]
  BY DEF MigrationsInv, MigrationsTypeOK
<1>2. MigrationsTypeOK'
  <2>1. version \in Version \cup {NoVersion} /\ pc \in Pc
    BY DEF MigrationsInv, MigrationsTypeOK, Pc
  <2>2. QED
    BY <2>1 DEF MigrationsInv, MigrationsTypeOK
<1>3. HasLast' /\ NoGaps' /\ VersionsAreRecorded' /\ RecordedIsRun'
  BY <1>1
  DEF MigrationsInv, HasLast, NoGaps, VersionsAreRecorded, RecordedIsRun
<1>4. \A q \in Process \ {p} : Pending(q)' = Pending(q) /\ Target(q)' = Target(q)
  BY <1>1 DEF Pending, Target
<1>5. FilesArePending'
  BY <1>1, <1>4 DEF MigrationsInv, FilesArePending, InTransaction
<1>6. CommitsAreAlone'
  BY <1>1, <1>4 DEF MigrationsInv, CommitsAreAlone
<1>7. ImagesAreThere'
  BY <1>1 DEF MigrationsInv, ImagesAreThere, Migrated
<1>8. PoolsAreOpen'
  BY <1>1 DEF MigrationsInv, PoolsAreOpen, Pooled
<1>9. QED
  BY <1>2, <1>3, <1>5, <1>6, <1>7, <1>8 DEF MigrationsInv

(* An API process that is not serving has no pool, so only a worker finds  *)
(* one when it starts.                                                     *)
LEMMA StartKeeps ==
    ASSUME MigrationsInv, NEW p \in Process, Start(p)
    PROVE  MigrationsInv'
<1> DEFINE pc == IF p \in pool THEN "ready" ELSE "create"
<1>1. p \in Api => p \notin pool
  BY DEF Start, MigrationsInv, PoolsAreOpen, Pooled, At
<1>2. /\ process' = [process EXCEPT ![p] = [pc |-> pc, version |-> NoVersion]]
      /\ UNCHANGED <<schemaVars, memoryVars, failures>>
  BY DEF Start
<1>3. pc \in {"create", "next", "ready"} /\ NoVersion \in recorded \cup {NoVersion}
  OBVIOUS
<1>4. IF pc = "ready" THEN p \in pool /\ p \notin Api ELSE p \in Api => p \notin pool
  BY <1>1
<1> HIDE DEF pc
<1>5. QED
  BY <1>2, <1>3, <1>4, VersionMoves

LEMMA ReadVersionKeeps ==
    ASSUME MigrationsInv, NEW p \in Process, ReadVersion(p)
    PROVE  MigrationsInv'
<1> DEFINE read == recorded \cup {NoVersion}
<1>1. recorded \subseteq Nat
  BY FileTypes DEF MigrationsInv, MigrationsTypeOK
<1>2. \E m \in read : \A v \in read : m >= v
  <2>1. CASE recorded = {}
    BY <2>1
  <2>2. CASE recorded # {}
    <3>1. PICK m \in recorded : \A v \in recorded : v <= m
      BY <2>2 DEF MigrationsInv, HasLast
    <3>2. \A v \in read : m >= v
      BY <1>1, <3>1
    <3>3. QED
      BY <3>2
  <2>3. QED
    BY <2>1, <2>2
<1>3. Max(read) \in read
  BY <1>2 DEF Max
<1>4. p \in Api => p \notin pool
  BY DEF ReadVersion, MigrationsInv, PoolsAreOpen, Pooled, At
<1>5. /\ process' = [process EXCEPT ![p] = [pc |-> "next", version |-> Max(read)]]
      /\ UNCHANGED <<schemaVars, memoryVars, failures>>
  BY DEF ReadVersion
<1>6. QED
  BY <1>3, <1>4, <1>5, VersionMoves

LEMMA CommitKeeps ==
    ASSUME MigrationsInv, NEW p \in Process, Commit(p)
    PROVE  MigrationsInv'
<1> USE DEF At, memoryVars
<1> DEFINE t == Target(p)
<1>1. /\ process[p].pc = "commit" /\ Pending(p) # {} /\ t \notin recorded
      /\ \A q \in Process \ {p} : At(q, "commit") => Target(q) # t
  BY DEF Commit, MigrationsInv, FilesArePending, InTransaction, CommitsAreAlone
<1>2. /\ t \in Version /\ t \in Nat /\ Version \subseteq Nat /\ recorded \subseteq Version
      /\ \A u \in Version : u < t =>
            process[p].version # NoVersion /\ u <= process[p].version
  BY <1>1, FileTypes, TargetIsNext DEF MigrationsInv, MigrationsTypeOK
<1>3. /\ recorded' = recorded \cup {t} /\ runs' = [runs EXCEPT ![t] = @ + 1]
      /\ process' = [process EXCEPT ![p] = [pc |-> "next", version |-> t]]
      /\ UNCHANGED <<created, pool, redis, failures>>
  BY DEF Commit
<1> HIDE DEF t
<1>4. /\ process'[p].pc = "next" /\ process'[p].version = t
      /\ \A q \in Process \ {p} : process'[q] = process[q]
  BY <1>3 DEF MigrationsInv, MigrationsTypeOK
<1>5. MigrationsTypeOK'
  BY <1>2, <1>3 DEF MigrationsInv, MigrationsTypeOK, Pc
<1>6. HasLast'
  <2>1. CASE recorded = {}
    BY <1>2, <1>3, <2>1 DEF HasLast
  <2>2. CASE recorded # {}
    <3>1. PICK m \in recorded : \A v \in recorded : v <= m
      BY <2>2 DEF MigrationsInv, HasLast
    <3>2. CASE t <= m
      BY <1>3, <3>1, <3>2 DEF HasLast
    <3>3. CASE ~(t <= m)
      <4>1. \A v \in recorded' : v <= t
        BY <1>2, <1>3, <3>1, <3>3
      <4>2. QED
        BY <1>3, <4>1 DEF HasLast
    <3>4. QED
      BY <3>2, <3>3
  <2>3. QED
    BY <2>1, <2>2
<1>7. NoGaps'
  <2>1. ASSUME NEW u \in Version, u < t
        PROVE  u \in recorded
    <3>1. process[p].version \in recorded /\ u <= process[p].version
      BY <1>2, <2>1 DEF MigrationsInv, VersionsAreRecorded
    <3>2. u \in Nat /\ process[p].version \in Nat
      BY <1>2, <3>1
    <3>3. u = process[p].version \/ u < process[p].version
      BY <3>1, <3>2
    <3>4. QED
      BY <3>1, <3>3 DEF MigrationsInv, NoGaps
  <2>2. QED
    BY <1>3, <2>1 DEF MigrationsInv, NoGaps
<1>8. VersionsAreRecorded'
  BY <1>3, <1>4 DEF MigrationsInv, VersionsAreRecorded
<1>9. \A q \in Process \ {p} : Pending(q)' = Pending(q) /\ Target(q)' = Target(q)
  BY <1>4 DEF Pending, Target
<1>10. FilesArePending'
  BY <1>4, <1>9 DEF MigrationsInv, FilesArePending, InTransaction
<1>11. CommitsAreAlone'
  BY <1>1, <1>3, <1>4, <1>9 DEF MigrationsInv, CommitsAreAlone
<1>12. RecordedIsRun'
  <2>1. \A v \in Version : runs'[v] = IF v = t THEN runs[v] + 1 ELSE runs[v]
    BY <1>3 DEF MigrationsInv, MigrationsTypeOK
  <2>2. runs[t] = 0
    BY <1>1, <1>2 DEF MigrationsInv, RecordedIsRun, t
  <2>3. QED
    BY <1>3, <2>1, <2>2 DEF MigrationsInv, RecordedIsRun
<1>13. ImagesAreThere'
  BY <1>3, <1>4 DEF MigrationsInv, ImagesAreThere, Migrated
<1>14. PoolsAreOpen'
  BY <1>1, <1>3, <1>4 DEF MigrationsInv, PoolsAreOpen, Pooled
<1>15. QED
  BY <1>5, <1>6, <1>7, <1>8, <1>10, <1>11, <1>12, <1>13, <1>14
  DEF MigrationsInv

(* The steps of a process that starts, in their order.                     *)
LEMMA RunKeeps ==
    ASSUME MigrationsInv, NEW p \in Process, Run(p)
    PROVE  MigrationsInv'
<1> USE DEF At, schemaVars, memoryVars
<1>1. /\ pool \subseteq Process /\ redis \subseteq Api /\ created \in BOOLEAN
      /\ failures \in 0..MaxFailures /\ Api \subseteq Process
      /\ p \in Api /\ p \in pool => Pooled(p)
      /\ p \in pool => Image(p) \subseteq recorded
  BY DEF MigrationsInv, MigrationsTypeOK, PoolsAreOpen, ImagesAreThere
<1>2. ASSUME NEW pc \in Pc \ {"commit", "open_pool", "warm_up", "connect_redis", "ready"},
             Goto(p, pc), ~Pooled(p), pc \in {"execute", "record"} => Pending(p) # {},
             created' \in BOOLEAN, UNCHANGED <<recorded, runs, memoryVars, failures>>
      PROVE  MigrationsInv'
  BY <1>1, <1>2, ProcessMoves
<1>3. ASSUME CreateTable(p)
      PROVE  MigrationsInv'
  BY <1>2, <1>3 DEF CreateTable, Pooled, Pc
<1>4. ASSUME Begin(p)
      PROVE  MigrationsInv'
  BY <1>1, <1>2, <1>4 DEF Begin, Pooled, Pc
<1>5. ASSUME Finish(p)
      PROVE  MigrationsInv'
  <2>1. /\ process[p].pc = "next" /\ Pending(p) = {} /\ Goto(p, "open_pool")
        /\ UNCHANGED <<schemaVars, memoryVars, failures>> /\ ~Pooled(p)
    BY <1>5 DEF Finish, Pooled
  <2>2. process[p].version # NoVersion /\ process[p].version \in recorded
    BY <2>1 DEF Pending, MigrationsInv, VersionsAreRecorded
  <2>3. Image(p) \subseteq recorded
    <3>1. recorded \subseteq Version /\ Version \subseteq Nat /\ Image(p) \subseteq Version
      BY FileTypes DEF MigrationsInv, MigrationsTypeOK
    <3>2. ASSUME NEW u \in Image(p)
          PROVE  u = process[p].version \/ u < process[p].version
      <4>1. u = 0 \/ ~(u > process[p].version)
        BY <2>1, <2>2 DEF Image, Pending
      <4>2. u \in Nat /\ process[p].version \in Nat
        BY <2>2, <3>1
      <4>3. QED
        BY <4>1, <4>2
    <3>3. QED
      BY <2>2, <3>1, <3>2 DEF MigrationsInv, NoGaps
  <2>4. "open_pool" \in Pc \ {"commit"}
    BY DEF Pc
  <2>5. QED
    BY <1>1, <2>1, <2>3, <2>4, ProcessMoves
<1>6. ASSUME Execute(p)
      PROVE  MigrationsInv'
  <2>1. PICK pc \in {"record", "idle"} : Goto(p, pc)
    BY <1>6 DEF Execute
  <2>2. /\ ~Pooled(p) /\ Pending(p) # {}
        /\ UNCHANGED <<schemaVars, memoryVars, failures>>
    BY <1>6 DEF Execute, Pooled, MigrationsInv, FilesArePending, InTransaction
  <2>3. pc \in Pc \ {"commit", "open_pool", "warm_up", "connect_redis", "ready"}
    BY DEF Pc
  <2>4. QED
    BY <1>1, <1>2, <2>1, <2>2, <2>3
<1>7. ASSUME Record(p)
      PROVE  MigrationsInv'
  <2>1. /\ ~Pooled(p) /\ Pending(p) # {}
        /\ UNCHANGED <<schemaVars, memoryVars, failures>>
    BY <1>7 DEF Record, Pooled, MigrationsInv, FilesArePending, InTransaction
  <2>2. CASE Target(p) \in recorded
    <3>1. Goto(p, "idle")
          /\ "idle" \in Pc \ {"commit", "open_pool", "warm_up", "connect_redis", "ready"}
      BY <1>7, <2>2 DEF Record, Pc
    <3>2. QED
      BY <1>1, <1>2, <2>1, <3>1
  <2>3. CASE Target(p) \notin recorded
    <3>1. /\ process' = [process EXCEPT ![p].pc = "commit"] /\ "commit" \in Pc
          /\ \A q \in Process \ {p} : At(q, "commit") => Target(q) # Target(p)
      BY <1>7, <2>3 DEF Record, Goto, Pc
    <3>2. /\ process'[p].pc = "commit" /\ process'[p].version = process[p].version
          /\ \A q \in Process \ {p} : process'[q] = process[q]
          /\ \A q \in Process : process'[q].version = process[q].version
      BY <3>1 DEF MigrationsInv, MigrationsTypeOK
    <3>3. \A q \in Process : Pending(q)' = Pending(q) /\ Target(q)' = Target(q)
      BY <3>2 DEF Pending, Target
    <3>4. MigrationsTypeOK'
      BY <2>1, <3>1 DEF MigrationsInv, MigrationsTypeOK
    <3>5. HasLast' /\ NoGaps' /\ VersionsAreRecorded' /\ RecordedIsRun'
      BY <2>1, <3>2
      DEF MigrationsInv, HasLast, NoGaps, VersionsAreRecorded, RecordedIsRun
    <3>6. FilesArePending'
      BY <2>1, <3>2, <3>3 DEF MigrationsInv, FilesArePending, InTransaction
    <3>7. CommitsAreAlone'
      BY <2>1, <2>3, <3>1, <3>2, <3>3 DEF MigrationsInv, CommitsAreAlone
    <3>8. ImagesAreThere' /\ PoolsAreOpen'
      BY <1>1, <2>1, <3>2
      DEF MigrationsInv, ImagesAreThere, Migrated, PoolsAreOpen, Pooled
    <3>9. QED
      BY <3>4, <3>5, <3>6, <3>7, <3>8 DEF MigrationsInv
  <2>4. QED
    BY <2>2, <2>3
<1>8. ASSUME OpenPool(p)
      PROVE  MigrationsInv'
  <2>1. /\ pool' = pool \cup {p} /\ Goto(p, "warm_up") /\ "warm_up" \in Pc \ {"commit"}
        /\ UNCHANGED <<schemaVars, redis, failures>>
    BY <1>8 DEF OpenPool, Pc
  <2>2. Image(p) \subseteq recorded
    BY <1>8 DEF OpenPool, MigrationsInv, ImagesAreThere, Migrated
  <2>3. QED
    BY <1>1, <2>1, <2>2, ProcessMoves
<1>9. ASSUME WarmUp(p)
      PROVE  MigrationsInv'
  <2> DEFINE pc == IF p \in Api THEN "connect_redis" ELSE "ready"
  <2>1. Goto(p, pc) /\ pc \in Pc \ {"commit"} /\ UNCHANGED <<schemaVars, memoryVars, failures>>
    BY <1>9 DEF WarmUp, Pc
  <2>2. Image(p) \subseteq recorded /\ p \in pool
    BY <1>9
    DEF WarmUp, MigrationsInv, ImagesAreThere, PoolsAreOpen, Migrated, Pooled
  <2>3. pc \in {"connect_redis", "ready"} /\ (pc = "ready" <=> p \notin Api)
    OBVIOUS
  <2> HIDE DEF pc
  <2>4. QED
    BY <1>1, <2>1, <2>2, <2>3, ProcessMoves
<1>10. ASSUME ConnectRedis(p)
       PROVE  MigrationsInv'
  <2>1. /\ redis' = redis \cup {p} /\ Goto(p, "ready") /\ "ready" \in Pc \ {"commit"}
        /\ UNCHANGED <<schemaVars, pool, failures>>
    BY <1>10 DEF ConnectRedis, Pc
  <2>2. Image(p) \subseteq recorded /\ p \in pool /\ p \in Api
    BY <1>10
    DEF ConnectRedis, MigrationsInv, ImagesAreThere, PoolsAreOpen, Migrated,
        Pooled
  <2>3. QED
    BY <1>1, <2>1, <2>2, ProcessMoves
<1>11. QED
  BY <1>3, <1>4, <1>5, <1>6, <1>7, <1>8, <1>9, <1>10, ReadVersionKeeps,
     CommitKeeps DEF Run

LEMMA EndsKeep ==
    ASSUME MigrationsInv, NEW p \in Process, Shutdown(p) \/ Fail(p)
    PROVE  MigrationsInv'
<1>1. /\ pool \subseteq Process /\ redis \subseteq Api /\ created \in BOOLEAN
      /\ failures \in 0..MaxFailures /\ Api \subseteq Process
      /\ p \in pool => Image(p) \subseteq recorded
  BY DEF MigrationsInv, MigrationsTypeOK, ImagesAreThere
<1>2. /\ Goto(p, "idle") /\ "idle" \in Pc \ {"commit"} /\ UNCHANGED <<created, recorded, runs>>
      /\ pool' = pool \ {p} \/ (pool' = pool /\ p \notin Api)
      /\ redis' = redis \/ redis' = redis \ {p}
  BY DEF Shutdown, Fail, schemaVars, Pc
<1>3. failures' \in 0..MaxFailures
  <2>1. failures' = failures \/ (failures < MaxFailures /\ failures' = failures + 1)
    BY DEF Shutdown, Fail
  <2>2. QED
    BY <1>1, <2>1
<1>4. /\ pool' \subseteq Process /\ redis' \subseteq Api
      /\ \A q \in Process \ {p} : /\ q \in pool' <=> q \in pool
                               /\ q \in redis' <=> q \in redis
      /\ p \in pool' => Image(p) \subseteq recorded /\ p \notin Api
  BY <1>1, <1>2
<1>5. created' \in BOOLEAN
  BY <1>1, <1>2
<1>6. QED
  BY <1>2, <1>3, <1>4, <1>5, ProcessMoves

LEMMA NextMigrationsInv == MigrationsInv /\ [Next]_vars => MigrationsInv'
<1>1. ASSUME MigrationsInv, UNCHANGED vars
      PROVE  MigrationsInv'
  <2>1. UNCHANGED <<created, recorded, runs, process, pool, redis, failures>>
    BY <1>1 DEF vars, schemaVars, memoryVars
  <2>2. \A q \in Process : Pending(q)' = Pending(q) /\ Target(q)' = Target(q)
    BY <2>1 DEF Pending, Target
  <2>3. QED
    BY <1>1, <2>1, <2>2 DEF MigrationsInv, MigrationsTypeOK, HasLast, NoGaps,
       VersionsAreRecorded, FilesArePending, InTransaction, CommitsAreAlone, At,
       RecordedIsRun, ImagesAreThere, Migrated, PoolsAreOpen, Pooled
<1>2. QED
  BY <1>1, StartKeeps, RunKeeps, EndsKeep DEF Next

LEMMA MigrationsAreSafe == Spec => []MigrationsInv
  BY InitMigrationsInv, NextMigrationsInv, PTL DEF Spec

-----------------------------------------------------------------------------
(* The theorems.                                                           *)

(* The schema, the processes and what they have opened have their types.   *)
THEOREM MigrationsTypeCorrect == Spec => []MigrationsTypeOK
  BY MigrationsAreSafe, PTL DEF MigrationsInv

(* A version is recorded exactly when its file has run, once, however many *)
(* processes start together or fail (run_migrations).                      *)
THEOREM FilesRunOnce == Spec => []RecordedIsRun
  BY MigrationsAreSafe, PTL DEF MigrationsInv

(* Files run in order and without gaps, also beside older images, and only *)
(* a process whose whole image has run has a pool or serves (init_db,      *)
(* app_lifespan).                                                          *)
THEOREM ImagesRunInOrder == Spec => []NothingSkipped
<1>1. MigrationsInv => NothingSkipped
  BY DEF MigrationsInv, MigrationsTypeOK, NoGaps, ImagesAreThere, Image,
     PoolsAreOpen, Pooled, At, NothingSkipped
<1>2. QED
  BY <1>1, MigrationsAreSafe, PTL
==============================================================================
