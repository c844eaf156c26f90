---------------------------- MODULE StorageProofs ----------------------------
(***************************************************************************)
(* Theorems about module Storage, for any number of processes that open    *)
(* the same directory, databases of any release with any rows, failing     *)
(* calls, and crashes.                                                     *)
(***************************************************************************)
EXTENDS Storage, TLAPS

-----------------------------------------------------------------------------
(* The list of migrations.                                                 *)

\* There are four of them, and each creates something.
LEMMA Migrations ==
    /\ version = 4
    /\ \A k \in 1 .. version : migrations[k].create # {}
<1>1. version = 4
  BY DEF version, migrations
<1>2. /\ migrations[1].create = {"main", "images", "image_tags"}
      /\ migrations[2].create = {"captchas"}
      /\ migrations[3].create = {"images.rating"}
      /\ migrations[4].create = {"pending_images"}
  BY DEF migrations
<1>3. \A k \in 1 .. version : k \in {1, 2, 3, 4}
  BY <1>1
<1>4. \A k \in {1, 2, 3, 4} : migrations[k].create # {}
  BY <1>2
<1> QED BY <1>1, <1>3, <1>4

\* What n + 1 migrations create is what n of them do, and what the next one does.
LEMMA CreatedNext ==
    ASSUME NEW n \in Nat
    PROVE  Created(n + 1) = Created(n) \cup migrations[n + 1].create
<1>1. 1 .. n + 1 = (1 .. n) \cup {n + 1}
  OBVIOUS
<1> QED BY <1>1 DEF Created

\* What an earlier migration creates is there in a later release.
LEMMA CreatedBefore ==
    ASSUME NEW n \in Nat, NEW m \in Nat, n < m
    PROVE  migrations[n + 1].create \subseteq Created(m)
<1>1. n + 1 \in 1 .. m
  OBVIOUS
<1> QED BY <1>1 DEF Created

-----------------------------------------------------------------------------
(* The database.  A process in its loop may be behind the others, but one  *)
(* that is inside of a transaction is alone there, and not behind.         *)
Points == {"off", "mkroot", "mkimages", "read", "loop", "up", "failed"} \cup InTx

Shape ==
    /\ db \in Database
    /\ proc \in [Processes -> [at : Points, i : 0 .. version, tx : Database]]

TxInv(p) ==
    proc[p].at \in InTx =>
        /\ proc[p].i = db.val /\ proc[p].i < version
        /\ proc[p].tx.schema = Created(proc[p].i + 1)
        /\ proc[p].tx.rows = db.rows \ RowsOf(migrations[proc[p].i + 1].clear)
        /\ proc[p].at = "commit" => proc[p].tx.val = proc[p].i + 1
        /\ Alone(p)

LoopInv(p) == proc[p].at = "loop" => proc[p].i < version /\ proc[p].i <= db.val

DatabaseInv ==
    /\ Shape /\ SchemaMatches
    /\ \A p \in Processes : TxInv(p) /\ LoopInv(p)

\* The invariant holds for the databases of all releases.
LEMMA InitDatabase == StorageInit => DatabaseInv
<1> SUFFICES ASSUME StorageInit PROVE DatabaseInv
  OBVIOUS
<1> USE DEF StorageInit
<1>1. Created(0) = {} /\ \A n \in 0 .. version : Created(n) \subseteq Created(version)
  BY Migrations DEF Created
<1>2. PICK n \in 0 .. version : \E rows \in SUBSET RowsOf(Created(n)) :
          db = [val |-> n, schema |-> Created(n), rows |-> rows]
  OBVIOUS
<1>3. db \in Database /\ db.schema = Created(db.val)
  BY <1>1, <1>2 DEF Database, RowsOf
<1>4. Shape
  BY <1>3, Migrations DEF Shape, Database, Out, NoTx, Points
<1>5. SchemaMatches /\ \A p \in Processes : TxInv(p) /\ LoopInv(p)
  BY <1>3 DEF SchemaMatches, TxInv, LoopInv, Out, InTx
<1> QED BY <1>4, <1>5 DEF DatabaseInv

\* A step of Open that leaves the database alone, and takes p out of a transaction
\* or lets it read the version number.
LEMMA OutsideTx ==
    ASSUME DatabaseInv, NEW p \in Processes,
           \/ Start(p) \/ MkRoot(p) \/ MkImages(p) \/ ReadVersion(p)
           \/ Fails(p) \/ Stop(p) \/ Crash(p)
    PROVE  DatabaseInv'
<1> USE DEF DatabaseInv, Shape, GoTo
<1>1. UNCHANGED db /\ \A q \in Processes \ {p} : proc'[q] = proc[q]
  BY DEF Start, MkRoot, MkImages, ReadVersion, Fails, Stop, Crash
<1>2. /\ proc' \in [Processes -> [at : Points, i : 0 .. version, tx : Database]]
      /\ proc'[p].at \notin InTx
      /\ proc'[p].at = "loop" => proc'[p].i = db.val /\ proc'[p].i < version
      /\ proc'[p].at = "up" => db.val = version
  BY Migrations DEF Start, MkRoot, MkImages, ReadVersion, Fails, Stop, Crash, Loop, Out,
        NoTx, Points, InTx, Database
<1>3. Shape'
  BY <1>1, <1>2
<1>4. SchemaMatches'
  BY <1>1, <1>2 DEF SchemaMatches
<1>5. ASSUME NEW q \in Processes PROVE TxInv(q)' /\ LoopInv(q)'
  <2>1. CASE q = p
    BY <1>1, <1>2, <2>1 DEF TxInv, LoopInv, Database
  <2>2. CASE q # p
    BY <1>1, <1>2, <2>2 DEF TxInv, LoopInv, Alone
  <2> QED BY <2>1, <2>2
<1> QED BY <1>3, <1>4, <1>5

\* A migration only runs at the release before its own: at a later one, what it
\* creates is there already.
LEMMA MigrationInTurn ==
    ASSUME DatabaseInv, NEW p \in Processes, RunMigration(p)
    PROVE  proc[p].i = db.val /\ proc[p].i \in 0 .. version - 1
<1>1. proc[p].i \in 0 .. version - 1 /\ proc[p].i <= db.val /\ db.val \in 0 .. version
  BY Migrations DEF RunMigration, DatabaseInv, Shape, LoopInv, Database
<1>2. ASSUME proc[p].i < db.val PROVE FALSE
  <2>1. migrations[proc[p].i + 1].create \subseteq db.schema
    BY <1>1, <1>2, CreatedBefore, Migrations DEF DatabaseInv, SchemaMatches
  <2>2. migrations[proc[p].i + 1].create # {}
    BY <1>1, Migrations
  <2> QED BY <2>1, <2>2 DEF RunMigration
<1> QED BY <1>1, <1>2, Migrations

LEMMA RunMigrationKeeps ==
    ASSUME DatabaseInv, NEW p \in Processes, RunMigration(p)
    PROVE  DatabaseInv'
<1> DEFINE i == proc[p].i
<1>1. i = db.val /\ i \in 0 .. version - 1 /\ i + 1 \in 1 .. version
  BY MigrationInTurn, Migrations
<1>2. /\ UNCHANGED db /\ Alone(p)
      /\ proc' = [proc EXCEPT ![p].at = "version",
                ![p].tx = [val |-> IF i = 0 THEN 1 ELSE db.val,
                           schema |-> db.schema \cup migrations[i + 1].create,
                           rows |-> db.rows \ RowsOf(migrations[i + 1].clear)]]
  BY DEF RunMigration
<1>3. db.schema \cup migrations[i + 1].create = Created(i + 1)
  BY <1>1, CreatedNext, Migrations DEF DatabaseInv, SchemaMatches
<1> HIDE DEF i
<1>4. /\ proc'[p].at = "version" /\ proc'[p].i = proc[p].i
      /\ proc'[p].tx.schema = Created(i + 1)
      /\ proc'[p].tx.rows = db.rows \ RowsOf(migrations[i + 1].clear)
      /\ \A q \in Processes \ {p} : proc'[q] = proc[q]
  BY <1>2, <1>3 DEF DatabaseInv, Shape
<1>5. Shape'
  <2>1. db.schema \cup migrations[i + 1].create \subseteq Created(version)
    <3>1. db.schema \subseteq Created(version)
      BY DEF DatabaseInv, Shape, Database
    <3>2. i \in Nat /\ version \in Nat /\ i < version
      BY <1>1, Migrations
    <3>3. migrations[i + 1].create \subseteq Created(version)
      BY <3>2, CreatedBefore
    <3> QED BY <3>1, <3>3
  <2>2. [val |-> IF i = 0 THEN 1 ELSE db.val,
         schema |-> db.schema \cup migrations[i + 1].create,
         rows |-> db.rows \ RowsOf(migrations[i + 1].clear)] \in Database
    BY <1>1, <2>1, Migrations DEF DatabaseInv, Shape, Database
  <2> QED BY <1>2, <2>2 DEF DatabaseInv, Shape, Points, InTx
<1>6. SchemaMatches'
  BY <1>2, <1>4 DEF DatabaseInv, SchemaMatches
<1>7. ASSUME NEW q \in Processes PROVE TxInv(q)' /\ LoopInv(q)'
  <2>1. CASE q = p
    <3>1. UNCHANGED db /\ Alone(p)'
      BY <1>2, <1>4 DEF Alone
    <3>2. proc'[p].i = db.val /\ db.val < version /\ i = proc[p].i
      BY <1>1, <1>4, Migrations DEF i
    <3> QED BY <1>4, <2>1, <3>1, <3>2 DEF TxInv, LoopInv
  <2>2. CASE q # p
    BY <1>2, <1>4, <2>2 DEF DatabaseInv, TxInv, LoopInv, Alone
  <2> QED BY <2>1, <2>2
<1> QED BY <1>5, <1>6, <1>7 DEF DatabaseInv

LEMMA UpdateVersionKeeps ==
    ASSUME DatabaseInv, NEW p \in Processes, UpdateVersion(p)
    PROVE  DatabaseInv'
<1>1. /\ UNCHANGED db
      /\ proc' = [proc EXCEPT ![p].at = "commit", ![p].tx.val = proc[p].i + 1]
      /\ proc[p].at = "version"
  BY DEF UpdateVersion
<1>2. proc[p].i < version /\ TxInv(p)
  BY <1>1 DEF DatabaseInv, TxInv, InTx
<1>3. Shape'
  <2>1. proc[p].i + 1 \in 0 .. version
    BY <1>2, Migrations DEF DatabaseInv, Shape
  <2>2. [proc[p].tx EXCEPT !.val = proc[p].i + 1] \in Database
    BY <2>1 DEF DatabaseInv, Shape, Database
  <2>3. [proc[p] EXCEPT !.at = "commit", !.tx = [proc[p].tx EXCEPT !.val = proc[p].i + 1]]
            \in [at : Points, i : 0 .. version, tx : Database]
    BY <2>2 DEF DatabaseInv, Shape, Points, InTx
  <2> QED BY <1>1, <2>3 DEF DatabaseInv, Shape
<1>4. /\ proc'[p].at = "commit" /\ proc'[p].i = proc[p].i
      /\ proc'[p].tx.val = proc[p].i + 1
      /\ proc'[p].tx.schema = proc[p].tx.schema /\ proc'[p].tx.rows = proc[p].tx.rows
      /\ \A q \in Processes \ {p} : proc'[q] = proc[q]
  BY <1>1 DEF DatabaseInv, Shape, Database
<1>5. SchemaMatches'
  BY <1>1, <1>4 DEF DatabaseInv, SchemaMatches
<1>6. ASSUME NEW q \in Processes PROVE TxInv(q)' /\ LoopInv(q)'
  <2>1. CASE q = p
    BY <1>1, <1>2, <1>4, <2>1 DEF TxInv, LoopInv, InTx, Alone
  <2>2. CASE q # p
    BY <1>1, <1>4, <2>2 DEF DatabaseInv, TxInv, LoopInv, Alone, InTx
  <2> QED BY <2>1, <2>2
<1> QED BY <1>3, <1>5, <1>6 DEF DatabaseInv

\* The transaction in progress is the only one, so no other one is overtaken.
LEMMA CommitKeeps ==
    ASSUME DatabaseInv, NEW p \in Processes, Commit(p)
    PROVE  /\ DatabaseInv'
           /\ db.val < version /\ db'.val = db.val + 1
           /\ db'.rows = db.rows \ RowsOf(migrations[db.val + 1].clear)
<1>1. /\ proc[p].at = "commit" /\ proc[p].i = db.val /\ db.val \in 0 .. version - 1
      /\ proc[p].tx.schema = Created(db.val + 1) /\ proc[p].tx.val = db.val + 1
      /\ proc[p].tx.rows = db.rows \ RowsOf(migrations[db.val + 1].clear)
      /\ \A q \in Processes \ {p} : proc[q].at \notin InTx
  BY Migrations DEF Commit, DatabaseInv, Shape, TxInv, InTx, Database, Alone
<1>2. db' = proc[p].tx /\ db'.val = db.val + 1
  BY <1>1 DEF Commit
<1>3. Shape'
  BY <1>1, Migrations DEF Commit, DatabaseInv, Shape, Database, Points, InTx, Loop, NoTx
<1>4. /\ proc'[p].at = Loop(db.val + 1) /\ proc'[p].i = db.val + 1
      /\ \A q \in Processes \ {p} : proc'[q] = proc[q]
  BY <1>1 DEF Commit, DatabaseInv, Shape
<1>5. SchemaMatches'
  BY <1>1, <1>2, <1>4, Migrations DEF DatabaseInv, SchemaMatches, Loop
<1>6. ASSUME NEW q \in Processes PROVE TxInv(q)' /\ LoopInv(q)'
  <2>1. CASE q = p
    BY <1>1, <1>2, <1>4, <2>1, Migrations DEF TxInv, LoopInv, InTx, Loop
  <2>2. CASE q # p
    BY <1>1, <1>2, <1>4, <2>2, Migrations DEF DatabaseInv, Shape, TxInv, LoopInv
  <2> QED BY <2>1, <2>2
<1>7. db.val < version
  BY <1>1, Migrations
<1>8. db'.rows = db.rows \ RowsOf(migrations[db.val + 1].clear)
  BY <1>1, <1>2
<1> QED BY <1>2, <1>3, <1>5, <1>6, <1>7, <1>8 DEF DatabaseInv

LEMMA WriteKeeps ==
    ASSUME DatabaseInv, NEW p \in Processes, NEW r \in Row, Write(p, r)
    PROVE  DatabaseInv'
<1>1. /\ db' = [db EXCEPT !.rows = @ \cup {r}] /\ UNCHANGED proc
      /\ proc[p].at \notin InTx /\ Alone(p)
  BY DEF Write, InTx
<1>2. db' \in Database /\ db'.val = db.val /\ db'.schema = db.schema
  BY <1>1 DEF DatabaseInv, Shape, Database
<1>3. \A q \in Processes : proc[q].at \notin InTx
  BY <1>1 DEF Alone
<1> QED BY <1>1, <1>2, <1>3 DEF DatabaseInv, Shape, SchemaMatches, TxInv, LoopInv

LEMMA NextDatabase == DatabaseInv /\ [StorageNext]_storageVars => DatabaseInv'
<1> SUFFICES ASSUME DatabaseInv, [StorageNext]_storageVars PROVE DatabaseInv'
  OBVIOUS
<1>1. CASE UNCHANGED storageVars
  BY <1>1 DEF storageVars, DatabaseInv, Shape, SchemaMatches, TxInv, LoopInv, Alone
<1>2. ASSUME NEW p \in Processes, StorageStep(p) PROVE DatabaseInv'
  BY <1>2, OutsideTx, RunMigrationKeeps, UpdateVersionKeeps, CommitKeeps, WriteKeeps
     DEF StorageStep, OpenStep
<1> QED BY <1>1, <1>2 DEF StorageNext

THEOREM DatabaseInvariance == StorageSpec => []DatabaseInv
BY InitDatabase, NextDatabase, PTL DEF StorageSpec

\* The version number and the schema agree at any time, and a process that is up has
\* the database of its release: for all releases, processes and crashes.
THEOREM SchemaAlwaysMatches == StorageSpec => []SchemaMatches
<1>1. DatabaseInv => SchemaMatches
  BY DEF DatabaseInv
<1> QED BY <1>1, DatabaseInvariance, PTL

-----------------------------------------------------------------------------
(* Refinement: a commit is an upgrade, a write adds a row, and every other *)
(* step is a stutter.                                                      *)
THEOREM UpgradesInTurn == StorageSpec => ImplementsReleases
<1>1. StorageInit => Release!Init
  <2> SUFFICES ASSUME StorageInit PROVE Release!Init
    OBVIOUS
  <2>1. PICK n \in 0 .. version : \E rows \in SUBSET RowsOf(Created(n)) :
            db = [val |-> n, schema |-> Created(n), rows |-> rows]
    BY DEF StorageInit
  <2> QED BY <2>1 DEF Release!Init
<1>2. ASSUME DatabaseInv, [StorageNext]_storageVars
      PROVE  [Release!Next]_<<db.val, db.rows>>
  <2>1. CASE UNCHANGED storageVars
    BY <2>1 DEF storageVars
  <2>2. ASSUME NEW p \in Processes, StorageStep(p)
        PROVE  [Release!Next]_<<db.val, db.rows>>
    <3>1. CASE Commit(p)
      <4>1. db.val \in 0 .. version - 1 /\ db'.val = db.val + 1
        BY <1>2, <3>1, CommitKeeps, Migrations DEF DatabaseInv, Shape, Database
      <4>2. db'.rows = db.rows \ RowsOf(migrations[db.val + 1].clear)
        BY <1>2, <3>1, CommitKeeps
      <4>3. Release!Upgrade
        BY <4>1, <4>2, Migrations DEF Release!Upgrade
      <4> QED BY <4>3 DEF Release!Next
    <3>2. ASSUME NEW r \in Row, Write(p, r)
          PROVE  [Release!Next]_<<db.val, db.rows>>
      <4>1. db.val = version
        BY <1>2, <3>2 DEF Write, DatabaseInv, SchemaMatches
      <4>2. db'.val = db.val /\ db'.rows = db.rows \cup {r}
        BY <1>2, <3>2 DEF Write, DatabaseInv, Shape, Database
      <4>3. Release!Add(r)
        BY <4>1, <4>2 DEF Release!Add
      <4> QED BY <4>3 DEF Release!Next
    <3>3. CASE Start(p) \/ MkRoot(p) \/ MkImages(p) \/ ReadVersion(p) \/ RunMigration(p)
               \/ UpdateVersion(p) \/ Fails(p) \/ Stop(p) \/ Crash(p)
      BY <3>3 DEF Start, MkRoot, MkImages, ReadVersion, RunMigration, UpdateVersion,
            Fails, Stop, Crash
    <3> QED BY <2>2, <3>1, <3>2, <3>3 DEF StorageStep, OpenStep
  <2> QED BY <1>2, <2>1, <2>2 DEF StorageNext
<1> QED BY <1>1, <1>2, DatabaseInvariance, PTL DEF StorageSpec, ImplementsReleases, Release!Spec

-----------------------------------------------------------------------------
(* The directories.                                                        *)
Repairable == torn \/ \E q \in Processes : proc[q].at = "mkimages"

HasRoot == {"mkimages", "read", "loop", "up"} \cup InTx

DirsInv ==
    /\ proc \in [Processes -> [at : Points, i : 0 .. version, tx : Database]]
    /\ "root" \in dirs => "images" \in dirs \/ Repairable
    /\ \A p \in Processes : proc[p].at \in HasRoot => "root" \in dirs

\* A root without images is there only while the process that made it is inside of
\* MkdirAll, and afterwards if that was stopped there.
LEMMA StepDirs ==
    ASSUME DatabaseInv, DirsInv, NEW p \in Processes, StorageStep(p), DatabaseInv'
    PROVE  DirsInv'
<1>1. proc' \in [Processes -> [at : Points, i : 0 .. version, tx : Database]]
  BY DEF DatabaseInv, Shape
<1>2. \A q \in Processes \ {p} : proc'[q] = proc[q]
  BY DEF StorageStep, OpenStep, Start, MkRoot, MkImages, ReadVersion, RunMigration,
        UpdateVersion, Commit, Fails, Write, Stop, Crash, GoTo, DirsInv
<1>3. dirs \subseteq dirs'
  BY DEF StorageStep, OpenStep, Start, MkRoot, MkImages, ReadVersion, RunMigration,
        UpdateVersion, Commit, Fails, Write, Stop, Crash
<1>4. CASE MkRoot(p)
  <2>1. "root" \in dirs' /\ proc'[p].at = "mkimages"
    BY <1>4 DEF MkRoot, GoTo, DirsInv
  <2> QED BY <1>1, <2>1 DEF DirsInv, Repairable
<1>5. CASE MkImages(p)
  <2>1. "images" \in dirs' /\ ("root" \in dirs' <=> "root" \in dirs)
    BY <1>5 DEF MkImages
  <2>2. "root" \in dirs
    BY <1>5 DEF MkImages, DirsInv, HasRoot
  <2> QED BY <1>1, <2>1, <2>2 DEF DirsInv
<1>6. CASE Fails(p) \/ Crash(p)
  <2>1. dirs' = dirs /\ torn' = Tears(p) /\ proc'[p].at \in {"failed", "off"}
    BY <1>6 DEF Fails, Crash, Out, DirsInv
  <2>2. "root" \in dirs => "images" \in dirs \/ Repairable'
    BY <1>2, <2>1 DEF DirsInv, Repairable, Tears
  <2>3. \A q \in Processes : proc'[q].at \in HasRoot => "root" \in dirs
    BY <1>2, <2>1 DEF DirsInv, HasRoot, InTx
  <2> QED BY <1>1, <2>1, <2>2, <2>3 DEF DirsInv
<1>7. CASE \/ Start(p) \/ ReadVersion(p) \/ RunMigration(p) \/ UpdateVersion(p)
           \/ Commit(p) \/ Stop(p) \/ \E r \in Row : Write(p, r)
  <2>1. /\ UNCHANGED <<dirs, torn>> /\ proc[p].at # "mkimages"
        /\ proc'[p].at \in HasRoot => "root" \in dirs
    BY <1>7 DEF Start, ReadVersion, RunMigration, UpdateVersion, Commit, Stop, Write,
          GoTo, Out, DirsInv, HasRoot, InTx
  <2>2. "root" \in dirs => "images" \in dirs \/ Repairable'
    BY <1>2, <2>1 DEF DirsInv, Repairable
  <2>3. \A q \in Processes : proc'[q].at \in HasRoot => "root" \in dirs
    BY <1>2, <2>1 DEF DirsInv
  <2> QED BY <1>1, <2>1, <2>2, <2>3 DEF DirsInv
<1> QED BY <1>4, <1>5, <1>6, <1>7 DEF StorageStep, OpenStep

THEOREM DirsInvariance == StorageSpec => []DirsInv
<1>1. StorageInit /\ DatabaseInv => DirsInv
  BY DEF StorageInit, DatabaseInv, Shape, DirsInv, HasRoot, InTx, Out
<1>2. DatabaseInv /\ DirsInv /\ [StorageNext]_storageVars /\ DatabaseInv' => DirsInv'
  <2> SUFFICES ASSUME DatabaseInv, DirsInv, [StorageNext]_storageVars, DatabaseInv'
               PROVE  DirsInv'
    OBVIOUS
  <2>1. CASE UNCHANGED storageVars
    BY <2>1 DEF storageVars, DirsInv, Repairable
  <2> QED BY <2>1, StepDirs DEF StorageNext
<1> QED BY <1>1, <1>2, DatabaseInvariance, PTL DEF StorageSpec

\* A process that is up finds the directory of the thumbnails, unless one of them was
\* stopped, or still is, between the two directories: for any number of processes.
THEOREM ThumbnailsHaveADirectory == StorageSpec => []ImagesDir
<1>1. DirsInv => ImagesDir
  BY DEF DirsInv, ImagesDir, Repairable, HasRoot
<1> QED BY <1>1, DirsInvariance, PTL
=============================================================================
