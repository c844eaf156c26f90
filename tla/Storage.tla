------------------------------ MODULE Storage ------------------------------
(***************************************************************************)
(* The directory and the database of package db: Open and Close of         *)
(* db/init.go and the migrations of db/migrations.go, for any number of    *)
(* processes of the same user.  A migration and the update of the version  *)
(* are one transaction: its effects are in proc[p].tx until it commits.    *)
(* SQLite lets one transaction write at a time; who waits too long for it  *)
(* gets an error, as any statement may.                                    *)
(***************************************************************************)
EXTENDS Naturals, Sequences

CONSTANTS
    Processes,  \* processes that open the storage
    Row         \* rows of the tables: pairs of a table and a key

VARIABLES
    dirs,  \* directories that exist, of "root" and its "images"
    db,    \* committed: value of 'version' (0: no table main), schema, rows
    proc,  \* proc[p]: program point of Open, the i of runMigrations, its tx
    torn   \* history: a process was stopped inside of MkdirAll, before "images"

storageVars == <<dirs, db, proc, torn>>

-----------------------------------------------------------------------------
(* The migrations, with the tables and columns they create, need and clear. *)
migrations == <<
    [create |-> {"main", "images", "image_tags"}, needs |-> {}, clear |-> {}],
    [create |-> {"captchas"}, needs |-> {}, clear |-> {}],
    [create |-> {"images.rating"}, needs |-> {"images", "image_tags"},
     clear |-> {"images", "image_tags"}],
    [create |-> {"pending_images"}, needs |-> {}, clear |-> {}]>>

version == Len(migrations)

\* What the first n migrations create, and the rows that has room for.
Created(n) == UNION {migrations[k].create : k \in 1 .. n}
RowsOf(tables) == {r \in Row : r[1] \in tables}

Database ==
    [val : 0 .. version, schema : SUBSET Created(version), rows : SUBSET Row]

NoTx == [val |-> 0, schema |-> {}, rows |-> {}]
Out == [at |-> "off", i |-> 0, tx |-> NoTx]
InTx == {"version", "commit"}

StorageTypeOK ==
    /\ dirs \subseteq {"root", "images"}
    /\ db \in Database
    /\ proc \in [Processes ->
            [at : {"off", "mkroot", "mkimages", "read", "loop", "up",
                   "failed"} \cup InTx,
             i : 0 .. version, tx : Database]]
    /\ torn \in BOOLEAN

\* Any release of the program has left its database, or none has.
StorageInit ==
    /\ \E n \in 0 .. version : \E rows \in SUBSET RowsOf(Created(n)) :
        /\ db = [val |-> n, schema |-> Created(n), rows |-> rows]
        /\ dirs = IF n = 0 THEN {} ELSE {"root", "images"}
    /\ proc = [p \in Processes |-> Out]
    /\ torn = FALSE

-----------------------------------------------------------------------------
GoTo(p, point) == proc' = [proc EXCEPT ![p].at = point]
Alone(p) == \A q \in Processes \ {p} : proc[q].at \notin InTx

\* Only the root is looked at.  If that fails, it is as if the next call did.
Start(p) ==
    /\ proc[p].at = "off"
    /\ GoTo(p, IF "root" \in dirs THEN "read" ELSE "mkroot")
    /\ UNCHANGED <<dirs, db, torn>>

\* MkdirAll makes one directory after the other, unless they exist.
MkRootOnly(p) ==                 \* mutant: Mkdir(common.RootDir)
    /\ proc[p].at = "mkroot"
    /\ dirs' = dirs \cup {"root"}
    /\ GoTo(p, "read")
    /\ UNCHANGED <<db, torn>>

MkRoot(p) ==
    /\ proc[p].at = "mkroot"
    /\ dirs' = dirs \cup {"root"}
    /\ GoTo(p, "mkimages")
    /\ UNCHANGED <<db, torn>>

MkImages(p) ==
    /\ proc[p].at = "mkimages"
    /\ dirs' = dirs \cup {"images"} /\ torn' = FALSE
    /\ GoTo(p, "read")
    /\ UNCHANGED db

\* The loop of runMigrations is at i; Open returns at its end.
Loop(i) == IF i < version THEN "loop" ELSE "up"

\* "no such table" leaves currentVersion at 0.
ReadVersion(p) ==
    /\ proc[p].at = "read"
    /\ proc' = [proc EXCEPT ![p].at = Loop(db.val), ![p].i = db.val]
    /\ UNCHANGED <<dirs, db, torn>>

\* A turn of the loop: the statements of a migration.  Those that create
\* something fail if it is there already, or if another process writes.
RunMigrationUnchecked(p) ==      \* mutant: the errors of execAll are dropped
    LET i == proc[p].i
        m == migrations[i + 1]
    IN  /\ proc[p].at = "loop"
        /\ Alone(p)
        /\ proc' = [proc EXCEPT ![p].at = "version",
                ![p].tx = [val |-> IF i = 0 THEN 1 ELSE db.val,
                           schema |-> db.schema \cup m.create,
                           rows |-> db.rows \ RowsOf(m.clear)]]
        /\ UNCHANGED <<dirs, db, torn>>

RunMigration(p) ==
    LET i == proc[p].i
        m == migrations[i + 1]
    IN  /\ proc[p].at = "loop"
        /\ Alone(p)
        /\ m.needs \subseteq db.schema /\ m.create \cap db.schema = {}
        /\ proc' = [proc EXCEPT ![p].at = "version",
                ![p].tx = [val |-> IF i = 0 THEN 1 ELSE db.val,
                           schema |-> db.schema \cup m.create,
                           rows |-> db.rows \ RowsOf(m.clear)]]
        /\ UNCHANGED <<dirs, db, torn>>

UpdateVersionOutside(p) ==       \* mutant: the update does not run with tx
    /\ proc[p].at = "version"
    /\ proc' = [proc EXCEPT ![p].at = "commit", ![p].tx.val = proc[p].i + 1]
    /\ db' = [db EXCEPT !.val = proc[p].i + 1]
    /\ UNCHANGED <<dirs, torn>>

UpdateVersion(p) ==
    /\ proc[p].at = "version"
    /\ proc' = [proc EXCEPT ![p].at = "commit", ![p].tx.val = proc[p].i + 1]
    /\ UNCHANGED <<dirs, db, torn>>

Commit(p) ==
    /\ proc[p].at = "commit"
    /\ db' = proc[p].tx
    /\ proc' = [proc EXCEPT ![p].at = Loop(proc[p].i + 1), ![p].i = @ + 1,
                            ![p].tx = NoTx]
    /\ UNCHANGED <<dirs, torn>>

Tears(p) == torn \/ (proc[p].at = "mkimages" /\ "images" \notin dirs)

\* Any call of Open may fail: a transaction is rolled back, and the error returned.
Fails(p) ==
    /\ proc[p].at \notin {"off", "up", "failed"}
    /\ proc' = [proc EXCEPT ![p] = [Out EXCEPT !.at = "failed"]]
    /\ torn' = Tears(p)
    /\ UNCHANGED <<dirs, db>>

OpenStep(p) ==
    \/ MkRoot(p) \/ MkImages(p) \/ ReadVersion(p)
    \/ RunMigration(p) \/ UpdateVersion(p) \/ Commit(p) \/ Fails(p)

-----------------------------------------------------------------------------
\* A statement of another file of package db adds a row.
Write(p, r) ==
    /\ proc[p].at = "up" /\ Alone(p)
    /\ r[1] \in db.schema
    /\ db' = [db EXCEPT !.rows = @ \cup {r}]
    /\ UNCHANGED <<dirs, proc, torn>>

\* Close.
Stop(p) ==
    /\ proc[p].at = "up"
    /\ proc' = [proc EXCEPT ![p] = Out]
    /\ UNCHANGED <<dirs, db, torn>>

\* The process ends, in whatever it does.
Crash(p) ==
    /\ proc[p].at # "off"
    /\ proc' = [proc EXCEPT ![p] = Out]
    /\ torn' = Tears(p)
    /\ UNCHANGED <<dirs, db>>

StorageStep(p) ==
    \/ Start(p) \/ OpenStep(p) \/ Stop(p) \/ Crash(p)
    \/ \E r \in Row : Write(p, r)

StorageNext == \E p \in Processes : StorageStep(p)

StorageSpec == StorageInit /\ [][StorageNext]_storageVars

-----------------------------------------------------------------------------
\* The version number and the schema agree at any time, whoever dies or opens the
\* database beside, and a process that is up has the database of its release.
SchemaMatches ==
    /\ db.schema = Created(db.val)
    /\ \A p \in Processes : proc[p].at = "up" => db.val = version

\* A process that is up has a directory to write thumbnails to, unless another one
\* was stopped inside of MkdirAll, or is still inside of it: Open does not look again.
ImagesDir ==
    (\E p \in Processes : proc[p].at = "up") =>
        \/ "images" \in dirs
        \/ torn \/ \E q \in Processes : proc[q].at = "mkimages"

\* Directory, transactions and crashes implement a database that goes up release by
\* release: no migration is skipped or repeated, and no rows are lost to one.
Release == INSTANCE Releases WITH
    release <- db.val,
    rows <- db.rows,
    Last <- version,
    Cleared <- [n \in 0 .. version - 1 |-> RowsOf(migrations[n + 1].clear)],
    Held <- [n \in 0 .. version |-> RowsOf(Created(n))]

ImplementsReleases == Release!Spec
=============================================================================
