------------------------------ MODULE Startup ------------------------------
(***************************************************************************)
(* Pods of the service starting on one database (app/main.py:lifespan,      *)
(* app/db/startup.py): wait for the database, bring the schema to head in   *)
(* one Alembic transaction, seed the rulesets and rate tables that are      *)
(* absent, serve.  Several pods start together, and a pod or the database   *)
(* may fail between any two steps; a pod whose start fails is restarted.    *)
(*                                                                          *)
(* Bounds: MaxAttempts is 60 in the code; MaxFailures bounds the outages    *)
(* and killed pods.                                                         *)
(***************************************************************************)
EXTENDS Naturals, Sequences, FiniteSets

CONSTANTS
    Pods,
    MaxAttempts,
    MaxFailures

ASSUME StartupAssumption ==
    /\ MaxAttempts \in Nat \ {0}
    /\ MaxFailures \in Nat

VARIABLES
    run_db_migrations_on_startup,  \* the setting, one for all pods
    db,        \* "up" or "down"
    schema,    \* committed revision: 0 (no tables) .. HEAD
    rows,      \* committed rulesets and rate tables
    pc,        \* pc[p]: where pod p is in its start
    attempt,   \* attempt[p] of wait_for_db
    seen,      \* seen[p]: the revision Alembic read
    seeding,   \* seeding[p]: which of Seeds is at hand
    failures

vars == <<run_db_migrations_on_startup, db, schema, rows, pc, attempt, seen,
          seeding, failures>>

-----------------------------------------------------------------------------
HEAD == 4  \* 0001_initial, 0002_rating, 0003_bind, 0004_quote_manifest

Tables == {"appetite_ruleset", "rate_table"}

Row(table, version, by) == [table |-> table, version |-> version, by |-> by]

Seeds ==
    <<[table |-> "appetite_ruleset", version |-> 1],
      [table |-> "rate_table", version |-> 1],
      [table |-> "rate_table", version |-> 2]>>

\* The revision that makes the table and inserts its version 1.
revision_of == [appetite_ruleset |-> 1, rate_table |-> 2]

\* What the revisions after n insert.
migration_rows(n) ==
    {Row(table, 1, "migration") : table \in {t \in Tables : n < revision_of[t]}}

has(table, version) == \E r \in rows : r.table = table /\ r.version = version

InTransaction == {"upgrade", "migrated", "insert", "inserted"}

Seeding == {"look", "insert", "inserted"}

\* Slip: version 2 is looked for as version 1 is, by any row of its table.
SlipAnyVersion(k) == \E r \in rows : r.table = Seeds[k].table

\* Slip: the seed is inserted without a look.
SlipAlwaysSeed(k) == FALSE

\* seed_v1 asks for any version of its table, seed_v2 for version 2.
installed(k) ==
    IF k = 3 THEN has(Seeds[k].table, 2)
    ELSE \E r \in rows : r.table = Seeds[k].table

first_step == IF run_db_migrations_on_startup THEN "wait" ELSE "look"

-----------------------------------------------------------------------------
go(p, step) == pc' = [pc EXCEPT ![p] = step]

\* Slip: one attempt too many.
SlipOneMore(p) ==
    /\ pc[p] = "wait"
    /\ \/ db = "up" /\ go(p, "read") /\ UNCHANGED attempt
       \/ /\ db = "down" /\ attempt[p] <= MaxAttempts
          /\ attempt' = [attempt EXCEPT ![p] = @ + 1]
          /\ UNCHANGED pc
       \/ db = "down" /\ attempt[p] > MaxAttempts /\ go(p, "crashed")
            /\ UNCHANGED attempt
    /\ UNCHANGED <<run_db_migrations_on_startup, db, schema, rows, seen,
                   seeding, failures>>

\* SELECT 1 until it succeeds; the last failed attempt raises.
wait_for_db(p) ==
    /\ pc[p] = "wait"
    /\ \/ db = "up" /\ go(p, "read") /\ UNCHANGED attempt
       \/ /\ db = "down" /\ attempt[p] < MaxAttempts
          /\ attempt' = [attempt EXCEPT ![p] = @ + 1]
          /\ UNCHANGED pc
       \/ db = "down" /\ attempt[p] = MaxAttempts /\ go(p, "crashed")
            /\ UNCHANGED attempt
    /\ UNCHANGED <<run_db_migrations_on_startup, db, schema, rows, seen,
                   seeding, failures>>

\* Alembic reads the revision; at head there is nothing to run.
read_revision(p) ==
    /\ pc[p] = "read" /\ db = "up"
    /\ seen' = [seen EXCEPT ![p] = schema]
    /\ go(p, IF schema = HEAD THEN "look" ELSE "upgrade")
    /\ UNCHANGED <<run_db_migrations_on_startup, db, schema, rows, attempt,
                   seeding, failures>>

\* The DDL waits for a rival's uncommitted DDL on the same names, and fails
\* when the rival has committed it.
upgrade(p) ==
    /\ pc[p] = "upgrade"
    /\ \A q \in Pods : pc[q] # "migrated"
    /\ go(p, IF schema = seen[p] THEN "migrated" ELSE "crashed")
    /\ UNCHANGED <<run_db_migrations_on_startup, db, schema, rows, attempt, seen,
                   seeding, failures>>

\* Every revision still to run commits in one transaction.
commit_upgrade(p) ==
    /\ pc[p] = "migrated"
    /\ schema' = HEAD
    /\ rows' = rows \union migration_rows(seen[p])
    /\ go(p, "look")
    /\ UNCHANGED <<run_db_migrations_on_startup, db, attempt, seen, seeding,
                   failures>>

\* On to the next seed, or to serving after the last.
next_seed(p) ==
    /\ seeding' = [seeding EXCEPT ![p] = @ + 1]
    /\ go(p, IF seeding[p] = Len(Seeds) THEN "serve" ELSE "look")

\* seed_v1 and seed_v2 return early when their SELECT finds a row.
look(p) ==
    /\ pc[p] = "look" /\ db = "up"
    /\ IF installed(seeding[p]) THEN next_seed(p)
       ELSE go(p, "insert") /\ UNCHANGED seeding
    /\ UNCHANGED <<run_db_migrations_on_startup, db, schema, rows, attempt, seen,
                   failures>>

\* Slip: version is not unique in the schema.
SlipNotUnique(p) ==
    /\ pc[p] = "insert"
    /\ go(p, "inserted")
    /\ UNCHANGED <<run_db_migrations_on_startup, db, schema, rows, attempt, seen,
                   seeding, failures>>

\* The INSERT waits for a rival's uncommitted one of the same version, and a
\* committed one is an IntegrityError nobody catches.
create_version(p) ==
    LET seed == Seeds[seeding[p]]
    IN  /\ pc[p] = "insert"
        /\ \A q \in Pods : pc[q] = "inserted" => seeding[q] # seeding[p]
        /\ go(p, IF has(seed.table, seed.version) THEN "crashed" ELSE "inserted")
        /\ UNCHANGED <<run_db_migrations_on_startup, db, schema, rows, attempt,
                       seen, seeding, failures>>

commit_seed(p) ==
    LET seed == Seeds[seeding[p]]
    IN  /\ pc[p] = "inserted"
        /\ rows' = rows \union {Row(seed.table, seed.version, p)}
        /\ next_seed(p)
        /\ UNCHANGED <<run_db_migrations_on_startup, db, schema, attempt, seen,
                       failures>>

\* A connection refused outside wait_for_db fails the start.
OperationalError(p) ==
    /\ pc[p] \in {"read", "look"} /\ db = "down"
    /\ go(p, "crashed")
    /\ UNCHANGED <<run_db_migrations_on_startup, db, schema, rows, attempt, seen,
                   seeding, failures>>

-----------------------------------------------------------------------------
\* The surroundings: Kubernetes and the database cluster.
restart(p) ==
    /\ pc[p] = "crashed"
    /\ go(p, first_step)
    /\ attempt' = [attempt EXCEPT ![p] = 1]
    /\ seen' = [seen EXCEPT ![p] = 0]
    /\ seeding' = [seeding EXCEPT ![p] = 1]
    /\ UNCHANGED <<run_db_migrations_on_startup, db, schema, rows, failures>>

die(p) ==
    /\ failures < MaxFailures /\ pc[p] # "crashed"
    /\ failures' = failures + 1
    /\ go(p, "crashed")
    /\ UNCHANGED <<run_db_migrations_on_startup, db, schema, rows, attempt, seen,
                   seeding>>

\* Every open transaction is lost with its connection; a pod between two
\* transactions, or serving, connects anew.
outage ==
    /\ failures < MaxFailures /\ db = "up"
    /\ failures' = failures + 1
    /\ db' = "down"
    /\ pc' = [p \in Pods |-> IF pc[p] \in InTransaction THEN "crashed" ELSE pc[p]]
    /\ UNCHANGED <<run_db_migrations_on_startup, schema, rows, attempt, seen,
                   seeding>>

db_up ==
    /\ db = "down"
    /\ db' = "up"
    /\ UNCHANGED <<run_db_migrations_on_startup, schema, rows, pc, attempt, seen,
                   seeding, failures>>

-----------------------------------------------------------------------------
\* A database at any revision an earlier release left, with what its migrations
\* and its seeding inserted; or, migrations off, tables made from the models.
Init ==
    /\ db \in {"up", "down"}
    /\ \/ /\ run_db_migrations_on_startup = TRUE
          /\ schema \in 0 .. HEAD
          /\ \/ rows = migration_rows(0) \ migration_rows(schema)
             \/ /\ schema = HEAD
                /\ rows = migration_rows(0) \union {Row("rate_table", 2, "release")}
       \/ /\ run_db_migrations_on_startup = FALSE
          /\ schema = HEAD
          /\ rows = {}
    /\ pc = [p \in Pods |-> first_step]
    /\ attempt = [p \in Pods |-> 1]
    /\ seen = [p \in Pods |-> 0]
    /\ seeding = [p \in Pods |-> 1]
    /\ failures = 0

lifespan(p) ==
    \/ wait_for_db(p) \/ read_revision(p) \/ upgrade(p) \/ commit_upgrade(p)
    \/ look(p) \/ create_version(p) \/ commit_seed(p) \/ OperationalError(p)

Next ==
    \/ \E p \in Pods : lifespan(p) \/ restart(p) \/ die(p)
    \/ outage
    \/ db_up

Spec == Init /\ [][Next]_vars

\* A started process runs on, Kubernetes restarts a pod whose start failed, and
\* the database comes back.
FairSpec ==
    /\ Spec
    /\ \A p \in Pods : WF_vars(lifespan(p)) /\ WF_vars(restart(p))
    /\ WF_vars(db_up)

-----------------------------------------------------------------------------
Steps == {"wait", "read", "serve", "crashed"} \union InTransaction \union Seeding

TypeOK ==
    /\ run_db_migrations_on_startup \in BOOLEAN
    /\ db \in {"up", "down"}
    /\ schema \in 0 .. HEAD
    /\ \A r \in rows : r.table \in Tables /\ r.version \in 1 .. 2
    /\ pc \in [Pods -> Steps]
    /\ attempt \in [Pods -> 1 .. MaxAttempts]
    /\ seen \in [Pods -> 0 .. HEAD]
    /\ seeding \in [Pods -> 1 .. Len(Seeds) + 1]
    /\ failures \in 0 .. MaxFailures

\* A step is reached with what the steps before it did.
Reached ==
    /\ ~run_db_migrations_on_startup => schema = HEAD
    /\ \A p \in Pods :
        /\ pc[p] \in {"wait", "read", "upgrade", "migrated"} => seeding[p] = 1
        /\ pc[p] \in {"upgrade", "migrated"} => seen[p] < HEAD
        /\ pc[p] = "migrated" => schema = seen[p]
        /\ pc[p] \in Seeding => seeding[p] <= Len(Seeds)
        /\ pc[p] = "serve" => seeding[p] = Len(Seeds) + 1
        /\ pc[p] \in Seeding \union {"serve"} =>
                /\ schema = HEAD
                /\ \A k \in DOMAIN Seeds :
                        k < seeding[p] => has(Seeds[k].table, Seeds[k].version)

\* No row before its table, and no version 2 before version 1.
RowsInOrder ==
    \A r \in rows : revision_of[r.table] <= schema /\ has(r.table, 1)

\* One transaction at a time holds the schema, or a version to be inserted.
Exclusive ==
    /\ \A p, q \in Pods : pc[p] = "migrated" /\ pc[q] = "migrated" => p = q
    /\ \A p \in Pods : pc[p] = "inserted" =>
        /\ ~has(Seeds[seeding[p]].table, Seeds[seeding[p]].version)
        /\ \A q \in Pods : pc[q] = "inserted" /\ seeding[q] = seeding[p] => q = p

\* A pod that serves finds the whole schema, a ruleset to assess by, and both
\* rate tables, whichever pod migrated or seeded them and whoever failed: what
\* Workbench!Init takes for granted.
ServingIsReady ==
    \A p \in Pods : pc[p] = "serve" =>
        schema = HEAD /\ \A k \in DOMAIN Seeds : has(Seeds[k].table, Seeds[k].version)

\* Check-then-insert seeding by several pods, and by the migrations, never
\* leaves two rows of one version.
OneRowPerVersion ==
    \A r, s \in rows : r.table = s.table /\ r.version = s.version => r = s

StartupInv == TypeOK /\ Reached /\ RowsInOrder /\ Exclusive /\ OneRowPerVersion

\* Once failures stop, every pod comes to serve and stays: a start that loses a
\* race to migrate or to seed fails, and the next finds the work done.
EveryPodServes == <>[](\A p \in Pods : pc[p] = "serve")
=============================================================================
