--------------------------- MODULE StartupProofs ---------------------------
(***************************************************************************)
(* For any number of pods, attempts and failures: StartupInv is inductive,  *)
(* so a pod that serves is ready and no version is seeded twice.            *)
(***************************************************************************)
EXTENDS Startup, TLAPS

\* What the three seeds are.
LEMMA SeedFacts ==
    /\ Len(Seeds) = 3
    /\ DOMAIN Seeds = 1 .. 3
    /\ \A k \in 1 .. 3 : Seeds[k].table \in Tables /\ Seeds[k].version \in 1 .. 2
    /\ \A k \in 1 .. 3 : k # 3 => Seeds[k].version = 1
    /\ Seeds[3].table = "rate_table" /\ Seeds[3].version = 2
    /\ Seeds[2].table = "rate_table" /\ Seeds[1].table = "appetite_ruleset"
    /\ \A i, k \in 1 .. 3 :
        Seeds[i].table = Seeds[k].table /\ Seeds[i].version = Seeds[k].version => i = k
BY DEF Seeds, Tables

\* The tables are made by revisions before the last, and migrations insert
\* only versions 1 of tables that were not there.
LEMMA MigrationFacts ==
    /\ \A t \in Tables : revision_of[t] \in 1 .. HEAD
    /\ \A n : \A r : r \in migration_rows(n) <=>
        \E t \in Tables : n < revision_of[t] /\ r = Row(t, 1, "migration")
    /\ \A t, v, by : /\ Row(t, v, by).table = t
                     /\ Row(t, v, by).version = v
                     /\ Row(t, v, by).by = by
BY DEF migration_rows, revision_of, Tables, Row, HEAD

\* A seed that is looked for and found by its table is there by its version.
LEMMA InstalledIsThere ==
    ASSUME RowsInOrder, NEW k \in 1 .. 3, installed(k)
    PROVE  has(Seeds[k].table, Seeds[k].version)
<1>1. CASE k = 3
    BY <1>1, SeedFacts DEF installed
<1>2. CASE k # 3
    BY <1>2, SeedFacts DEF installed, RowsInOrder
<1> QED BY <1>1, <1>2

-----------------------------------------------------------------------------
\* The initial states satisfy the inductive invariant.
THEOREM StartupInitial == Init => StartupInv
<1> SUFFICES ASSUME Init PROVE StartupInv
    OBVIOUS
<1>1. \A r \in rows :
        /\ r.table \in Tables /\ r.version \in 1 .. 2
        /\ revision_of[r.table] <= schema
        /\ has(r.table, 1)
    <2> SUFFICES ASSUME NEW r \in rows
                 PROVE  /\ r.table \in Tables /\ r.version \in 1 .. 2
                        /\ revision_of[r.table] <= schema
                        /\ has(r.table, 1)
        OBVIOUS
    <2>1. CASE rows = migration_rows(0) \ migration_rows(schema)
        <3>1. PICK t \in Tables : r = Row(t, 1, "migration") /\ ~(schema < revision_of[t])
            BY <2>1, MigrationFacts
        <3>2. schema \in Nat
            BY DEF Init, HEAD
        <3> QED BY <3>1, <3>2, MigrationFacts DEF has, HEAD
    <2>2. CASE /\ schema = HEAD
               /\ rows = migration_rows(0) \union {Row("rate_table", 2, "release")}
        <3>1. \A t \in Tables : Row(t, 1, "migration") \in rows
            BY <2>2, MigrationFacts DEF HEAD
        <3>2. r.table \in Tables /\ r.version \in 1 .. 2
            BY <2>2, MigrationFacts DEF Tables
        <3>3. has(r.table, 1)
            BY <3>1, <3>2, MigrationFacts DEF has
        <3> QED BY <2>2, <3>2, <3>3, MigrationFacts DEF HEAD
    <2> QED BY <2>1, <2>2 DEF Init
<1>2. \A r, s \in rows : r.table = s.table /\ r.version = s.version => r = s
    BY MigrationFacts DEF Init, Row
<1>3. TypeOK
    <2>1. first_step \in Steps
        BY DEF first_step, Steps, InTransaction, Seeding
    <2>2. run_db_migrations_on_startup \in BOOLEAN
        BY Zenon DEF Init
    <2>3. schema \in 0 .. HEAD
        BY DEF Init, HEAD
    <2> QED
        BY <1>1, <2>1, <2>2, <2>3, StartupAssumption, SeedFacts DEF Init, TypeOK, HEAD
<1>4. Reached
    BY SeedFacts DEF Init, Reached, HEAD, InTransaction, Seeding, first_step
<1>5. Exclusive
    BY DEF Init, Exclusive, first_step
<1> QED BY <1>1, <1>2, <1>3, <1>4, <1>5 DEF StartupInv, RowsInOrder, OneRowPerVersion

-----------------------------------------------------------------------------
\* Rows, schema and setting alone decide what the tables satisfy.
LEMMA TablesUntouched ==
    ASSUME StartupInv, UNCHANGED <<run_db_migrations_on_startup, schema, rows>>
    PROVE  /\ RowsInOrder' /\ OneRowPerVersion'
           /\ ~run_db_migrations_on_startup' => schema' = HEAD
           /\ \A t, v : has(t, v)' = has(t, v)
BY DEF StartupInv, RowsInOrder, OneRowPerVersion, Reached, has

\* Pod p moves to a step whose entry conditions hold, and only pods change.
Moves(p, step) ==
    /\ UNCHANGED <<run_db_migrations_on_startup, schema, rows>>
    /\ seen' \in [Pods -> 0 .. HEAD]
    /\ seeding' \in [Pods -> 1 .. Len(Seeds) + 1]
    /\ attempt' \in [Pods -> 1 .. MaxAttempts]
    /\ db' \in {"up", "down"} /\ failures' \in 0 .. MaxFailures
    /\ pc' = [pc EXCEPT ![p] = step]
    /\ \A q \in Pods \ {p} : seen'[q] = seen[q] /\ seeding'[q] = seeding[q]
    /\ step \in {"wait", "read", "upgrade", "migrated"} => seeding'[p] = 1
    /\ step \in {"upgrade", "migrated"} => seen'[p] < HEAD
    /\ step = "migrated" =>
            schema = seen'[p] /\ \A q \in Pods : pc[q] # "migrated"
    /\ step \in Seeding => seeding'[p] <= Len(Seeds)
    /\ step = "serve" => seeding'[p] = Len(Seeds) + 1
    /\ step \in Seeding \union {"serve"} =>
            /\ schema = HEAD
            /\ \A k \in DOMAIN Seeds :
                    k < seeding'[p] => has(Seeds[k].table, Seeds[k].version)
    /\ step = "inserted" =>
            /\ ~has(Seeds[seeding'[p]].table, Seeds[seeding'[p]].version)
            /\ \A q \in Pods : pc[q] = "inserted" => seeding[q] # seeding'[p]

\* Such a move keeps the invariant.
LEMMA PodMoves ==
    ASSUME StartupInv, NEW p \in Pods, NEW step \in Steps, Moves(p, step)
    PROVE  StartupInv'
<1> USE DEF Moves
<1>1. TypeOK'
    BY Zenon DEF StartupInv, TypeOK
<1>2. Reached'
    BY TablesUntouched DEF StartupInv, TypeOK, Reached
<1>3. Exclusive'
    <2>1. \A q \in Pods : pc'[q] = IF q = p THEN step ELSE pc[q]
        BY DEF StartupInv, TypeOK
    <2>2. ASSUME NEW q \in Pods, NEW r \in Pods, pc'[q] = "migrated", pc'[r] = "migrated"
          PROVE  q = r
        BY <2>1, <2>2 DEF StartupInv, Exclusive
    <2>3. ASSUME NEW q \in Pods, pc'[q] = "inserted"
          PROVE  ~has(Seeds[seeding'[q]].table, Seeds[seeding'[q]].version)
        <3>1. CASE q = p
            BY Zenon, <2>1, <2>3, <3>1
        <3>2. CASE q # p
            <4>1. pc[q] = "inserted" /\ seeding'[q] = seeding[q]
                BY <2>1, <2>3, <3>2
            <4>2. ~has(Seeds[seeding[q]].table, Seeds[seeding[q]].version)
                BY Zenon, <4>1 DEF StartupInv, Exclusive
            <4> QED BY Zenon, <4>1, <4>2
        <3> QED BY <3>1, <3>2
    <2>4. ASSUME NEW q \in Pods, NEW r \in Pods, pc'[q] = "inserted",
                 pc'[r] = "inserted", seeding'[r] = seeding'[q]
          PROVE  r = q
        <3>1. \A o \in Pods : o # p /\ pc'[o] = "inserted" =>
                pc[o] = "inserted" /\ seeding'[o] = seeding[o]
            BY <2>1
        <3>2. \A o \in Pods : o # p /\ pc'[o] = "inserted" /\ pc'[p] = "inserted" =>
                seeding'[o] # seeding'[p]
            BY <2>1, <3>1
        <3>3. \A o, u \in Pods :
                pc[o] = "inserted" /\ pc[u] = "inserted" /\ seeding[o] = seeding[u] => o = u
            BY Zenon DEF StartupInv, Exclusive
        <3>4. CASE r # p /\ q # p
            <4>1. seeding[q] = seeding[r]
                BY <2>4, <3>1, <3>4
            <4> QED BY <2>4, <3>1, <3>3, <3>4, <4>1
        <3>5. CASE r = p /\ q # p
            BY <2>4, <3>2, <3>5
        <3>6. CASE r # p /\ q = p
            BY <2>4, <3>2, <3>6
        <3> QED BY <3>4, <3>5, <3>6
    <2> QED BY <2>2, <2>3, <2>4, TablesUntouched DEF Exclusive
<1> QED BY <1>1, <1>2, <1>3, TablesUntouched DEF StartupInv
\* No step of a pod, of Kubernetes or of the database leaves the inductive
\* invariant.
THEOREM StartupStep == StartupInv /\ [Next]_vars => StartupInv'
<1> SUFFICES ASSUME StartupInv, [Next]_vars PROVE StartupInv'
    OBVIOUS
<1> USE SeedFacts, StartupAssumption
<1>1. ASSUME NEW p \in Pods, wait_for_db(p) PROVE StartupInv'
    <2>1. PICK step \in {"wait", "read", "crashed"} : pc' = [pc EXCEPT ![p] = step]
        BY <1>1 DEF wait_for_db, go, StartupInv, TypeOK
    <2>2. attempt' \in [Pods -> 1 .. MaxAttempts]
        BY <1>1 DEF wait_for_db, StartupInv, TypeOK
    <2>3. seeding[p] = 1
        BY <1>1 DEF wait_for_db, StartupInv, Reached
    <2>4. Moves(p, step)
        BY <1>1, <2>1, <2>2, <2>3 DEF Moves, wait_for_db, StartupInv, TypeOK, Seeding
    <2> QED BY <2>4, PodMoves DEF Steps
<1>2. ASSUME NEW p \in Pods, read_revision(p) PROVE StartupInv'
    <2>1. PICK step \in {"look", "upgrade"} :
            /\ pc' = [pc EXCEPT ![p] = step]
            /\ step = "look" => schema = HEAD
            /\ step = "upgrade" => schema # HEAD
        BY <1>2 DEF read_revision, go
    <2>2. /\ seen' = [seen EXCEPT ![p] = schema]
          /\ seen' \in [Pods -> 0 .. HEAD]
          /\ schema # HEAD => schema < HEAD
        BY <1>2 DEF read_revision, StartupInv, TypeOK, HEAD
    <2>3. seeding[p] = 1
        BY <1>2 DEF read_revision, StartupInv, Reached
    <2>4. Moves(p, step)
        BY <1>2, <2>1, <2>2, <2>3 DEF Moves, read_revision, StartupInv, TypeOK, Seeding
    <2> QED BY <2>4, PodMoves DEF Steps, InTransaction, Seeding
<1>3. ASSUME NEW p \in Pods, upgrade(p) PROVE StartupInv'
    <2>1. PICK step \in {"migrated", "crashed"} :
            /\ pc' = [pc EXCEPT ![p] = step]
            /\ step = "migrated" => schema = seen[p]
        BY <1>3 DEF upgrade, go
    <2>2. seeding[p] = 1 /\ seen[p] < HEAD
        BY <1>3 DEF upgrade, StartupInv, Reached
    <2>3. Moves(p, step)
        BY <1>3, <2>1, <2>2 DEF Moves, upgrade, StartupInv, TypeOK, Seeding
    <2> QED BY <2>3, PodMoves DEF Steps, InTransaction
<1>4. ASSUME NEW p \in Pods, look(p) PROVE StartupInv'
    <2>1. /\ schema = HEAD /\ seeding[p] \in 1 .. 3
          /\ \A k \in 1 .. 3 : k < seeding[p] => has(Seeds[k].table, Seeds[k].version)
        BY <1>4 DEF look, StartupInv, Reached, TypeOK, Seeding
    <2>2. CASE installed(seeding[p])
        <3>1. has(Seeds[seeding[p]].table, Seeds[seeding[p]].version)
            BY <2>1, <2>2, InstalledIsThere DEF StartupInv
        <3>2. \A k \in 1 .. 3 :
                k < seeding[p] + 1 => has(Seeds[k].table, Seeds[k].version)
            <4> SUFFICES ASSUME NEW k \in 1 .. 3, k < seeding[p] + 1
                         PROVE  has(Seeds[k].table, Seeds[k].version)
                OBVIOUS
            <4>1. k < seeding[p] \/ k = seeding[p]
                BY <2>1
            <4> QED BY <2>1, <3>1, <4>1
        <3>3. /\ seeding' = [seeding EXCEPT ![p] = seeding[p] + 1]
              /\ seeding' \in [Pods -> 1 .. Len(Seeds) + 1]
              /\ seeding'[p] = seeding[p] + 1
            BY <1>4, <2>1, <2>2 DEF look, next_seed, StartupInv, TypeOK
        <3>4. PICK step \in {"look", "serve"} :
                /\ pc' = [pc EXCEPT ![p] = step]
                /\ step = "serve" => seeding[p] = 3
                /\ step = "look" => seeding[p] < 3
            BY <1>4, <2>1, <2>2 DEF look, next_seed, go
        <3>5. Moves(p, step)
            <4>1. \A q \in Pods \ {p} : seeding'[q] = seeding[q]
                BY <3>3 DEF StartupInv, TypeOK
            <4>2. \A k \in DOMAIN Seeds :
                    k < seeding'[p] => has(Seeds[k].table, Seeds[k].version)
                BY <3>2, <3>3
            <4> QED
                BY <1>4, <2>1, <3>3, <3>4, <4>1, <4>2
                DEF Moves, look, StartupInv, TypeOK, Seeding
        <3> QED BY <3>4, <3>5, PodMoves DEF Steps, Seeding
    <2>3. CASE ~installed(seeding[p])
        <3>1. Moves(p, "insert")
            BY <1>4, <2>1, <2>3 DEF Moves, look, go, StartupInv, TypeOK, Seeding
        <3> QED BY <3>1, PodMoves DEF Steps, Seeding
    <2> QED BY <2>2, <2>3
<1>5. ASSUME NEW p \in Pods, create_version(p) PROVE StartupInv'
    <2>1. /\ schema = HEAD /\ seeding[p] \in 1 .. 3
          /\ \A k \in 1 .. 3 : k < seeding[p] => has(Seeds[k].table, Seeds[k].version)
        BY <1>5 DEF create_version, StartupInv, Reached, TypeOK, Seeding
    <2>2. PICK step \in {"inserted", "crashed"} :
            /\ pc' = [pc EXCEPT ![p] = step]
            /\ step = "inserted" =>
                ~has(Seeds[seeding[p]].table, Seeds[seeding[p]].version)
        BY <1>5 DEF create_version, go
    <2>3. Moves(p, step)
        <3>1. \A q \in Pods : pc[q] = "inserted" => seeding[q] # seeding[p]
            BY <1>5 DEF create_version
        <3>2. /\ UNCHANGED <<run_db_migrations_on_startup, schema, rows, seen, seeding>>
              /\ UNCHANGED <<attempt, db, failures>>
            BY <1>5 DEF create_version
        <3> QED
            BY <2>1, <2>2, <3>1, <3>2 DEF Moves, StartupInv, TypeOK, Seeding
    <2> QED BY <2>2, <2>3, PodMoves DEF Steps, Seeding, InTransaction
<1>6. ASSUME NEW p \in Pods, OperationalError(p) PROVE StartupInv'
    <2>1. Moves(p, "crashed")
        BY <1>6 DEF Moves, OperationalError, go, StartupInv, TypeOK, Seeding
    <2> QED BY <2>1, PodMoves DEF Steps
<1>7. ASSUME NEW p \in Pods, die(p) PROVE StartupInv'
    <2>1. failures' \in 0 .. MaxFailures
        BY <1>7 DEF die, StartupInv, TypeOK
    <2>2. Moves(p, "crashed")
        BY <1>7, <2>1 DEF Moves, die, go, StartupInv, TypeOK, Seeding
    <2> QED BY <2>2, PodMoves DEF Steps
<1>8. ASSUME NEW p \in Pods, restart(p) PROVE StartupInv'
    <2>1. first_step \in {"wait", "look"} /\ (first_step = "look" => schema = HEAD)
        BY DEF first_step, StartupInv, Reached
    <2>2. /\ seen' \in [Pods -> 0 .. HEAD]
          /\ seeding' \in [Pods -> 1 .. Len(Seeds) + 1]
          /\ attempt' \in [Pods -> 1 .. MaxAttempts]
          /\ seeding'[p] = 1
        BY <1>8 DEF restart, StartupInv, TypeOK, HEAD
    <2>3. /\ pc' = [pc EXCEPT ![p] = first_step]
          /\ \A q \in Pods \ {p} : seen'[q] = seen[q] /\ seeding'[q] = seeding[q]
          /\ UNCHANGED <<run_db_migrations_on_startup, db, schema, rows, failures>>
        BY <1>8 DEF restart, go, StartupInv, TypeOK
    <2>4. Moves(p, first_step)
        BY <2>1, <2>2, <2>3 DEF Moves, StartupInv, TypeOK, Seeding
    <2> QED BY <2>1, <2>4, PodMoves DEF Steps, Seeding
<1>9. ASSUME NEW p \in Pods, commit_upgrade(p) PROVE StartupInv'
    <2>1. /\ pc[p] = "migrated" /\ seeding[p] = 1
          /\ seen[p] = schema /\ schema \in 0 .. HEAD /\ schema < HEAD
        BY <1>9 DEF commit_upgrade, StartupInv, Reached, TypeOK
    <2>2. /\ schema' = HEAD
          /\ rows' = rows \union migration_rows(schema)
          /\ pc' = [pc EXCEPT ![p] = "look"]
          /\ UNCHANGED <<run_db_migrations_on_startup, db, attempt, seen, seeding, failures>>
        BY <1>9, <2>1 DEF commit_upgrade, go
    <2>3. \A q \in Pods : pc[q] \notin Seeding \union {"serve"}
        BY <2>1 DEF StartupInv, Reached, HEAD
    <2>4. \A q \in Pods \ {p} : pc[q] # "migrated"
        BY <2>1 DEF StartupInv, Exclusive
    <2>5. \A q \in Pods : pc'[q] = IF q = p THEN "look" ELSE pc[q]
        BY <2>2 DEF StartupInv, TypeOK
    <2>6. \A r \in migration_rows(schema) :
            /\ r.table \in Tables /\ r.version = 1 /\ r = Row(r.table, 1, "migration")
            /\ schema < revision_of[r.table] /\ revision_of[r.table] <= HEAD
        BY <2>1, MigrationFacts DEF HEAD
    <2>7. \A r \in rows : r.table \in Tables /\ r.version \in 1 .. 2
                        /\ revision_of[r.table] \in 1 .. HEAD
                        /\ revision_of[r.table] <= schema
        BY MigrationFacts DEF StartupInv, TypeOK, RowsInOrder
    <2>8. TypeOK'
        <3>1. pc' \in [Pods -> Steps]
            BY <2>2 DEF StartupInv, TypeOK, Steps, Seeding
        <3>2. \A r \in rows' : r.table \in Tables /\ r.version \in 1 .. 2
            BY <2>2, <2>6, <2>7
        <3> QED BY <2>2, <3>1, <3>2 DEF StartupInv, TypeOK, HEAD
    <2>9. Reached'
        BY <2>1, <2>2, <2>3, <2>4, <2>5 DEF StartupInv, Reached, Seeding
    <2>10. RowsInOrder'
        BY <2>2, <2>6, <2>7, <2>1 DEF StartupInv, RowsInOrder, has, HEAD
    <2>11. Exclusive'
        BY <2>3, <2>4, <2>5 DEF Exclusive, Seeding
    <2>12. OneRowPerVersion'
        <3> SUFFICES ASSUME NEW r \in rows', NEW s \in rows',
                            r.table = s.table, r.version = s.version
                     PROVE  r = s
            BY DEF OneRowPerVersion
        <3>1. CASE r \in rows /\ s \in rows
            BY <3>1 DEF StartupInv, OneRowPerVersion
        <3>2. CASE r \in migration_rows(schema) /\ s \in migration_rows(schema)
            BY <2>6, <3>2
        <3>3. CASE \/ r \in rows /\ s \in migration_rows(schema)
                   \/ s \in rows /\ r \in migration_rows(schema)
            BY <2>1, <2>6, <2>7, <3>3
        <3> QED BY <2>2, <3>1, <3>2, <3>3
    <2> QED BY <2>8, <2>9, <2>10, <2>11, <2>12 DEF StartupInv
<1>10. ASSUME NEW p \in Pods, commit_seed(p) PROVE StartupInv'
    <2> DEFINE seed == Seeds[seeding[p]]
               row == Row(seed.table, seed.version, p)
    <2>1. /\ pc[p] = "inserted" /\ schema = HEAD /\ seeding[p] \in 1 .. 3
          /\ \A k \in 1 .. 3 : k < seeding[p] => has(Seeds[k].table, Seeds[k].version)
        BY <1>10 DEF commit_seed, StartupInv, Reached, TypeOK, Seeding
    <2>2. ~has(seed.table, seed.version)
        BY <2>1 DEF StartupInv, Exclusive
    <2>3. PICK step \in {"look", "serve"} :
            /\ pc' = [pc EXCEPT ![p] = step]
            /\ step = "serve" => seeding[p] = 3
            /\ step = "look" => seeding[p] < 3
        <3>1. next_seed(p)
            BY <1>10 DEF commit_seed
        <3>2. pc' = [pc EXCEPT ![p] = IF seeding[p] = 3 THEN "serve" ELSE "look"]
            BY <3>1 DEF next_seed, go
        <3>3. CASE seeding[p] = 3
            BY <3>2, <3>3
        <3>4. CASE seeding[p] < 3
            BY <3>2, <3>4
        <3> QED BY <2>1, <3>3, <3>4
    <2>4. /\ rows' = rows \union {row}
          /\ seeding' = [seeding EXCEPT ![p] = seeding[p] + 1]
          /\ UNCHANGED <<run_db_migrations_on_startup, db, schema, attempt, seen, failures>>
        BY <1>10 DEF commit_seed, next_seed
    <2>5. /\ row.table = seed.table /\ row.version = seed.version
          /\ seed.table \in Tables /\ seed.version \in 1 .. 2
        BY <2>1, MigrationFacts
    <2>6. \A q \in Pods :
            /\ pc'[q] = IF q = p THEN step ELSE pc[q]
            /\ seeding'[q] = IF q = p THEN seeding[p] + 1 ELSE seeding[q]
        BY <2>3, <2>4 DEF StartupInv, TypeOK
    <2>7. \A t, v : has(t, v)' <=> has(t, v) \/ (t = seed.table /\ v = seed.version)
        BY <2>4, <2>5 DEF has
    <2> HIDE DEF seed, row
    <2>8. TypeOK'
        <3>1. pc' \in [Pods -> Steps] /\ seeding' \in [Pods -> 1 .. Len(Seeds) + 1]
            BY <2>1, <2>3, <2>4 DEF StartupInv, TypeOK, Steps, Seeding
        <3>2. \A r \in rows' : r.table \in Tables /\ r.version \in 1 .. 2
            BY <2>4, <2>5 DEF StartupInv, TypeOK
        <3> QED BY <2>4, <3>1, <3>2 DEF StartupInv, TypeOK
    <2>9. Reached'
        <3>1. \A k \in 1 .. 3 : k < seeding[p] + 1 => has(Seeds[k].table, Seeds[k].version)'
            BY <2>1, <2>7 DEF seed
        <3>2. \A k \in 1 .. 3 : has(Seeds[k].table, Seeds[k].version)
                                => has(Seeds[k].table, Seeds[k].version)'
            BY <2>7
        <3> QED
            BY <2>1, <2>3, <2>4, <2>6, <3>1, <3>2 DEF StartupInv, Reached, Seeding
    <2>10. RowsInOrder'
        <3>1. \A r \in rows' : r.table \in Tables /\ revision_of[r.table] <= schema
            BY <2>1, <2>4, <2>5, MigrationFacts DEF StartupInv, TypeOK, RowsInOrder, HEAD
        <3>2. \A r \in rows : has(r.table, 1)'
            BY <2>7 DEF StartupInv, RowsInOrder
        <3>3. \A t : t = row.table => has(t, 1)'
            <4>1. has(seed.table, 1) \/ seed.version = 1
                BY <2>1 DEF seed
            <4> QED BY <2>5, <2>7, <4>1
        <3> QED BY <2>4, <3>1, <3>2, <3>3 DEF RowsInOrder
    <2>11. Exclusive'
        <3>1. \A q \in Pods : pc'[q] = "inserted" =>
                /\ q # p /\ pc[q] = "inserted" /\ seeding'[q] = seeding[q]
                /\ seeding[q] \in 1 .. 3 /\ seeding[q] # seeding[p]
            BY <2>1, <2>6 DEF StartupInv, TypeOK, Reached, Exclusive, Seeding
        <3>2. \A q \in Pods : pc'[q] = "inserted" =>
                ~has(Seeds[seeding[q]].table, Seeds[seeding[q]].version)'
            BY <2>1, <2>7, <3>1 DEF StartupInv, Exclusive, seed
        <3> QED BY <2>6, <3>1, <3>2 DEF StartupInv, Exclusive
    <2>12. OneRowPerVersion'
        BY <2>2, <2>4, <2>5 DEF StartupInv, OneRowPerVersion, has
    <2> QED BY <2>8, <2>9, <2>10, <2>11, <2>12 DEF StartupInv
<1>11. CASE outage
    <2>1. \A q \in Pods : pc'[q] = pc[q] \/ pc'[q] = "crashed"
        BY <1>11 DEF outage
    <2>2. TypeOK'
        <3>1. pc' \in [Pods -> Steps]
            BY <1>11 DEF outage, StartupInv, TypeOK, Steps
        <3>2. failures' \in 0 .. MaxFailures /\ db' \in {"up", "down"}
            BY <1>11 DEF outage, StartupInv, TypeOK
        <3> QED BY <1>11, <3>1, <3>2 DEF outage, StartupInv, TypeOK
    <2>3. Reached'
        BY <1>11, <2>1, TablesUntouched DEF outage, StartupInv, Reached, Seeding
    <2>4. Exclusive'
        BY <1>11, <2>1, TablesUntouched DEF outage, StartupInv, Exclusive
    <2> QED BY <1>11, <2>2, <2>3, <2>4, TablesUntouched DEF outage, StartupInv
<1>12. CASE db_up
    BY <1>12 DEF db_up, StartupInv, TypeOK, Reached, RowsInOrder, Exclusive,
                 OneRowPerVersion, has
<1>13. CASE UNCHANGED vars
    BY <1>13 DEF vars, StartupInv, TypeOK, Reached, RowsInOrder, Exclusive,
                 OneRowPerVersion, has
<1> QED
    BY <1>1, <1>2, <1>3, <1>4, <1>5, <1>6, <1>7, <1>8, <1>9, <1>10, <1>11, <1>12,
       <1>13 DEF Next, lifespan

-----------------------------------------------------------------------------
\* Whatever fails and whoever races, every start keeps the inductive invariant.
THEOREM StartupInvariance == Spec => []StartupInv
BY StartupInitial, StartupStep, PTL DEF Spec

\* Every pod that serves finds the head schema, the ruleset and both rate tables.
THEOREM PodsServeReady == Spec => []ServingIsReady
<1>1. StartupInv => ServingIsReady
    BY SeedFacts DEF StartupInv, Reached, ServingIsReady
<1> QED BY <1>1, StartupInvariance, PTL

\* The migrations and any number of racing seeds leave one row per version.
THEOREM SeedsAreUnique == Spec => []OneRowPerVersion
<1>1. StartupInv => OneRowPerVersion
    BY DEF StartupInv
<1> QED BY <1>1, StartupInvariance, PTL
=============================================================================
