---------------------------- MODULE DatabaseProofs ----------------------------
(***************************************************************************)
(* The records and their rows, for any set of downloads, any numbers and   *)
(* any bound on refused writes: types, migrations that take effect once,   *)
(* restarts that give back what was saved, and records that tell how their *)
(* download ended.                                                         *)
(***************************************************************************)
EXTENDS Database, TLAPS

Columns == {r \in Records : Fits(r)}

(***************************************************************************)
(* What the helpers return.                                                *)
(***************************************************************************)
LEMMA TotalCut ==
  ASSUME NEW r \in Records
  PROVE  {n \in r.total : n <= MaxInt} \in {{}} \cup {{n} : n \in Bytes}
<1>1. CASE r.total = {}
  BY <1>1
<1>2. CASE r.total # {}
  <2>1. PICK n \in Bytes : r.total = {n}
    BY <1>2 DEF Records
  <2>2. {k \in r.total : k <= MaxInt} = {n} \/ {k \in r.total : k <= MaxInt} = {}
    BY <2>1
  <2> QED
    BY <2>2
<1> QED
  BY <1>1, <1>2

LEMMA DoneCut ==
  ASSUME NEW r \in Records
  PROVE  /\ (IF r.done <= MaxInt THEN r.done ELSE MaxInt) \in Bytes
         /\ (IF r.done <= MaxInt THEN r.done ELSE MaxInt) <= MaxInt
BY DatabaseAssumption DEF Records, Bytes

LEMMA EncodedType ==
  ASSUME NEW r \in Records
  PROVE  Encoded(r) \in Columns
<1>1. /\ Encoded(r) \in Records
      /\ Encoded(r).done <= MaxInt
      /\ Encoded(r).total = {n \in r.total : n <= MaxInt}
  BY TotalCut, DoneCut DEF Encoded, Records
<1> QED
  BY <1>1 DEF Columns, Fits

LEMMA RecoveredType ==
  ASSUME NEW r \in Records
  PROVE  Recovered(r) \in Records
BY DEF Recovered, Records, States, Reasons

LEMMA MovedType ==
  ASSUME NEW r \in Records, NEW to \in States, NEW error \in Reason(to)
  PROVE  Moved(r, to, error) \in Records
<1>1. error \in Reasons \cup {"none"}
  BY DEF Reason, Reasons
<1> QED
  BY <1>1 DEF Moved, Records

LEMMA NewType == New \in Records
BY DatabaseAssumption DEF New, Records, States, Reasons, Bytes

\* The values of a record's table entry are apart.
LEMMA Apart ==
  /\ None \notin Records /\ Foreign \notin Records /\ None # Foreign
<1>1. None.state \notin States /\ Foreign.state \notin States /\ None.state # Foreign.state
  BY DEF None, Foreign, Absent, States
<1>2. \A r \in Records : r.state \in States
  BY DEF Records
<1> QED
  BY <1>1, <1>2

(***************************************************************************)
(* The invariant: where the process is tells what it holds.                *)
(***************************************************************************)
\* A call is about a record of the map, recovery about rows that parse; only a
\* process that has the database holds records.
Shape ==
  /\ stage = "save" => \A id \in busy : mem[id] # None
  /\ stage \in {"closed", "migrate"} => \A id \in Ids : mem[id] = None
  /\ stage \notin {"closed", "migrate"} => \A id \in Ids : row[id] # Foreign
  /\ todo # {} => stage = "recover" /\ \A id \in todo : row[id] # None

\* A transaction is about the first migration that is missing.
Schema ==
  /\ MigratedOnce
  /\ stage = "migrate" => known = noted
  /\ tx.version = 0 => tx.did = {}
  /\ tx.version # 0 =>
       /\ stage = "migrate" /\ tx.version \in Versions \ known
       /\ \A u \in Versions \ known : tx.version <= u

LEMMA TypeInit == Init => TypeOK /\ Shape /\ Schema
<1> SUFFICES ASSUME Init PROVE TypeOK /\ Shape /\ Schema
  OBVIOUS
<1>1. TypeOK
  BY DatabaseAssumption DEF Init, TypeOK, NoTx
<1>2. Shape
  BY Apart DEF Init, Shape
<1>3. Schema
  BY DEF Init, Schema, MigratedOnce, NoTx, Versions
<1> QED
  BY <1>1, <1>2, <1>3

\* A call changes one record and leaves the process at a save.
LEMMA PutType ==
  ASSUME TypeOK, Shape, stage = "open", NEW id \in Ids, NEW r \in Records, Put(id, r)
  PROVE  TypeOK' /\ Shape'
<1>1. TypeOK'
  BY DEF Put, TypeOK, schema
<1>2. Shape'
  BY Apart DEF Put, TypeOK, Shape, schema
<1> QED
  BY <1>1, <1>2

LEMMA TypeStep ==
  ASSUME TypeOK, Shape, Schema, [Next]_vars
  PROVE  TypeOK' /\ Shape'
<1> USE Apart
<1>1. CASE Connect
  BY <1>1 DEF Connect, TypeOK, Shape
<1>2. ASSUME NEW v \in Versions, Begin(v) PROVE TypeOK' /\ Shape'
  BY <1>2 DEF Begin, TypeOK, Shape
<1>3. CASE Apply
  BY <1>3 DEF Apply, TypeOK, Shape
<1>4. CASE Note
  BY <1>4 DEF Note, TypeOK, Shape
<1>5. CASE Commit
  <2>1. tx.version \in Versions
    BY <1>5 DEF Commit, Schema
  <2> QED
    BY <1>5, <2>1 DEF Commit, TypeOK, Shape, NoTx
<1>6. CASE List
  <2>1. \A id \in Ids : row[id] # Foreign
    BY <1>6 DEF List, Parses
  <2> QED
    BY <1>6, <2>1 DEF List, TypeOK, Shape, schema
<1>7. ASSUME NEW id \in Ids, Recover(id) PROVE TypeOK' /\ Shape'
  <2>1. row[id] \in Columns
    BY <1>7 DEF Recover, TypeOK, Shape, Columns
  <2>2. Recovered(row[id]) \in Records /\ Encoded(Recovered(row[id])) \in Columns
    BY <2>1, RecoveredType, EncodedType DEF Columns
  <2>3. TypeOK'
    BY <1>7, <2>2 DEF Recover, TypeOK, schema, Columns
  <2>4. Shape'
    BY <1>7, <2>2 DEF Recover, TypeOK, Shape, Columns
  <2> QED
    BY <2>3, <2>4
<1>8. CASE Opened
  BY <1>8 DEF Opened, TypeOK, Shape, schema
<1>9. CASE Crash
  <2>1. TypeOK'
    BY <1>9 DEF Crash, Closes, TypeOK, NoTx
  <2>2. Shape'
    BY <1>9 DEF Crash, Closes, Shape
  <2> QED
    BY <2>1, <2>2
<1>10. ASSUME NEW id \in Ids, OtherRelease(id) PROVE TypeOK' /\ Shape'
  <2>1. TypeOK'
    BY <1>10 DEF OtherRelease, TypeOK, schema
  <2>2. Shape'
    BY <1>10 DEF OtherRelease, TypeOK, Shape
  <2> QED
    BY <2>1, <2>2
<1>11. ASSUME NEW id \in Ids, Enqueue(id) PROVE TypeOK' /\ Shape'
  <2>1. New \in Records /\ Encoded(New) \in Columns
    BY NewType, EncodedType
  <2>2. TypeOK'
    BY <1>11, <2>1 DEF Enqueue, TypeOK, schema, Columns
  <2>3. Shape'
    BY <1>11, <2>1 DEF Enqueue, TypeOK, Shape, Columns
  <2> QED
    BY <2>2, <2>3
<1>12. ASSUME NEW id \in Ids, NEW to \in States, Move(id, to) PROVE TypeOK' /\ Shape'
  <2>1. PICK error \in Reason(to) : Put(id, Moved(mem[id], to, error))
    BY <1>12 DEF Move
  <2>2. stage = "open" /\ mem[id] \in Records
    BY <1>12 DEF Move, CanTransition, None, TypeOK
  <2> QED
    BY <2>1, <2>2, MovedType, PutType
<1>13. ASSUME NEW id \in Ids, NEW n \in Bytes,
              NEW total \in {{}} \cup {{m} : m \in Bytes}, Progress(id, n, total)
       PROVE  TypeOK' /\ Shape'
  <2>1. stage = "open" /\ mem[id] \in Records
    BY <1>13 DEF Progress, None, Active, Absent, TypeOK
  <2>2. [mem[id] EXCEPT !.state = "Downloading", !.started = TRUE, !.done = n,
                        !.total = IF total # {} THEN total ELSE @] \in Records
    <3>1. mem[id].total \in {{}} \cup {{m} : m \in Bytes}
      BY <2>1 DEF Records
    <3>2. (IF total # {} THEN total ELSE mem[id].total) \in {{}} \cup {{m} : m \in Bytes}
      BY <3>1
    <3> QED
      BY <2>1, <3>2 DEF Records, States
  <2> QED
    BY <1>13, <2>1, <2>2, PutType DEF Progress
<1>14. ASSUME NEW id \in Ids, NEW n \in Bytes, Finish(id, n) PROVE TypeOK' /\ Shape'
  <2>1. stage = "open" /\ mem[id] \in Records
    BY <1>14 DEF Finish, None, Active, Absent, TypeOK
  <2>2. [mem[id] EXCEPT !.done = n, !.total = {n}] \in Records
    BY <2>1 DEF Records
  <2>3. Moved([mem[id] EXCEPT !.done = n, !.total = {n}], "Completed", "none") \in Records
    BY <2>2, MovedType DEF States, Reason
  <2>4. Put(id, Moved([mem[id] EXCEPT !.done = n, !.total = {n}], "Completed", "none"))
    BY <1>14 DEF Finish, Outcome
  <2> QED
    BY <2>1, <2>3, <2>4, PutType
<1>15. ASSUME NEW id \in Ids, Save(id) PROVE TypeOK' /\ Shape'
  <2>1. mem[id] \in Records
    BY <1>15 DEF Save, TypeOK, Shape
  <2>2. Encoded(mem[id]) \in Columns
    BY <2>1, EncodedType
  <2>3. TypeOK'
    BY <1>15, <2>1, <2>2 DEF Save, TypeOK, schema, Columns
  <2>4. Shape'
    BY <1>15, <2>1, <2>2 DEF Save, TypeOK, Shape, Columns
  <2> QED
    BY <2>3, <2>4
<1>16. ASSUME NEW id \in Ids, Refused(id) PROVE TypeOK' /\ Shape'
  BY <1>16, DatabaseAssumption DEF Refused, Refuse, TypeOK, Shape, schema
<1>17. ASSUME NEW id \in Ids, Forget(id) PROVE TypeOK' /\ Shape'
  BY <1>17 DEF Forget, TypeOK, Shape, schema
<1>18. ASSUME NEW id \in Ids, Delete(id) PROVE TypeOK' /\ Shape'
  <2>1. TypeOK'
    BY <1>18, DatabaseAssumption DEF Delete, Refuse, TypeOK, schema
  <2>2. Shape'
    BY <1>18 DEF Delete, TypeOK, Shape
  <2> QED
    BY <2>1, <2>2
<1>19. CASE UNCHANGED vars
  BY <1>19 DEF vars, schema, TypeOK, Shape
<1> QED
  BY <1>1, <1>2, <1>3, <1>4, <1>5, <1>6, <1>7, <1>8, <1>9, <1>10, <1>11, <1>12, <1>13,
     <1>14, <1>15, <1>16, <1>17, <1>18, <1>19 DEF Next, Open, Use

\* Only the steps of a migration, a crash and Connect touch the schema.
LEMMA SchemaKept ==
  ASSUME Schema, UNCHANGED schema, stage # "migrate", stage' # "migrate",
         stage = "closed" => stage' = "closed"
  PROVE  Schema'
<1>1. UNCHANGED <<known, tx, made, noted, times>>
  BY DEF schema
<1>2. MigratedOnce'
  BY <1>1 DEF Schema, MigratedOnce
<1> QED
  BY <1>1, <1>2 DEF Schema

LEMMA SchemaStep ==
  ASSUME TypeOK, Shape, Schema, [Next]_vars
  PROVE  Schema'
<1>1. CASE Connect
  BY <1>1 DEF Connect, Schema, MigratedOnce, Versions
<1>2. ASSUME NEW v \in Versions, Begin(v) PROVE Schema'
  BY <1>2 DEF Begin, Pending, Schema, MigratedOnce, Versions
<1>3. CASE Apply
  <2>1. tx.version # 0
    BY <1>3 DEF Apply, TypeOK, Schema, NoTx
  <2>2. tx'.version = tx.version /\ tx'.did = {"sql"}
    BY <1>3 DEF Apply, TypeOK
  <2> QED
    BY <1>3, <2>1, <2>2 DEF Apply, Schema, MigratedOnce
<1>4. CASE Note
  <2>1. tx'.version = tx.version /\ tx.version # 0
    BY <1>4 DEF Note, TypeOK, Schema
  <2> QED
    BY <1>4, <2>1 DEF Note, Schema, MigratedOnce
<1>5. CASE Commit
  <2>1. /\ tx.version \in Versions /\ tx.version \notin made
        /\ times[tx.version] = 0
        /\ tx.version = 2 => 1 \in made
    BY <1>5 DEF Commit, TypeOK, Schema, MigratedOnce, Versions
  <2>2. times' = [times EXCEPT ![tx.version] = 1]
    BY <1>5, <2>1 DEF Commit, TypeOK
  <2>3. MigratedOnce'
    BY <1>5, <2>1, <2>2 DEF Commit, TypeOK, Schema, MigratedOnce, Versions
  <2> QED
    BY <1>5, <2>3 DEF Commit, Schema, NoTx
<1>6. CASE List
  <2>1. tx.version = 0 /\ made = Versions
    BY <1>6 DEF List, Pending, TypeOK, Schema, MigratedOnce
  <2> QED
    BY <1>6, <2>1 DEF List, Schema, MigratedOnce, schema
<1>7. ASSUME NEW id \in Ids, Recover(id) PROVE Schema'
  BY <1>7, SchemaKept DEF Recover
<1>8. CASE Opened
  BY <1>8, SchemaKept DEF Opened
<1>9. CASE Crash
  BY <1>9 DEF Crash, Closes, Schema, MigratedOnce, NoTx
<1>10. ASSUME NEW id \in Ids, OtherRelease(id) PROVE Schema'
  BY <1>10, SchemaKept DEF OtherRelease
<1>11. ASSUME NEW id \in Ids, Enqueue(id) PROVE Schema'
  BY <1>11, SchemaKept DEF Enqueue
<1>12. ASSUME NEW id \in Ids, NEW to \in States, Move(id, to) PROVE Schema'
  BY <1>12, SchemaKept DEF Move, Put
<1>13. ASSUME NEW id \in Ids, NEW n \in Bytes,
              NEW total \in {{}} \cup {{m} : m \in Bytes}, Progress(id, n, total)
       PROVE  Schema'
  BY <1>13, SchemaKept DEF Progress, Put
<1>14. ASSUME NEW id \in Ids, NEW n \in Bytes, Finish(id, n) PROVE Schema'
  BY <1>14, SchemaKept DEF Finish, Put
<1>15. ASSUME NEW id \in Ids, Save(id) PROVE Schema'
  BY <1>15, SchemaKept DEF Save
<1>16. ASSUME NEW id \in Ids, Refused(id) PROVE Schema'
  BY <1>16, SchemaKept DEF Refused
<1>17. ASSUME NEW id \in Ids, Forget(id) PROVE Schema'
  BY <1>17, SchemaKept DEF Forget
<1>18. ASSUME NEW id \in Ids, Delete(id) PROVE Schema'
  BY <1>18, SchemaKept DEF Delete
<1>19. CASE UNCHANGED vars
  BY <1>19 DEF vars, schema, Schema, MigratedOnce
<1> QED
  BY <1>1, <1>2, <1>3, <1>4, <1>5, <1>6, <1>7, <1>8, <1>9, <1>10, <1>11, <1>12, <1>13,
     <1>14, <1>15, <1>16, <1>17, <1>18, <1>19 DEF Next, Open, Use

Typed == TypeOK /\ Shape /\ Schema

LEMMA AlwaysTyped == Spec => []Typed
<1>1. Init => Typed
  BY TypeInit DEF Typed
<1>2. Typed /\ [Next]_vars => Typed'
  BY TypeStep, SchemaStep DEF Typed
<1> QED
  BY <1>1, <1>2, PTL DEF Spec

\* Every record and every row has the shape the code gives it, and a row holds
\* only numbers that fit its columns.
THEOREM TypeCorrect == Spec => []TypeOK
<1>1. Typed => TypeOK
  BY DEF Typed
<1> QED
  BY <1>1, AlwaysTyped, PTL

\* A migration takes effect once, with its note and in order, wherever a process
\* crashes; no row is read before all have (Persistence::migrate).
THEOREM MigrationsOnce == Spec => []MigratedOnce
<1>1. Typed => MigratedOnce
  BY DEF Typed, Schema
<1> QED
  BY <1>1, AlwaysTyped, PTL

(***************************************************************************)
(* What a record says of its end.                                          *)
(***************************************************************************)
Sound(r) ==
  /\ Ended(r)
  /\ r.finished => r.state = "Completed"
  /\ r.state = "Completed" => \A n \in r.total : r.done = n

Told ==
  \A id \in Ids : /\ mem[id] # None => Sound(mem[id])
                  /\ row[id] \notin {None, Foreign} => Sound(row[id])

LEMMA EncodedSound ==
  ASSUME NEW r \in Records, Sound(r)
  PROVE  Sound(Encoded(r))
<1>1. /\ Encoded(r).state = r.state /\ Encoded(r).error = r.error
      /\ Encoded(r).finished = r.finished
      /\ Encoded(r).total = {n \in r.total : n <= MaxInt}
      /\ Encoded(r).done = IF r.done <= MaxInt THEN r.done ELSE MaxInt
  BY DEF Encoded, Records
<1> QED
  BY <1>1 DEF Sound, Ended

LEMMA RecoveredSound ==
  ASSUME NEW r \in Records, Sound(r)
  PROVE  Sound(Recovered(r))
<1>1. r.state \in Active => ~r.finished
  BY DEF Sound, Active
<1> QED
  BY <1>1 DEF Recovered, Sound, Ended, Records, Active

LEMMA MovedSound ==
  ASSUME NEW r \in Records, Sound(r), NEW to, CanTransition(r.state, to), to # "Completed",
         NEW error \in Reason(to)
  PROVE  Sound(Moved(r, to, error))
<1>1. ~r.finished
  BY DEF Sound, CanTransition, NextStates, States, Records
<1>2. /\ Moved(r, to, error).state = to /\ ~Moved(r, to, error).finished
      /\ Moved(r, to, error).error = IF to \in {"Failed", "Cancelled"} \/ error # "none" THEN error ELSE r.error
  BY <1>1 DEF Moved, Records
<1> QED
  BY <1>2 DEF Sound, Ended, Reason

\* A step that changes one record and no row, or one row and no record.
LEMMA ToldPut ==
  ASSUME TypeOK, Told, NEW id \in Ids, NEW r, Sound(r), mem' = [mem EXCEPT ![id] = r], row' = row
  PROVE  Told'
BY DEF TypeOK, Told

LEMMA ToldStep ==
  ASSUME Typed, Told, [Next]_vars
  PROVE  Told'
<1> USE Apart DEF Typed
<1>1. CASE Connect \/ Apply \/ Note \/ Commit \/ List \/ Opened \/ UNCHANGED vars
  BY <1>1 DEF Connect, Apply, Note, Commit, List, Opened, vars, Told
<1>2. ASSUME NEW v \in Versions, Begin(v) PROVE Told'
  BY <1>2 DEF Begin, Told
<1>3. ASSUME NEW id \in Ids, Recover(id) PROVE Told'
  <2>1. row[id] \in Records /\ Sound(row[id])
    BY <1>3 DEF Recover, TypeOK, Shape, Told
  <2>2. Recovered(row[id]) \in Records /\ Sound(Recovered(row[id]))
    BY <2>1, RecoveredType, RecoveredSound
  <2>3. Sound(Encoded(Recovered(row[id])))
    BY <2>2, EncodedSound
  <2> QED
    BY <1>3, <2>2, <2>3 DEF Recover, TypeOK, Told
<1>4. CASE Crash
  BY <1>4 DEF Crash, Closes, Told
<1>5. ASSUME NEW id \in Ids, OtherRelease(id) PROVE Told'
  BY <1>5 DEF OtherRelease, TypeOK, Told
<1>6. ASSUME NEW id \in Ids, Enqueue(id) PROVE Told'
  <2>1. Sound(New)
    BY DEF Sound, Ended, New
  <2>2. Sound(Encoded(New))
    BY <2>1, NewType, EncodedSound
  <2> QED
    BY <1>6, <2>1, <2>2 DEF Enqueue, TypeOK, Told
<1>7. ASSUME NEW id \in Ids, NEW to \in States, Move(id, to) PROVE Told'
  <2>1. PICK error \in Reason(to) : Put(id, Moved(mem[id], to, error))
    BY <1>7 DEF Move
  <2>2. mem[id] \in Records /\ Sound(mem[id])
    BY <1>7 DEF Move, CanTransition, None, TypeOK, Told
  <2>3. Sound(Moved(mem[id], to, error))
    BY <1>7, <2>2, MovedSound DEF Move
  <2> QED
    BY <2>1, <2>3, ToldPut DEF Put
<1>8. ASSUME NEW id \in Ids, NEW n \in Bytes,
              NEW total \in {{}} \cup {{m} : m \in Bytes}, Progress(id, n, total)
       PROVE  Told'
  <2> DEFINE r == [mem[id] EXCEPT !.state = "Downloading", !.started = TRUE, !.done = n,
                                  !.total = IF total # {} THEN total ELSE @]
  <2>1. mem[id] \in Records /\ Sound(mem[id])
    BY <1>8 DEF Progress, None, Active, Absent, TypeOK, Told
  <2>2. ~mem[id].finished
    BY <1>8, <2>1 DEF Progress, Sound, Active
  <2>3. r.state = "Downloading" /\ ~r.finished
    BY <2>1, <2>2 DEF Records
  <2>4. Sound(r)
    BY <2>3 DEF Sound, Ended
  <2> QED
    BY <1>8, <2>4, ToldPut DEF Progress, Put
<1>9. ASSUME NEW id \in Ids, NEW n \in Bytes, Finish(id, n) PROVE Told'
  <2> DEFINE r == Moved([mem[id] EXCEPT !.done = n, !.total = {n}], "Completed", "none")
  <2>1. mem[id] \in Records
    BY <1>9 DEF Finish, None, Active, Absent, TypeOK
  <2>2. /\ r.state = "Completed" /\ r.error = "none" /\ r.finished
        /\ r.done = n /\ r.total = {n}
    BY <2>1 DEF Moved, Records
  <2>3. Sound(r)
    BY <2>2 DEF Sound, Ended, Active
  <2>4. Put(id, r)
    BY <1>9 DEF Finish, Outcome
  <2> QED
    BY <2>3, <2>4, ToldPut DEF Put
<1>10. ASSUME NEW id \in Ids, Save(id) PROVE Told'
  <2>1. mem[id] \in Records /\ Sound(mem[id])
    BY <1>10 DEF Save, TypeOK, Shape, Told
  <2>2. Sound(Encoded(mem[id]))
    BY <2>1, EncodedSound
  <2> QED
    BY <1>10, <2>2 DEF Save, TypeOK, Told
<1>11. ASSUME NEW id \in Ids, Refused(id) \/ Forget(id) \/ Delete(id) PROVE Told'
  BY <1>11 DEF Refused, Forget, Delete, TypeOK, Told
<1> QED
  BY <1>1, <1>2, <1>3, <1>4, <1>5, <1>6, <1>7, <1>8, <1>9, <1>10, <1>11 DEF Next, Open, Use

LEMMA AlwaysTold == Spec => []Told
<1>1. Init => Told
  BY DEF Init, Told
<1>2. Typed /\ Told /\ [Next]_vars => Told'
  BY ToldStep
<1> QED
  BY <1>1, <1>2, AlwaysTyped, PTL DEF Spec

\* An error belongs to the state its record is in, and a completed download has
\* none of an earlier end (transition_state's bookkeeping).
THEOREM EndsExplained == Spec => []EndedExplained
<1>1. Typed /\ Told => EndedExplained
  BY DEF Told, Sound, EndedExplained, Ended, None, Foreign, Absent, Active
<1> QED
  BY <1>1, AlwaysTyped, AlwaysTold, PTL

\* A completed download has as many bytes as its total says, in the map and in
\* the database.
THEOREM CompletedWhole == Spec => []CompletedTotal
<1>1. Typed /\ Told => CompletedTotal
  BY DEF Told, Sound, CompletedTotal, None, Foreign, Absent
<1> QED
  BY <1>1, AlwaysTyped, AlwaysTold, PTL

(***************************************************************************)
(* Restarts.                                                               *)
(***************************************************************************)
\* While a row cannot be parsed no manager opens, and the attempt leaves every
\* other row as it is (DownloadManager::open lists before it recovers).
THEOREM FailedOpensHarmless == Spec => FailedOpenHarmless
<1> DEFINE Harmless ==
      \A id \in Ids : row[id] = Foreign =>
        stage' # "open" /\ \A other \in Ids \ {id} : (row'[other] = row[other] \/ Foreign \in {row[other], row'[other]})
<1>1. Typed /\ [Next]_vars => [Harmless]_vars
  <2> SUFFICES ASSUME Typed, Next PROVE Harmless
    OBVIOUS
  <2> SUFFICES ASSUME NEW id \in Ids, row[id] = Foreign
               PROVE  /\ stage' # "open"
                      /\ \A other \in Ids \ {id} :
                           row'[other] = row[other] \/ Foreign \in {row[other], row'[other]}
    OBVIOUS
  <2>1. stage \in {"closed", "migrate"}
    BY DEF Typed, Shape
  <2>2. CASE Connect \/ Apply \/ Note \/ Commit \/ List \/ Opened
    BY <2>1, <2>2 DEF Connect, Apply, Note, Commit, List, Opened
  <2>3. CASE \E v \in Versions : Begin(v)
    BY <2>1, <2>3 DEF Begin
  <2>4. CASE Crash
    BY <2>4 DEF Crash, Closes
  <2>5. CASE \E other \in Ids : OtherRelease(other)
    BY <2>1, <2>5 DEF OtherRelease, Typed, TypeOK
  <2>6. CASE \E other \in Ids : Recover(other) \/ Use(other)
    BY <2>1, <2>6 DEF Recover, Use, Enqueue, Move, Progress, Finish, Save, Refused, Forget, Delete
  <2> QED
    BY <2>2, <2>3, <2>4, <2>5, <2>6 DEF Next, Open
<1> QED
  BY <1>1, AlwaysTyped, PTL DEF Spec, FailedOpenHarmless

\* Recovered and Restored under a given policy.
RecoveredAs(p, r) ==
  CASE r.state \in Active /\ p = "Failed" -> [r EXCEPT !.state = "Failed", !.error = "interrupted"]
    [] r.state \in Active /\ p = "Queued" ->
         [r EXCEPT !.state = "Queued", !.started = FALSE, !.error = "none"]
    [] OTHER -> r
RestoredAs(p, r) ==
  LET cut == r.state \in Active
  IN  IF r = None THEN None
      ELSE [r EXCEPT !.state = IF cut THEN p ELSE @,
                     !.error = CASE ~cut -> @
                                 [] cut /\ p = "Failed" -> "interrupted"
                                 [] OTHER -> "none",
                     !.started = @ /\ ~(cut /\ p = "Queued"),
                     !.total = {n \in @ : n <= MaxInt},
                     !.done = IF @ <= MaxInt THEN @ ELSE MaxInt]
Policies == {"Failed", "Queued"}

LEMMA PolicyOf ==
  ASSUME NEW r
  PROVE  Recovered(r) = RecoveredAs(policy, r) /\ Restored(r) = RestoredAs(policy, r)
BY DEF Recovered, Restored, RecoveredAs, RestoredAs

LEMMA SameRecord ==
  ASSUME NEW r \in Records, NEW s \in Records, r.state = s.state, r.error = s.error,
         r.total = s.total, r.done = s.done, r.started = s.started, r.finished = s.finished
  PROVE  r = s
BY DEF Records

LEMMA ColumnsKept ==
  ASSUME NEW r \in Columns
  PROVE  Encoded(r) = r
<1>1. r \in Records /\ Encoded(r) \in Records
  BY EncodedType DEF Columns
<1>2. {n \in r.total : n <= MaxInt} = r.total
  BY DEF Columns, Fits
<1>3. /\ Encoded(r).state = r.state /\ Encoded(r).error = r.error
      /\ Encoded(r).total = r.total /\ Encoded(r).done = r.done
      /\ Encoded(r).started = r.started /\ Encoded(r).finished = r.finished
  BY <1>1, <1>2 DEF Encoded, Columns, Fits, Records
<1> QED
  BY <1>1, <1>3, SameRecord

\* Recovery writes back a row that recovering again leaves as it is.
LEMMA RecoveredOnce ==
  ASSUME NEW p \in Policies, NEW r \in Columns
  PROVE  /\ RecoveredAs(p, r) \in Columns
         /\ RecoveredAs(p, RecoveredAs(p, r)) = RecoveredAs(p, r)
<1>1. r \in Records /\ r.done <= MaxInt /\ \A n \in r.total : n <= MaxInt
  BY DEF Columns, Fits
<1>2. RecoveredAs(p, r) \in Records
  BY <1>1 DEF RecoveredAs, Records, States, Reasons
<1>3. RecoveredAs(p, r).done = r.done /\ RecoveredAs(p, r).total = r.total
  BY <1>1 DEF RecoveredAs, Records
<1>4. RecoveredAs(p, r).state \notin Active
  BY <1>1 DEF RecoveredAs, Records, Policies, Active
<1> QED
  BY <1>1, <1>2, <1>3, <1>4 DEF RecoveredAs, Columns, Fits

\* Recovering the row of a record gives what a restart makes of the record.
LEMMA RecoveredRow ==
  ASSUME NEW p \in Policies, NEW r \in Records
  PROVE  RecoveredAs(p, Encoded(r)) = RestoredAs(p, r)
<1> DEFINE e == Encoded(r)
           total == {n \in r.total : n <= MaxInt}
           done == IF r.done <= MaxInt THEN r.done ELSE MaxInt
<1>1. /\ e \in Records /\ e.state = r.state /\ e.error = r.error /\ e.total = total
      /\ e.done = done /\ e.started = r.started /\ e.finished = r.finished
  BY EncodedType DEF Encoded, Columns, Records
<1>2. r # None
  BY Apart
<1>3. total \in {{}} \cup {{n} : n \in Bytes} /\ done \in Bytes
  BY TotalCut, DoneCut
<1>4. RestoredAs(p, r) \in Records
  BY <1>2, <1>3 DEF RestoredAs, Records, States, Reasons, Policies
<1>5. RecoveredAs(p, e) \in Records
  BY <1>1 DEF RecoveredAs, Records, States, Reasons
<1>6. /\ RestoredAs(p, r).total = total /\ RestoredAs(p, r).done = done
      /\ RestoredAs(p, r).finished = r.finished
      /\ RestoredAs(p, r).state = IF r.state \in Active THEN p ELSE r.state
      /\ RestoredAs(p, r).started = (r.started /\ ~(r.state \in Active /\ p = "Queued"))
      /\ RestoredAs(p, r).error = IF r.state \notin Active THEN r.error
                                  ELSE IF p = "Failed" THEN "interrupted" ELSE "none"
  BY <1>2 DEF RestoredAs, Records
<1>7. /\ RecoveredAs(p, e).total = total /\ RecoveredAs(p, e).done = done
      /\ RecoveredAs(p, e).finished = r.finished
      /\ RecoveredAs(p, e).state = IF r.state \in Active THEN p ELSE r.state
      /\ RecoveredAs(p, e).started = (r.started /\ ~(r.state \in Active /\ p = "Queued"))
      /\ RecoveredAs(p, e).error = IF r.state \notin Active THEN r.error
                                   ELSE IF p = "Failed" THEN "interrupted" ELSE "none"
  BY <1>1 DEF RecoveredAs, Records, Policies
<1> QED
  BY <1>4, <1>5, <1>6, <1>7, SameRecord

\* A row is what its record was saved as, recovered or not; recovery has come to
\* a download or finds it in its row.
Faithful ==
  \A id \in Ids :
    /\ row[id] = Foreign => saved[id] = None
    /\ row[id] # Foreign => RecoveredAs(policy, row[id]) = RestoredAs(policy, saved[id])
    /\ stage = "recover" /\ id \notin todo => mem[id] = RestoredAs(policy, saved[id])

LEMMA NothingSaved ==
  ASSUME NEW p
  PROVE  RecoveredAs(p, None) = None /\ RestoredAs(p, None) = None
BY DEF RecoveredAs, RestoredAs, None, Absent, Active

\* A step outside recovery that leaves the rows alone.
LEMMA FaithfulKept ==
  ASSUME Faithful, UNCHANGED <<policy, row, saved>>, stage' # "recover"
  PROVE  Faithful'
BY DEF Faithful

\* A step that writes the row of a record and notes that it is saved.
LEMMA FaithfulSaved ==
  ASSUME Typed, Faithful, NEW id \in Ids, NEW r \in Records,
         row' = [row EXCEPT ![id] = Encoded(r)], saved' = [saved EXCEPT ![id] = r],
         policy' = policy, stage' # "recover"
  PROVE  Faithful'
<1>1. Encoded(r) # Foreign /\ policy \in Policies
  BY EncodedType, Apart DEF Columns, Typed, TypeOK, Policies
<1> QED
  BY <1>1, RecoveredRow DEF Faithful, Typed, TypeOK

LEMMA FaithfulStep ==
  ASSUME Typed, Faithful, [Next]_vars
  PROVE  Faithful'
<1> USE DEF Typed
<1>1. CASE Connect \/ Apply \/ Note \/ Commit \/ Opened \/ Crash
  BY <1>1, FaithfulKept DEF Connect, Apply, Note, Commit, Opened, Crash, Closes
<1>2. ASSUME NEW v \in Versions, Begin(v) PROVE Faithful'
  BY <1>2, FaithfulKept DEF Begin
<1>3. CASE List
  <2>1. ASSUME NEW id \in Ids, id \notin todo' PROVE mem'[id] = RestoredAs(policy, saved[id])
    <3>1. row[id] = None /\ mem'[id] = None
      BY <1>3, <2>1 DEF List, Shape
    <3> QED
      BY <3>1, NothingSaved, Apart DEF Faithful
  <2> QED
    BY <1>3, <2>1 DEF List, Faithful
<1>4. ASSUME NEW id \in Ids, Recover(id) PROVE Faithful'
  <2>1. row[id] \in Columns /\ policy \in Policies
    BY <1>4 DEF Recover, TypeOK, Shape, Columns, Policies
  <2> DEFINE r == RecoveredAs(policy, row[id])
  <2>2. r \in Columns /\ Encoded(r) = r /\ RecoveredAs(policy, r) = r
    BY <2>1, RecoveredOnce, ColumnsKept
  <2>3. r # Foreign /\ row[id] # Foreign
    BY <2>1, <2>2, Apart DEF Columns
  <2>4. /\ row' = [row EXCEPT ![id] = r] \/ row' = row
        /\ mem' = [mem EXCEPT ![id] = r] /\ todo' = todo \ {id}
        /\ UNCHANGED <<stage, policy, saved>>
    BY <1>4, <2>2, PolicyOf DEF Recover
  <2> HIDE DEF r
  <2>5. r = RestoredAs(policy, saved[id])
    BY <2>3 DEF Faithful, r
  <2> QED
    BY <2>2, <2>3, <2>4, <2>5 DEF Faithful, TypeOK
<1>5. ASSUME NEW id \in Ids, OtherRelease(id) PROVE Faithful'
  <2>1. row[id] = None => saved[id] = None
    <3> SUFFICES ASSUME row[id] = None, saved[id] # None PROVE FALSE
      OBVIOUS
    <3>1. saved[id] \in Records /\ policy \in Policies
      BY DEF TypeOK, Policies
    <3>2. RecoveredAs(policy, Encoded(saved[id])) = None
      BY <3>1, RecoveredRow, NothingSaved, Apart DEF Faithful
    <3>3. Encoded(saved[id]) \in Columns
      BY <3>1, EncodedType
    <3> QED
      BY <3>1, <3>2, <3>3, RecoveredOnce, Apart DEF Columns
  <2> QED
    BY <1>5, <2>1, NothingSaved, Apart DEF OtherRelease, Faithful, TypeOK
<1>6. ASSUME NEW id \in Ids, Enqueue(id) PROVE Faithful'
  BY <1>6, NewType, FaithfulSaved DEF Enqueue
<1>7. ASSUME NEW id \in Ids, NEW r, Put(id, r) PROVE Faithful'
  BY <1>7, FaithfulKept DEF Put
<1>8. ASSUME NEW id \in Ids, Save(id) PROVE Faithful'
  <2>1. mem[id] \in Records
    BY <1>8 DEF Save, TypeOK, Shape
  <2> QED
    BY <1>8, <2>1, FaithfulSaved DEF Save
<1>9. ASSUME NEW id \in Ids, Refused(id) \/ Forget(id) PROVE Faithful'
  BY <1>9, FaithfulKept DEF Refused, Forget
<1>10. ASSUME NEW id \in Ids, Delete(id) PROVE Faithful'
  BY <1>10, NothingSaved, Apart DEF Delete, Faithful, TypeOK
<1>11. CASE UNCHANGED vars
  BY <1>11 DEF vars, Faithful
<1> QED
  BY <1>1, <1>2, <1>3, <1>4, <1>5, <1>6, <1>7, <1>8, <1>9, <1>10, <1>11
     DEF Next, Open, Use, Move, Progress, Finish

\* A manager that opens holds each record that was saved, recovered exactly
\* once, however many opens failed or crashed before (DownloadManager::recover).
THEOREM RestartsFaithful == Spec => RestartFaithful
<1>1. Init => Faithful
  BY NothingSaved, Apart DEF Init, Faithful
<1>2. Typed /\ Faithful /\ [Next]_vars => Faithful'
  BY FaithfulStep
<1> DEFINE Whole == stage = "recover" /\ stage' = "open" => \A id \in Ids : mem'[id] = Restored(saved[id])
<1>3. Typed /\ Faithful /\ [Next]_vars => [Whole]_vars
  <2> SUFFICES ASSUME Faithful, Next, stage = "recover", stage' = "open", NEW id \in Ids
               PROVE  mem'[id] = Restored(saved[id])
    OBVIOUS
  <2>1. Opened
    BY DEF Next, Open, Use, Connect, Begin, Apply, Note, Commit, List, Recover, Crash, Closes,
           OtherRelease, Enqueue, Move, Progress, Finish, Put, Save, Refused, Forget, Delete
  <2>2. mem'[id] = mem[id] /\ id \notin todo
    BY <2>1 DEF Opened
  <2> QED
    BY <2>2, PolicyOf DEF Faithful
<1> QED
  BY <1>1, <1>2, <1>3, AlwaysTyped, PTL DEF Spec, RestartFaithful

=============================================================================
