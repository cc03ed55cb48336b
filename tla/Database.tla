------------------------------ MODULE Database ------------------------------
(***************************************************************************)
(* The records of the downloads and their rows in SQLite                   *)
(* (crates/download-manager/src/persistence.rs): opening with migrations   *)
(* and recovery, the bookkeeping of transition_state, on_progress and the  *)
(* end of a run (manager.rs), and what a row keeps of a record.  One       *)
(* process at a time has the database; it and any write may fail at every  *)
(* step.  Manager has the interleavings and the queue.                     *)
(***************************************************************************)
EXTENDS DownloadState, Integers, FiniteSets

CONSTANTS
  Ids,       \* downloads
  MaxBytes,  \* bound: the longest download
  MaxInt,    \* i64::MAX, the largest number a column takes
  Refusals   \* bound: how many writes SQLite refuses an open manager

ASSUME DatabaseAssumption ==
  /\ IsFiniteSet(Ids)
  /\ MaxBytes \in Nat /\ MaxInt \in Nat /\ Refusals \in Nat

VARIABLES
  stage,   \* where the process is: "closed", in open(), "open", or in a call
  busy,    \* the download the call is about
  policy,  \* config.recover_interrupted
  known,   \* migrate()'s `applied`
  tx,      \* what the open transaction of a migration has done
  made,    \* versions whose table or index the database has
  noted,   \* the rows of schema_migrations
  times,   \* how often each migration was committed (bound: counted to two)
  row,     \* the row of each id
  todo,    \* ids recover() has not come to
  mem,     \* the record of each id in the manager's map
  saved,   \* the record the last call of an open manager saved in the row
  refused  \* how many writes were refused

schema == <<known, tx, made, noted, times>>
vars == <<stage, busy, policy, schema, row, todo, mem, saved, refused>>

None == [state |-> Absent]
\* A row this release cannot parse: its URL, state or backend is unknown to it.
Foreign == [state |-> "Foreign"]

Reasons == {"paused", "cancelled", "failed", "interrupted"}
Bytes == 0..MaxBytes
Records ==
  [state : States, error : Reasons \cup {"none"}, total : {{}} \cup {{n} : n \in Bytes},
   done : Bytes, started : BOOLEAN, finished : BOOLEAN]

(***************************************************************************)
(* What a row keeps of a record, and what is read back.                    *)
(***************************************************************************)
\* Mutant: a count is written as it is.
EncodedRaw(r) == [r EXCEPT !.total = {n \in r.total : n <= MaxInt}]
\* Mutant: a total that does not fit wraps round and is read back as 0.
EncodedWrapping(r) ==
  [r EXCEPT !.total = {IF n <= MaxInt THEN n ELSE 0 : n \in r.total},
            !.done = IF r.done <= MaxInt THEN r.done ELSE MaxInt]
\* save's parameters: a total that does not fit is dropped, a count cut off.
Encoded(r) ==
  [r EXCEPT !.total = {n \in r.total : n <= MaxInt},
            !.done = IF r.done <= MaxInt THEN r.done ELSE MaxInt]

\* row_to_download
Parses(w) == w # Foreign

\* Mutant: recovery does not clear what is left of an earlier end.
RecoveredUncleared(r) ==
  CASE r.state \in Active /\ policy = "Failed" -> [r EXCEPT !.state = "Failed", !.error = "interrupted"]
    [] r.state \in Active /\ policy = "Queued" -> [r EXCEPT !.state = "Queued", !.started = FALSE]
    [] OTHER -> r
Recovered(r) ==
  CASE r.state \in Active /\ policy = "Failed" ->
         [r EXCEPT !.state = "Failed", !.error = "interrupted"]
    [] r.state \in Active /\ policy = "Queued" ->
         [r EXCEPT !.state = "Queued", !.started = FALSE, !.error = "none"]
    [] OTHER -> r

(***************************************************************************)
(* DownloadManager::open: Persistence::open, migrate, list, recover.       *)
(***************************************************************************)
Versions == {1, 2}
NoTx == [version |-> 0, did |-> {}]

Init ==
  /\ stage = "closed" /\ busy = {}
  /\ policy \in {"Failed", "Queued"}
  /\ known = {} /\ tx = NoTx /\ made = {} /\ noted = {}
  /\ times = [v \in Versions |-> 0]
  /\ row = [id \in Ids |-> None]
  /\ todo = {}
  /\ mem = [id \in Ids |-> None]
  /\ saved = mem
  /\ refused = 0

\* The process ends, or open() returns an error and drops what it has made:
\* an open transaction is rolled back.
Closes ==
  /\ stage' = "closed" /\ busy' = {} /\ known' = {} /\ tx' = NoTx /\ todo' = {}
  /\ mem' = [id \in Ids |-> None]
  /\ UNCHANGED <<policy, made, noted, times, row, saved, refused>>

\* schema_migrations is created if need be, and read.
Connect ==
  /\ stage = "closed"
  /\ stage' = "migrate"
  /\ known' = noted
  /\ UNCHANGED <<busy, policy, tx, made, noted, times, row, todo, mem, saved, refused>>

\* The migrations not yet applied, in order.
Pending == {v \in Versions : v \notin known}
Begin(v) ==
  /\ stage = "migrate" /\ tx = NoTx
  /\ v \in Pending /\ \A u \in Pending : v <= u
  /\ tx' = [version |-> v, did |-> {}]
  /\ UNCHANGED <<stage, busy, policy, known, made, noted, times, row, todo, mem, saved, refused>>

\* Mutant: the statements of a migration are not part of its transaction.
ApplyOutside ==
  /\ stage = "migrate" /\ tx # NoTx /\ tx.did = {}
  /\ tx' = [tx EXCEPT !.did = {"sql"}]
  /\ made' = made \cup {tx.version}
  /\ UNCHANGED <<stage, busy, policy, known, noted, times, row, todo, mem, saved, refused>>
Apply ==
  /\ stage = "migrate" /\ tx # NoTx /\ tx.did = {}
  /\ tx' = [tx EXCEPT !.did = {"sql"}]
  /\ UNCHANGED <<stage, busy, policy, known, made, noted, times, row, todo, mem, saved, refused>>

Note ==
  /\ stage = "migrate" /\ tx.did = {"sql"}
  /\ tx' = [tx EXCEPT !.did = {"sql", "note"}]
  /\ UNCHANGED <<stage, busy, policy, known, made, noted, times, row, todo, mem, saved, refused>>

Commit ==
  LET v == tx.version
  IN  /\ stage = "migrate" /\ tx.did = {"sql", "note"}
      /\ made' = made \cup {v}
      /\ noted' = noted \cup {v}
      /\ times' = [times EXCEPT ![v] = IF @ = 2 THEN 2 ELSE @ + 1]
      /\ known' = known \cup {v}  \* the loop does not come back to v
      /\ tx' = NoTx
      /\ UNCHANGED <<stage, busy, policy, row, todo, mem, saved, refused>>

\* Mutant: recover reads the rows one by one, and the last it cannot parse.
ListLazily ==
  /\ stage = "migrate" /\ Pending = {}
  /\ stage' = "recover"
  /\ todo' = {id \in Ids : row[id] # None /\ Parses(row[id])}
  /\ UNCHANGED <<busy, policy, schema, row, mem, saved, refused>>
\* persistence.list: every row must parse before recover looks at one.
List ==
  /\ stage = "migrate" /\ Pending = {}
  /\ \A id \in Ids : Parses(row[id])
  /\ stage' = "recover"
  /\ todo' = {id \in Ids : row[id] # None}
  /\ UNCHANGED <<busy, policy, schema, row, mem, saved, refused>>

\* One round of recover's loop, in the order of created_at; a save that fails
\* ends open() (see Crash).  A download in any other state is not saved.
Recover(id) ==
  LET r == Recovered(row[id])
  IN  /\ stage = "recover" /\ id \in todo
      /\ row' = IF row[id].state \in Active THEN [row EXCEPT ![id] = Encoded(r)] ELSE row
      /\ mem' = [mem EXCEPT ![id] = r]
      /\ todo' = todo \ {id}
      /\ UNCHANGED <<stage, busy, policy, schema, saved, refused>>

Opened ==
  /\ stage = "recover" /\ todo = {}
  /\ stage' = "open"
  /\ UNCHANGED <<busy, policy, schema, row, todo, mem, saved, refused>>

\* A crash at any point, a clean exit, or an error inside open().
Crash == stage # "closed" /\ Closes

\* Another release, with other backends, has the database for a while.
OtherRelease(id) ==
  /\ stage = "closed" /\ Versions \subseteq made
  /\ \/ row[id] = None /\ row' = [row EXCEPT ![id] = Foreign]
     \/ row[id] = Foreign /\ row' = [row EXCEPT ![id] = None]
  /\ UNCHANGED <<stage, busy, policy, schema, todo, mem, saved, refused>>

(***************************************************************************)
(* The calls of an open manager.  The record changes first and is saved in *)
(* a second step, which SQLite may refuse; enqueue saves it first.         *)
(***************************************************************************)
New == [state |-> "Queued", error |-> "none", total |-> {}, done |-> 0,
        started |-> FALSE, finished |-> FALSE]

Enqueue(id) ==
  /\ stage = "open" /\ mem[id] = None /\ row[id] = None
  /\ row' = [row EXCEPT ![id] = Encoded(New)]
  /\ mem' = [mem EXCEPT ![id] = New]
  /\ saved' = [saved EXCEPT ![id] = New]
  /\ UNCHANGED <<stage, busy, policy, schema, todo, refused>>

\* Mutant: a download that completes keeps the error of an earlier end.
MovedKeeping(r, to, error) ==
  [r EXCEPT !.state = to,
            !.finished = @ \/ to = "Completed",
            !.error = IF to \in {"Failed", "Cancelled"} \/ error # "none" THEN error ELSE @]
\* transition_state's bookkeeping.
Moved(r, to, error) ==
  [r EXCEPT !.state = to,
            !.finished = @ \/ to = "Completed",
            !.error = CASE to = "Completed" -> "none"
                        [] to \in {"Failed", "Cancelled"} -> error
                        [] OTHER -> IF error # "none" THEN error ELSE @]

Put(id, r) ==
  /\ mem' = [mem EXCEPT ![id] = r]
  /\ stage' = "save" /\ busy' = {id}
  /\ UNCHANGED <<policy, schema, row, todo, saved, refused>>

\* resume, retry, cancel, schedule and the errors of a run, with the text each
\* of them passes.
Reason(to) ==
  CASE to = "Paused" -> {"paused"}
    [] to = "Cancelled" -> {"cancelled"}
    [] to = "Failed" -> {"failed"}
    [] OTHER -> {"none"}
Move(id, to) ==
  /\ stage = "open" /\ to \notin {"Downloading", "Completed"}
  /\ CanTransition(mem[id].state, to)
  /\ \E error \in Reason(to) : Put(id, Moved(mem[id], to, error))

\* on_progress; a length the server has not announced leaves the last one.  The
\* engine reports nothing before the first bytes, except that an empty body has
\* ended: 0 of 0.
Progress(id, n, total) ==
  LET r == mem[id]
  IN  /\ stage = "open" /\ r.state \in Active
      /\ n = 0 => total = {0}
      /\ Put(id, [r EXCEPT !.state = "Downloading", !.started = TRUE, !.done = n,
                           !.total = IF total # {} THEN total ELSE @])

\* What the one backend there is returns: it always knows the total.
Outcome(n) == [done |-> n, total |-> {n}]

\* backend.run returned Ok: its outcome, then Completed; an outcome without a
\* total would leave the last one.
Finish(id, n) ==
  LET r == mem[id]
      outcome == Outcome(n)
  IN  /\ stage = "open" /\ r.state \in Active
      /\ Put(id, Moved([r EXCEPT !.done = outcome.done,
                                 !.total = IF outcome.total # {} THEN outcome.total ELSE @],
                       "Completed", "none"))

\* persistence.save of a record that is in the map.
Save(id) ==
  /\ stage = "save" /\ id \in busy
  /\ stage' = "open" /\ busy' = {}
  /\ row' = [row EXCEPT ![id] = Encoded(mem[id])]
  /\ saved' = [saved EXCEPT ![id] = mem[id]]
  /\ UNCHANGED <<policy, schema, todo, mem, refused>>

Refuse == refused < Refusals /\ refused' = refused + 1

Refused(id) ==
  /\ stage = "save" /\ id \in busy
  /\ Refuse
  /\ stage' = "open" /\ busy' = {}
  /\ UNCHANGED <<policy, schema, row, todo, mem, saved>>

\* remove: the record leaves the map, then the row is deleted.
Forget(id) ==
  /\ stage = "open" /\ mem[id] # None
  /\ mem' = [mem EXCEPT ![id] = None]
  /\ stage' = "delete" /\ busy' = {id}
  /\ UNCHANGED <<policy, schema, row, todo, saved, refused>>
Delete(id) ==
  /\ stage = "delete" /\ id \in busy
  /\ stage' = "open" /\ busy' = {}
  /\ \/ /\ row' = [row EXCEPT ![id] = None] /\ saved' = [saved EXCEPT ![id] = None]
        /\ UNCHANGED refused
     \/ Refuse /\ UNCHANGED <<row, saved>>
  /\ UNCHANGED <<policy, schema, todo, mem>>

Open ==
  \/ Connect \/ (\E v \in Versions : Begin(v)) \/ Apply \/ Note \/ Commit
  \/ List \/ (\E id \in Ids : Recover(id)) \/ Opened

Use(id) ==
  \/ Enqueue(id)
  \/ \E to \in States : Move(id, to)
  \/ \E n \in Bytes, total \in {{}} \cup {{m} : m \in Bytes} : Progress(id, n, total)
  \/ \E n \in Bytes : Finish(id, n)
  \/ Save(id) \/ Refused(id) \/ Forget(id) \/ Delete(id)

Next == Open \/ Crash \/ \E id \in Ids : Use(id) \/ OtherRelease(id)

Spec == Init /\ [][Next]_vars

(***************************************************************************)
(* Properties.                                                             *)
(***************************************************************************)
\* Type invariant: a row holds only numbers that fit its columns.
Fits(r) == r.done <= MaxInt /\ \A n \in r.total : n <= MaxInt
TypeOK ==
  /\ stage \in {"closed", "migrate", "recover", "open", "save", "delete"}
  /\ IF stage \in {"save", "delete"} THEN \E id \in Ids : busy = {id} ELSE busy = {}
  /\ policy \in {"Failed", "Queued"}
  /\ known \subseteq Versions /\ made \subseteq Versions /\ noted \subseteq Versions
  /\ tx \in [version : Versions \cup {0}, did : SUBSET {"sql", "note"}]
  /\ times \in [Versions -> 0..2]
  /\ row \in [Ids -> {r \in Records : Fits(r)} \cup {None, Foreign}]
  /\ mem \in [Ids -> Records \cup {None}] /\ saved \in [Ids -> Records \cup {None}]
  /\ todo \subseteq Ids /\ refused \in 0..Refusals

\* Each migration takes effect once, together with its note and after the ones
\* before it, wherever a process fails; no row is read before all have.
MigratedOnce ==
  /\ made = noted
  /\ \A v \in Versions : times[v] = IF v \in made THEN 1 ELSE 0
  /\ 2 \in made => 1 \in made
  /\ stage \notin {"closed", "migrate"} => made = Versions

\* What a restart makes of a record: a number beyond the columns is cut off, a
\* transfer that was in flight has been interrupted.
Restored(r) ==
  LET cut == r.state \in Active
  IN  IF r = None THEN None
      ELSE [r EXCEPT !.state = IF cut THEN policy ELSE @,
                     !.error = CASE ~cut -> @
                                 [] cut /\ policy = "Failed" -> "interrupted"
                                 [] OTHER -> "none",
                     !.started = @ /\ ~(cut /\ policy = "Queued"),
                     !.total = {n \in @ : n <= MaxInt},
                     !.done = IF @ <= MaxInt THEN @ ELSE MaxInt]

\* However many opens fail or crash in between, and wherever, a manager that
\* has opened holds each record that was saved, recovered once, and no other.
RestartFaithful ==
  [][stage = "recover" /\ stage' = "open" => \A id \in Ids : mem'[id] = Restored(saved[id])]_vars

\* While a row cannot be parsed, opening fails and takes nothing along: no other
\* row changes, so the downloads are as they were once the row is gone.
FailedOpenHarmless ==
  [][\A id \in Ids : row[id] = Foreign =>
       stage' # "open" /\ \A other \in Ids \ {id} : (row'[other] = row[other] \/ Foreign \in {row[other], row'[other]})]_vars

\* A record, its row too, tells how its download ended: completed, without an
\* error of an earlier attempt; cancelled or failed, with the error of that end;
\* and one that has not ended does not say when it completed.
Ended(r) ==
  /\ r.state = "Completed" => r.error = "none" /\ r.finished
  /\ r.state = "Cancelled" => r.error = "cancelled"
  /\ r.state = "Failed" => r.error \in {"failed", "interrupted"}
  /\ r.state \in {"Queued", "Paused"} \cup Active => ~r.finished
EndedExplained == \A id \in Ids : Ended(mem[id]) /\ Ended(row[id])

\* A completed download has as many bytes as its total says, whatever lengths
\* earlier attempts were told, and also after a restart that lost the total.
CompletedTotal ==
  \A id \in Ids : \A r \in {mem[id], row[id]} :
    r.state = "Completed" => \A n \in r.total : r.done = n
=============================================================================
