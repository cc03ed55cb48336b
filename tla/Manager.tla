------------------------------- MODULE Manager -------------------------------
(***************************************************************************)
(* The download manager (crates/download-manager/src/manager.rs, with its  *)
(* queue, scheduler and the rows of its database).                         *)
(*                                                                         *)
(* An actor is a thread calling the API or a spawned run_download task.    *)
(* act[a] is the program counter and the locals of the code it executes;   *)
(* one step is one critical section of the code (each statement locks one  *)
(* mutex and drops it before the next), so the steps of two actors         *)
(* interleave exactly where the locks let them.  The pure code between two *)
(* critical sections is folded into one of them.                           *)
(*                                                                         *)
(* Workers is the number of OS threads that run actors.  With one thread   *)
(* (tokio's current_thread flavour, the one the repository's tests use)    *)
(* code between two awaits runs alone; with more, segments interleave.     *)
(***************************************************************************)
EXTENDS DownloadState, Naturals, Sequences, FiniteSets, SequencesExt

CONSTANTS
  Ids,        \* the download ids that may be created
  Callers,    \* threads that call the API
  Runs,       \* the run_download tasks (and their Notify), numbered, reused
  NoId,       \* no download
  Limit,      \* config.max_concurrent_downloads
  Workers,    \* OS threads
  Ops,        \* the API calls the callers make
  SaveFails,  \* whether SQLite may refuse a write
  Restarts,   \* whether the process may crash and be reopened
  Policy,     \* config.recover_interrupted
  Detachable  \* ids whose backend may be missing after a reopen

NoRun == 0
Actors == Callers \cup Runs

ASSUME ActorsAssumption ==
  /\ IsFiniteSet(Ids) /\ IsFiniteSet(Callers) /\ IsFiniteSet(Runs)
  /\ Runs \subseteq Nat \ {NoRun}
  /\ Callers \cap Runs = {}
  /\ NoId \notin Ids
ASSUME ConfigAssumption ==
  /\ Limit \in Nat
  /\ Workers \in Nat \ {0}
  /\ SaveFails \in BOOLEAN /\ Restarts \in BOOLEAN
  /\ Policy \in {"Failed", "Queued"}
  /\ Detachable \subseteq Ids

VARIABLES
  st,        \* state in the map (`downloads`), Absent when not in it
  cancel,    \* md.cancel: the task whose Notify it is
  handle,    \* md.handle: the task
  queue,     \* Queue.order
  intents,   \* pause_intents
  db,        \* state in the database row, Absent when there is no row
  created,   \* created_at, as a rank; 0 for an id not created yet
  detached,  \* ids whose backend is not in `backends`
  permit,    \* permit[r]: who signalled the Notify of r and was not yet heard
  aborted,   \* tasks whose JoinHandle was aborted
  told,      \* the state the last lifecycle event reported
  act        \* program counter and locals of each actor

map == <<st, cancel, handle>>
disk == <<db, created>>
signals == <<permit, aborted>>
vars == <<st, cancel, handle, queue, intents, db, created, detached,
          permit, aborted, told, act>>

(***************************************************************************)
(* Frames.  op is what the code returns to; id, to, snap and run are the   *)
(* locals it has read.                                                     *)
(***************************************************************************)
Frame(pc, op, id, to) ==
  [pc |-> pc, op |-> op, id |-> id, to |-> to, snap |-> Absent, run |-> NoRun]

PCs == {"idle", "done", "spawned", "transfer", "report", "insert", "push",
        "capacity", "intend", "signal", "unqueue", "forget", "erase", "count",
        "select", "take", "move", "copy", "store", "launch", "attach"}
OpNames == {"none", "run", "end", "orphan", "loop", "enqueue", "start",
            "pause", "requeue", "cancel", "remove", "shutdown"}

\* Where the code is not about one download.
Nameless == {"idle", "done", "count", "select"}

Frames ==
  {f \in [pc : PCs, op : OpNames, id : Ids \cup {NoId}, to : States \cup {Absent},
          snap : States \cup {Absent}, run : Runs \cup {NoRun}] :
     f.pc \notin Nameless => f.id \in Ids}

Rest(a) == Frame(IF a \in Runs THEN "done" ELSE "idle", "none", NoId, Absent)
Loop == Frame("count", "loop", NoId, Absent)
Transfer(id) == Frame("transfer", "run", id, Absent)

Goto(a, f) == act' = [act EXCEPT ![a] = f]
Step(a, pc) == act' = [act EXCEPT ![a].pc = pc]
At(a, pc) == act[a].pc = pc

\* Actors inside a segment; the others sit at an await or outside the API.
Busy == {a \in Actors : act[a].pc \notin {"idle", "done", "spawned", "transfer"}}
MayRun == Cardinality(Busy) < Workers

ActiveIds == {id \in Ids : st[id] \in Active}
\* Mutant: the last comparison admits one download too many.
HasRoomOffByOne == Cardinality(ActiveIds) <= Limit
\* scheduler::select_for_start and start: capacity left after `active`.
HasRoom == Cardinality(ActiveIds) < Limit

\* The elements of a finite set in the order of their ranks, which differ.  (What
\* SelectSeq and SetToSortSeq compute; they are recursive, and nothing could be
\* proved about them.)
Ordered(S, rank) ==
  [n \in 1..Cardinality(S) |->
     CHOOSE x \in S : Cardinality({y \in S : rank[y] <= rank[x]}) = n]

\* Queue::remove (retain).
Without(q, id) ==
  LET kept == Ordered({i \in DOMAIN q : q[i] # id}, [i \in DOMAIN q |-> i])
  IN  [n \in DOMAIN kept |-> q[kept[n]]]

\* A task object nobody refers to any more.
Free(r) ==
  /\ At(r, "done")
  /\ \A id \in Ids : cancel[id] # r /\ handle[id] # r
  /\ \A a \in Actors : act[a].run # r
NextFree(r) == Free(r) /\ \A q \in Runs : Free(q) => r <= q

\* Callers know an id from the returned value, an event or list().
Known(id) == st[id] # Absent \/ told[id] # Absent

Init ==
  /\ st = [id \in Ids |-> Absent]
  /\ cancel = [id \in Ids |-> NoRun]
  /\ handle = [id \in Ids |-> NoRun]
  /\ queue = <<>>
  /\ intents = {}
  /\ db = [id \in Ids |-> Absent]
  /\ created = [id \in Ids |-> 0]
  /\ detached = {}
  /\ permit = [r \in Runs |-> {}]
  /\ aborted = {}
  /\ told = [id \in Ids |-> Absent]
  /\ act = [a \in Actors |-> Rest(a)]

(***************************************************************************)
(* API calls: the first critical section of each.  A call whose checks     *)
(* fail returns Err and changes nothing, so it has no action.              *)
(***************************************************************************)
Calls(c, op) == At(c, "idle") /\ op \in Ops /\ MayRun

\* created_at of a download enqueued now: later than every earlier one.
Now == 1 + Cardinality({i \in Ids : created[i] # 0})

\* Mutant: enqueue leaves the first save to the first transition.
EnqueuedRowNone(id) == db
\* persistence.save of the new record.
EnqueuedRow(id) == [db EXCEPT ![id] = "Queued"]

\* enqueue up to persistence.save; a failed save returns Err.
CallEnqueue(c, id) ==
  /\ Calls(c, "enqueue")
  /\ created[id] = 0
  /\ id \notin detached
  /\ created' = [created EXCEPT ![id] = Now]
  /\ db' = EnqueuedRow(id)
  /\ Goto(c, Frame("insert", "enqueue", id, Absent))
  /\ UNCHANGED <<map, queue, intents, detached, signals, told>>

\* The calls that first read the state of the download with get(): what
\* they will do next depends on a state that may be stale when they do it.
Reads(c, op, id, from, f) ==
  /\ Calls(c, op)
  /\ st[id] \in from
  /\ Goto(c, f)
  /\ UNCHANGED <<map, queue, intents, disk, detached, signals, told>>

CallStart(c, id) ==
  Reads(c, "start", id, {"Queued"}, Frame("capacity", "start", id, "Starting"))
CallPause(c, id) ==
  Reads(c, "pause", id, Active, Frame("intend", "pause", id, Absent))
CallResume(c, id) ==
  Reads(c, "resume", id, {"Paused"}, Frame("move", "requeue", id, "Queued"))
CallRetry(c, id) ==
  Reads(c, "retry", id, {"Failed"}, Frame("move", "requeue", id, "Queued"))
\* Mutant: cancel moves an in-flight download straight to Cancelled.
CallCancelAtOnce(c, id) ==
  Reads(c, "cancel", id, Active, Frame("move", "cancel", id, "Cancelled"))
CallCancelActive(c, id) ==
  Reads(c, "cancel", id, Active, Frame("signal", "cancel", id, Absent))
\* Mutant: cancel leaves the id in the queue.
CallCancelInQueue(c, id) ==
  Reads(c, "cancel", id, {"Queued", "Paused", "Failed"},
        Frame("move", "cancel", id, "Cancelled"))
CallCancelWaiting(c, id) ==
  Reads(c, "cancel", id, {"Queued", "Paused", "Failed"},
        Frame("unqueue", "cancel", id, "Cancelled"))

\* Mutant: notify_waiters, which wakes only a task that already waits.
WaitingNow(r) == act[r].pc = "transfer"
\* The tasks that may still look at their Notify: notify_one leaves a permit
\* for a task that does not wait yet.
Listening(r) == act[r].pc \in {"spawned", "transfer", "report"}

\* notify_one on the Notify that md.cancel holds, if the id is in the map and
\* has one.  A second signal before the first is heard leaves one permit, and
\* the permit of a task that has ended is never looked at.
Notify(id, who) ==
  permit' = [r \in Runs |-> IF st[id] # Absent /\ cancel[id] = r /\ Listening(r)
                            THEN permit[r] \cup {who} ELSE permit[r]]

\* Mutant: remove leaves the transfer to find out by itself.
CallRemoveSilent(c, id) ==
  /\ Calls(c, "remove")
  /\ Known(id)
  /\ Goto(c, Frame("unqueue", "remove", id, Absent))
  /\ UNCHANGED <<map, queue, intents, disk, detached, permit, aborted, told>>
CallRemove(c, id) ==
  /\ Calls(c, "remove")
  /\ Known(id)
  /\ Notify(id, "remove")
  /\ Goto(c, Frame("unqueue", "remove", id, Absent))
  /\ UNCHANGED <<map, queue, intents, disk, detached, aborted, told>>

\* shutdown takes every handle and aborts it.
CallShutdown(c) ==
  /\ Calls(c, "shutdown")
  /\ handle' = [id \in Ids |-> NoRun]
  /\ aborted' = aborted \cup {r \in Runs : \E id \in Ids : handle[id] = r /\ ~At(r, "done")}
  /\ UNCHANGED <<st, cancel, queue, intents, disk, detached, permit, told, act>>

(***************************************************************************)
(* The rest of the calls.                                                  *)
(***************************************************************************)
Insert(a) ==
  /\ At(a, "insert")
  /\ st' = [st EXCEPT ![act[a].id] = "Queued"]
  /\ cancel' = [cancel EXCEPT ![act[a].id] = NoRun]
  /\ handle' = [handle EXCEPT ![act[a].id] = NoRun]
  /\ Step(a, "push")
  /\ UNCHANGED <<queue, intents, disk, detached, signals, told>>

\* Queue::enqueue, then the event (Event::Queued from enqueue), then schedule.
Push(a) ==
  /\ At(a, "push")
  /\ queue' = Append(queue, act[a].id)
  /\ told' = IF act[a].op = "enqueue" THEN [told EXCEPT ![act[a].id] = "Queued"]
             ELSE told
  /\ Goto(a, Loop)
  /\ UNCHANGED <<map, intents, disk, detached, signals>>

\* start: count_active() >= max_concurrent_downloads returns Ok(()).
Capacity(a) ==
  /\ At(a, "capacity")
  /\ IF HasRoom THEN Step(a, "unqueue") ELSE Goto(a, Rest(a))
  /\ UNCHANGED <<map, queue, intents, disk, detached, signals, told>>

\* start, cancel and remove take the id out of the queue.
Unqueue(a) ==
  /\ At(a, "unqueue")
  /\ queue' = Without(queue, act[a].id)
  /\ Step(a, IF act[a].op = "remove" THEN "forget" ELSE "move")
  /\ UNCHANGED <<map, intents, disk, detached, signals, told>>

Intend(a) ==
  /\ At(a, "intend")
  /\ intents' = intents \cup {act[a].id}
  /\ Step(a, "signal")
  /\ UNCHANGED <<map, queue, disk, detached, signals, told>>

Signal(a) ==
  /\ At(a, "signal")
  /\ Notify(act[a].id, act[a].op)
  /\ Goto(a, Rest(a))
  /\ UNCHANGED <<map, queue, intents, disk, detached, aborted, told>>

Forget(a) ==
  /\ At(a, "forget")
  /\ st' = [st EXCEPT ![act[a].id] = Absent]
  /\ cancel' = [cancel EXCEPT ![act[a].id] = NoRun]
  /\ handle' = [handle EXCEPT ![act[a].id] = NoRun]
  /\ Step(a, "erase")
  /\ UNCHANGED <<queue, intents, disk, detached, signals, told>>

\* persistence.remove(id)?; schedule() only when it succeeds.
Erase(a) ==
  /\ At(a, "erase")
  /\ \/ db' = [db EXCEPT ![act[a].id] = Absent] /\ Goto(a, Loop)
     \/ SaveFails /\ UNCHANGED db /\ Goto(a, Rest(a))
  /\ UNCHANGED <<map, queue, intents, created, detached, signals, told>>

(***************************************************************************)
(* schedule: count, select the first queued id, take it, begin it, repeat. *)
(***************************************************************************)
Count(a) ==
  /\ At(a, "count")
  /\ IF HasRoom THEN Step(a, "select") ELSE Goto(a, Rest(a))
  /\ UNCHANGED <<map, queue, intents, disk, detached, signals, told>>

Select(a) ==
  /\ At(a, "select")
  /\ \/ queue = <<>> /\ Goto(a, Rest(a))
     \/ \E id \in Ids : /\ queue # <<>> /\ id = Head(queue)
                        /\ Goto(a, Frame("take", "loop", id, "Starting"))
  /\ UNCHANGED <<map, queue, intents, disk, detached, signals, told>>

Take(a) ==
  /\ At(a, "take")
  /\ queue' = Without(queue, act[a].id)
  /\ Step(a, "move")
  /\ UNCHANGED <<map, intents, disk, detached, signals, told>>

(***************************************************************************)
(* transition_state: the state changes under the lock, the record is       *)
(* copied under a second lock, then saved, and the event published.        *)
(***************************************************************************)

\* Mutant: the end of a transfer does not wake the scheduler.
SchedulesNotAtEnd(op) == op \in {"loop", "orphan"}
\* The code that calls schedule() (or loops in it) after transition_state,
\* whether it succeeded or not.
SchedulesAfter(op) == op \in {"loop", "end", "orphan"}

\* Mutant: resume and retry leave the queue to schedule().
ContinueUnqueued(a, ok) ==
  LET f == act[a]
  IN  CASE ok /\ f.to = "Starting" -> [f EXCEPT !.pc = "launch", !.snap = Absent]
        [] OTHER -> IF SchedulesAfter(f.op) \/ f.to = "Queued" THEN Loop ELSE Rest(a)
\* What follows transition_state in the code that called it.
Continue(a, ok) ==
  LET f == act[a]
  IN  CASE ok /\ f.to = "Starting" -> [f EXCEPT !.pc = "launch", !.snap = Absent]
        [] ok /\ f.to = "Queued"   -> Frame("push", "requeue", f.id, Absent)
        [] OTHER -> IF SchedulesAfter(f.op) THEN Loop ELSE Rest(a)

\* run_download publishes its closing event whatever transition_state returned.
Announce(a, ok) ==
  IF ok \/ act[a].op = "end" THEN [told EXCEPT ![act[a].id] = act[a].to] ELSE told

Move(a) ==
  LET f == act[a]
  IN  /\ At(a, "move")
      /\ \/ /\ CanTransition(st[f.id], f.to)
            /\ st' = [st EXCEPT ![f.id] = f.to]
            /\ Step(a, "copy")
            /\ UNCHANGED told
         \/ /\ ~CanTransition(st[f.id], f.to)
            /\ told' = Announce(a, FALSE)
            /\ Goto(a, Continue(a, FALSE))
            /\ UNCHANGED st
      /\ UNCHANGED <<cancel, handle, queue, intents, disk, detached, signals>>

\* Mutant: the event is published before the row is written.
CopyThenTell(a) ==
  /\ At(a, "copy")
  /\ told' = Announce(a, TRUE)
  /\ Goto(a, IF st[act[a].id] = Absent THEN Continue(a, TRUE)
             ELSE [act[a] EXCEPT !.pc = "store", !.snap = st[act[a].id]])
  /\ UNCHANGED <<map, queue, intents, disk, detached, signals>>
\* An id removed meanwhile is not saved, and the event is published.
Copy(a) ==
  LET f == act[a]
  IN  /\ At(a, "copy")
      /\ \/ /\ st[f.id] # Absent
            /\ Goto(a, [f EXCEPT !.pc = "store", !.snap = st[f.id]])
            /\ UNCHANGED told
         \/ /\ st[f.id] = Absent
            /\ told' = Announce(a, TRUE)
            /\ Goto(a, Continue(a, TRUE))
      /\ UNCHANGED <<map, queue, intents, disk, detached, signals>>

Store(a) ==
  /\ At(a, "store")
  /\ \/ /\ db' = [db EXCEPT ![act[a].id] = act[a].snap]
        /\ told' = Announce(a, TRUE)
        /\ Goto(a, Continue(a, TRUE))
     \/ /\ SaveFails
        /\ told' = Announce(a, FALSE)
        /\ Goto(a, Continue(a, FALSE))
        /\ UNCHANGED db
  /\ UNCHANGED <<map, queue, intents, created, detached, signals>>

(***************************************************************************)
(* begin_download after its transition: a fresh Notify goes into the map   *)
(* and the task is spawned; its handle goes into the map under a later     *)
(* lock.                                                                   *)
(***************************************************************************)
Launch(a, r) ==
  LET f == act[a]
  IN  /\ At(a, "launch")
      /\ NextFree(r)
      /\ cancel' = IF st[f.id] = Absent THEN cancel ELSE [cancel EXCEPT ![f.id] = r]
      /\ aborted' = aborted \ {r}
      /\ act' = [act EXCEPT ![a] = [f EXCEPT !.pc = "attach", !.run = r],
                            ![r] = Frame("spawned", "run", f.id, Absent)]
      /\ UNCHANGED <<st, handle, queue, intents, disk, detached, permit, told>>

Attach(a) ==
  LET f == act[a]
  IN  /\ At(a, "attach")
      /\ handle' = IF st[f.id] = Absent THEN handle ELSE [handle EXCEPT ![f.id] = f.run]
      /\ Goto(a, IF f.op = "loop" THEN Loop ELSE Rest(a))
      /\ UNCHANGED <<st, cancel, queue, intents, disk, detached, signals, told>>

(***************************************************************************)
(* run_download.                                                           *)
(***************************************************************************)
Resumes(r, pc) == At(r, pc) /\ MayRun /\ (r \in aborted => Workers > 1)

\* The first poll: a download that left its slot meanwhile is not run.
RunBegin(r) ==
  LET id == act[r].id
  IN  /\ Resumes(r, "spawned")
      /\ IF st[id] \in Active /\ id \notin detached
         THEN Goto(r, Transfer(id)) /\ UNCHANGED permit
         ELSE /\ Goto(r, IF st[id] \in Active
                         THEN Frame("move", "orphan", id, "Failed") ELSE Rest(r))
              /\ permit' = [permit EXCEPT ![r] = {}]
      /\ UNCHANGED <<map, queue, intents, disk, detached, aborted, told>>

\* on_progress: the first bytes make Starting Downloading; `to` remembers
\* whether there is a change to publish.
Progress(r) ==
  LET id == act[r].id
      first == st[id] = "Starting"
  IN  /\ Resumes(r, "transfer")
      /\ st[id] # Absent
      /\ st' = IF first THEN [st EXCEPT ![id] = "Downloading"] ELSE st
      /\ Goto(r, [Frame("report", "run", id, IF first THEN "Downloading" ELSE Absent)
                    EXCEPT !.snap = st'[id]])
      /\ UNCHANGED <<cancel, handle, queue, intents, disk, detached, signals, told>>

\* Mutant: the write of the first progress report is skipped as too early.
ReportUnsaved(r) ==
  LET f == act[r]
  IN  /\ At(r, "report")
      /\ told' = IF f.to = Absent THEN told ELSE [told EXCEPT ![f.id] = f.to]
      /\ Goto(r, Transfer(f.id))
      /\ UNCHANGED <<map, queue, intents, disk, detached, signals>>
Report(r) ==
  LET f == act[r]
  IN  /\ At(r, "report")
      /\ \/ db' = [db EXCEPT ![f.id] = f.snap]
         \/ SaveFails /\ UNCHANGED db
      /\ told' = IF f.to = Absent THEN told ELSE [told EXCEPT ![f.id] = f.to]
      /\ Goto(r, Transfer(f.id))
      /\ UNCHANGED <<map, queue, intents, created, detached, signals>>

\* Mutant: a signal counts although the transfer has succeeded.
FinishOkStopped(r) ==
  /\ Resumes(r, "transfer")
  /\ permit' = [permit EXCEPT ![r] = {}]
  /\ Goto(r, Frame("move", "end", act[r].id, IF permit[r] = {} THEN "Completed" ELSE "Cancelled"))
  /\ UNCHANGED <<map, queue, intents, disk, detached, aborted, told>>
\* backend.run returned Ok: also with a signal it has not looked at.
FinishOk(r) ==
  /\ Resumes(r, "transfer")
  /\ permit' = [permit EXCEPT ![r] = {}]
  /\ Goto(r, Frame("move", "end", act[r].id, "Completed"))
  /\ UNCHANGED <<map, queue, intents, disk, detached, aborted, told>>

\* Mutant: only a transfer that has produced bytes can be paused.
StoppedIfStarted(r) ==
  IF act[r].id \in intents /\ st[act[r].id] = "Downloading" THEN "Paused" ELSE "Cancelled"
\* Error::Cancelled with a pause intent is a pause.
Stopped(r) == IF act[r].id \in intents THEN "Paused" ELSE "Cancelled"

\* Mutant: the intent is looked at and left in the set.
ConsumedNot(id) == intents
\* pause_intents.remove(&id), on every Err.
Consumed(id) == intents \ {id}

\* backend.run returned Err: Cancelled only if it was signalled.
FinishErr(r) ==
  /\ Resumes(r, "transfer")
  /\ \/ permit[r] # {} /\ Goto(r, Frame("move", "end", act[r].id, Stopped(r)))
     \/ Goto(r, Frame("move", "end", act[r].id, "Failed"))
  /\ permit' = [permit EXCEPT ![r] = {}]
  /\ intents' = Consumed(act[r].id)
  /\ UNCHANGED <<map, queue, disk, detached, aborted, told>>

\* An aborted task ends at its next await, without a word.
Abort(r) ==
  /\ r \in aborted
  /\ act[r].pc \in {"spawned", "transfer"}
  /\ Goto(r, Rest(r))
  /\ aborted' = aborted \ {r}
  /\ permit' = [permit EXCEPT ![r] = {}]
  /\ UNCHANGED <<map, queue, intents, disk, detached, told>>

(***************************************************************************)
(* A crash at any point, then DownloadManager::open on the same database   *)
(* (nothing else runs before recover returns, and a crash inside recover   *)
(* leaves rows on which recover does the same again).                      *)
(***************************************************************************)
\* Mutant: a state of its own for interrupted downloads.
RecoveredAsInterrupted(s) == IF s \in Active THEN "Interrupted" ELSE s
Recovered(s) == IF s \in Active THEN Policy ELSE s

\* Mutant: recovered downloads are not put back into the queue.
RowsForgotten(ids) == <<>>
\* persistence.list orders the rows by created_at.
RowsInOrder(ids) == Ordered(ids, created)

Reopen ==
  LET new == [id \in Ids |-> Recovered(db[id])]
  IN  /\ Restarts
      /\ st' = new
      /\ db' = new
      /\ queue' = RowsInOrder({id \in Ids : new[id] = "Queued"})
      /\ cancel' = [id \in Ids |-> NoRun]
      /\ handle' = [id \in Ids |-> NoRun]
      /\ intents' = {}
      /\ detached' \in SUBSET Detachable
      /\ permit' = [r \in Runs |-> {}]
      /\ aborted' = {}
      /\ told' = [id \in Ids |-> IF db[id] \in Active THEN new[id] ELSE told[id]]
      /\ act' = [a \in Actors |-> Rest(a)]
      /\ UNCHANGED created

(***************************************************************************)
(* Next and the specification.                                             *)
(***************************************************************************)
Call(c) ==
  \/ \E id \in Ids :
        \/ CallEnqueue(c, id) \/ CallStart(c, id) \/ CallPause(c, id)
        \/ CallResume(c, id) \/ CallRetry(c, id) \/ CallCancelActive(c, id)
        \/ CallCancelWaiting(c, id) \/ CallRemove(c, id)
  \/ CallShutdown(c)

Segment(a) ==
  \/ Insert(a) \/ Push(a) \/ Capacity(a) \/ Unqueue(a) \/ Intend(a)
  \/ Signal(a) \/ Forget(a) \/ Erase(a)
  \/ Count(a) \/ Select(a) \/ Take(a)
  \/ Move(a) \/ Copy(a) \/ Store(a) \/ Attach(a)
  \/ \E r \in Runs : Launch(a, r)

Task(r) ==
  \/ RunBegin(r) \/ Progress(r) \/ Report(r)
  \/ FinishOk(r) \/ FinishErr(r) \/ Abort(r)

Next ==
  \/ \E c \in Callers : Call(c)
  \/ \E a \in Actors : Segment(a)
  \/ \E r \in Runs : Task(r)
  \/ Reopen

Spec == Init /\ [][Next]_vars

\* Code between two awaits runs to its end, and tokio polls every task that
\* is ready again and again, whatever calls keep coming (its run queue is
\* FIFO): strong fairness, because a busy thread disables the poll.
Polled ==
  /\ \A a \in Actors : WF_vars(Segment(a))
  /\ \A r \in Runs : WF_vars(Report(r)) /\ WF_vars(Abort(r)) /\ SF_vars(RunBegin(r))

\* Every transfer ends, as it does with an HTTP client that has a
\* request_timeout and a limiter whose rate is not below a chunk.
TransfersEnd == \A r \in Runs : SF_vars(FinishOk(r) \/ FinishErr(r))

\* A transfer may stream for ever, but hears its signal (Transfer says when).
StoppableSpec ==
  Spec /\ Polled /\ \A r \in Runs : SF_vars(permit[r] # {} /\ (FinishOk(r) \/ FinishErr(r)))

(***************************************************************************)
(* Properties.                                                             *)
(***************************************************************************)

\* Nobody is inside a segment: what a caller sees once every call returned.
Resting == Busy = {}

\* The backend of run r is transferring (or reporting progress).
Transferring(r) == act[r].pc \in {"transfer", "report"}

\* Type invariant: the variables keep the types of the Rust fields.
TypeOK ==
  /\ st \in [Ids -> States \cup {Absent}]
  /\ cancel \in [Ids -> Runs \cup {NoRun}]
  /\ handle \in [Ids -> Runs \cup {NoRun}]
  /\ intents \in SUBSET Ids
  /\ db \in [Ids -> States \cup {Absent}]
  /\ created \in [Ids -> Nat]
  /\ detached \in SUBSET Ids
  /\ permit \in [Runs -> SUBSET OpNames]
  /\ aborted \in SUBSET Runs
  /\ told \in [Ids -> States \cup {Absent}]
  /\ act \in [Actors -> Frames]

\* An actor in frame f occupies the slot of id: its task until it has settled,
\* and before that the thread that is about to spawn the task.
Holding(f, id) ==
  /\ f.id = id
  /\ \/ f.pc \in {"spawned", "transfer", "report"}
     \/ f.pc = "move" /\ f.op \in {"end", "orphan"}
     \/ f.pc \in {"copy", "store", "launch"} /\ f.to = "Starting"
Holds(a, id) == Holding(act[a], id)

\* Two backend transfers never run for the same download, whatever calls,
\* progress reports and task ends interleave: they would write one part file.
SingleTransfer ==
  \A r, q \in Runs :
     Transferring(r) /\ Transferring(q) /\ act[r].id = act[q].id => r = q

\* Why SingleTransfer holds: a slot has one holder, nothing re-queues a
\* download while its slot is held, and a download being created is not yet
\* known to anybody else.
OneHolder ==
  \A a, b \in Actors, id \in Ids : Holds(a, id) /\ Holds(b, id) => a = b
HeldState ==
  \A a \in Actors, id \in Ids :
     Holds(a, id) => st[id] \in Active \cup {"Cancelled", Absent}
Inserting(f, id) == f.id = id /\ f.pc = "insert"
InsertFresh ==
  \A a, b \in Actors, id \in Ids : Inserting(act[a], id) =>
     st[id] = Absent /\ ~Holds(b, id) /\ (Inserting(act[b], id) => a = b)
Writing(f, id) == f.id = id /\ f.pc \in {"copy", "store"}
Uncreated ==
  \A id \in Ids : created[id] = 0 =>
     /\ st[id] = Absent /\ db[id] = Absent
     /\ \A a \in Actors : ~Holds(a, id) /\ ~Inserting(act[a], id) /\ ~Writing(act[a], id)
\* Only the end of a task moves to a settled state, other code only queues,
\* starts and cancels.
Target(f) ==
  /\ f.pc \in {"capacity", "unqueue", "take"} => f.op \notin {"end", "orphan"}
  /\ f.pc = "launch" => f.to = "Starting"
  /\ f.pc \in {"capacity", "unqueue", "take", "move"} =>
       f.to \in IF f.op \in {"end", "orphan"}
                THEN {"Completed", "Paused", "Failed", "Cancelled"}
                ELSE {"Queued", "Starting", "Cancelled", Absent}
Targets == \A a \in Actors : Target(act[a])
SlotInv ==
  OneHolder /\ HeldState /\ InsertFresh /\ Uncreated /\ Targets

\* The downloads in a slot never outnumber max_concurrent_downloads.
LimitRespected == Cardinality(ActiveIds) <= Limit

\* remove() gives a slot back before its transfer has stopped: beyond the limit
\* there are only transfers that have been told to stop.
OnlyStoppingBeyond ==
  Cardinality({r \in Runs : Transferring(r) /\ permit[r] = {}}) <= Limit

\* No wake-up of the scheduler is lost: at rest a queued download waits only
\* because the slots are full.
NoIdleSlot == Resting /\ queue # <<>> => ~HasRoom

\* At rest the queue holds the downloads in state Queued, each once.
QueueExact ==
  Resting => /\ ToSet(queue) = {id \in Ids : st[id] = "Queued"}
             /\ Len(queue) = Cardinality(ToSet(queue))

\* A download in state Queued is in the queue or some call is about to put
\* it there, start it or cancel it: it is never forgotten.
QueuedIsPending ==
  \A id \in Ids : st[id] = "Queued" =>
     id \in ToSet(queue) \/ \E a \in Busy : act[a].id = id

\* A slot is held only on behalf of a task that will give it back, or of the
\* thread that is about to spawn that task.
SlotHasRun == \A id \in Ids : st[id] \in Active => \E a \in Actors : Holds(a, id)

\* At rest a pause intent belongs to a transfer that has been told to stop: one
\* that outlived its transfer would turn a later cancel into a pause, one whose
\* task was not signalled would be a pause that returned Ok and never happens.
IntentsAnswered ==
  Resting => \A id \in intents :
    /\ st[id] \notin {"Queued", "Paused", "Failed"}
    /\ st[id] \in Active => \E r \in Runs : Holds(r, id) /\ permit[r] # {}

\* At rest the database row and the last event agree with the manager's map.
RecordsAgree ==
  Resting => \A id \in Ids : /\ db[id] = st[id]
                             /\ st[id] # Absent => told[id] = st[id]

\* A download the manager has accepted has a row: a crash cannot lose it.
AcceptedIsDurable == \A id \in Ids : st[id] # Absent => db[id] # Absent

\* A terminal state that was announced for a download the manager still holds
\* is the one a crash and restart would bring back.
AnnouncedSurvives ==
  \A id \in Ids : st[id] # Absent /\ told[id] \in Terminal => db[id] = told[id]

\* A transfer whose download was only ever paused does not end up Cancelled,
\* which could not be resumed.
SettlesAs(r, s) == act[r].pc = "transfer" /\ act'[r].pc = "move" /\ act'[r].to = s
PauseNeverCancels ==
  [][\A r \in Runs : SettlesAs(r, "Cancelled") => permit[r] # {"pause"}]_vars

\* Every queued download leaves the queue, if transfers end.
QueuedServed ==
  TransfersEnd => \A id \in Ids : (st[id] = "Queued") ~> (st[id] # "Queued")

\* A pause that was accepted takes the download out of its slot even when
\* the transfer would never end by itself.
PauseTakesEffect ==
  \A id \in Ids : (id \in intents /\ st[id] \in Active) ~> (st[id] \notin Active)

\* The manager implements the lifecycle its downloads are promised.
Promise == INSTANCE Lifecycle WITH
  state <- st,
  transfers <- [id \in Ids |->
                  Cardinality({r \in Runs : Transferring(r) /\ act[r].id = id})]
ImplementsLifecycle == Promise!Spec

(***************************************************************************)
(* Properties one would expect, and the code does not have (see README).   *)
(***************************************************************************)
\* A download that was removed has no row left: a restart would revive it.
RemovedIsGone ==
  Resting => \A id \in Ids : st[id] = Absent => db[id] = Absent

\* A transfer that was cancelled does not end up Paused, ready to be resumed.
CancelNeverPauses ==
  [][\A r \in Runs : SettlesAs(r, "Paused") => "cancel" \notin permit[r]]_vars

\* The transfers running at once never outnumber max_concurrent_downloads.
TransfersWithinLimit == Cardinality({r \in Runs : Transferring(r)}) <= Limit

\* No transfer runs for a download that has left its slot.
StoppedIsStopped ==
  \A r \in Runs : Transferring(r) => st[act[r].id] \in Active \cup {Absent}
=============================================================================
