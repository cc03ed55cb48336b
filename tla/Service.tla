------------------------------- MODULE Service -------------------------------
(***************************************************************************)
(* The manager and the HTTP backend together: run_download awaits          *)
(* backend.run, which is DownloadEngine::download (download-engine's       *)
(* backend.rs).  Manager says which task runs, Transfer what the task does *)
(* between two of its awaits; run r of the one is task r of the other, and *)
(* the permit of its Notify is the signal the transfer looks at.  All      *)
(* downloads of an instance have the same destination.                     *)
(***************************************************************************)
EXTENDS Manager

CONSTANTS Place,                          \* the destination
          Replaces,                       \* the runs whose download may overwrite
          Existing, Sizes, MaxBody, Chunk, BufSize, Rate, Faults, Crashes,
          TimesOut, Nobody, Before        \* as in Transfer

ASSUME ServiceAssumption ==
  /\ Replaces \subseteq Runs /\ Existing \subseteq {Place}
  /\ Sizes \subseteq Nat
  /\ MaxBody \in Nat /\ Chunk \in Nat \ {0} /\ BufSize \in Nat \ {0} /\ Rate \in Nat
  /\ Faults \in BOOLEAN /\ Crashes \subseteq {"process", "machine"} /\ TimesOut \in BOOLEAN
  /\ Nobody # Before /\ Nobody \notin Runs /\ Before \notin Runs

VARIABLES pc, total, got, chunk, buf, part, synced, file, past,
          cut   \* whether a crash or an abort came between a rename and its row

Dests == {Place}
Dest == [r \in Runs |-> Place]

T == INSTANCE Transfer WITH
  Tasks <- Runs,
  signalled <- [r \in Runs |-> permit[r] # {} /\ pc[r] \in
                  {"connect", "create", "stream", "acquire", "write",
                   "flush", "sync", "finalize", "rename", "blind", "report"}]

work == <<pc, total, got, chunk, buf, part, synced, file, past>>
svars == <<vars, work, cut>>

ServiceInit == Init /\ T!Init /\ cut = FALSE

(***************************************************************************)
(* Steps of the manager only.                                              *)
(***************************************************************************)
\* on_progress is called after a chunk was written, and after the rename.
MayReport(r) == pc[r] = "report" \/ (pc[r] = "stream" /\ got[r] > 0)

Manages ==
  /\ \/ \E c \in Callers : Call(c)
     \/ \E a \in Actors : Segment(a)
     \/ \E r \in Runs : RunBegin(r) \/ (MayReport(r) /\ Progress(r)) \/ Report(r)
  /\ UNCHANGED <<work, cut>>

(***************************************************************************)
(* Steps of the backend, inside the manager's `backend.run(task).await`.   *)
(***************************************************************************)
\* An aborted task is not polled again, but a rename it has handed to the
\* blocking pool goes ahead.
Polls(r) == Resumes(r, "transfer") \/ (At(r, "transfer") /\ MayRun /\ pc[r] \in {"rename", "blind"})

\* What the host does, what the server does, and what fails.
HostStep(r) ==
  \/ T!Begin(r) \/ T!CreatePart(r) \/ T!Heed(r) \/ T!Acquire(r) \/ T!WriteChunk(r)
  \/ T!Flush(r) \/ T!Sync(r) \/ T!Finalize(r) \/ T!Rename(r)
ServerStep(r) == T!Connect(r) \/ T!Receive(r) \/ T!EndOfBody(r)
FailedStep(r) == \E l \in T!Running \ {"acquire", "report"} : T!Fails(r, l)

\* The manager's side of a step: it goes on waiting, or takes the error the
\* transfer ended with.
Awaits(r) ==
  \/ Polls(r) /\ UNCHANGED <<vars, cut>>
  \/ FinishErr(r) /\ UNCHANGED cut
Agree(r) ==
  IF At(r, "transfer")' THEN pc'[r] \in T!Running
  ELSE pc'[r] = (IF act'[r].to = "Failed" THEN "failed" ELSE "cancelled")

HostWork(r) == Awaits(r) /\ HostStep(r) /\ Agree(r)
ServerWork(r) == Awaits(r) /\ ServerStep(r) /\ Agree(r)
FailedWork(r) == Awaits(r) /\ FailedStep(r) /\ Agree(r)

\* The last on_progress was before this: nothing is Starting any more.
Returns(r) ==
  /\ At(r, "transfer") /\ st[act[r].id] # "Starting"
  /\ FinishOk(r)
  /\ T!Report(r)
  /\ UNCHANGED cut

\* Run r has renamed its file and the row is not Completed yet.
Settling(r) ==
  \/ pc[r] = "report"
  \/ act[r].pc \in {"move", "copy", "store"} /\ act[r].to = "Completed"

\* shutdown() drops the task wherever it awaits.
Drops(r) ==
  /\ Abort(r)
  /\ IF pc[r] \in T!Running THEN T!Abort(r) ELSE UNCHANGED work
  /\ cut' = (cut \/ Settling(r))

\* The process or the machine crashes, and the manager is opened again.
Restarted ==
  /\ Reopen
  /\ T!Kill \/ T!Crash
  /\ cut' = (cut \/ \E r \in Runs : Settling(r))

Backend(r) ==
  HostWork(r) \/ ServerWork(r) \/ FailedWork(r) \/ Returns(r) \/ Drops(r)

ServiceNext == Manages \/ (\E r \in Runs : Backend(r)) \/ Restarted

ServiceSpec == ServiceInit /\ [][ServiceNext]_svars

\* What brings run r on: its start, the awaits the host answers, the report that
\* ends Starting and, to a client with a request timeout, an answer or the error.
Advances(r) ==
  \/ RunBegin(r) /\ UNCHANGED <<work, cut>>
  \/ HostWork(r) \/ Returns(r)
  \/ /\ pc[r] = "report" /\ st[act[r].id] = "Starting"
     /\ Progress(r) /\ UNCHANGED <<work, cut>>
  \/ TimesOut /\ pc[r] = "connect" /\ (ServerWork(r) \/ FailedWork(r))

\* The fairness of the manager's own code, and of what a run waits for: tokio
\* polls a woken task again and again, a segment may come in between.
ServiceFair ==
  /\ \A a \in Actors : WF_svars(Segment(a) /\ UNCHANGED <<work, cut>>)
  /\ \A r \in Runs :
       /\ WF_svars(Report(r) /\ UNCHANGED <<work, cut>>)
       /\ WF_svars(Drops(r))
       /\ SF_svars(Advances(r))

FairService == ServiceSpec /\ ServiceFair

(***************************************************************************)
(* Properties.                                                             *)
(***************************************************************************)

\* A download that says Completed, in memory or in its row, has the complete
\* file of a run at its destination.
CompletedHasFile ==
  \A id \in Ids : "Completed" \in {st[id], db[id]} => T!Owner(file[Place]) \in Runs

\* A run that has put its file in place makes its download Completed: a pause,
\* a cancel or a failure that comes too late does not take that back.
DeliveredIsCompleted ==
  \A id \in Ids :
    /\ ~cut /\ T!Owner(file[Place]) \in Runs /\ \A r \in Runs : ~Settling(r)
    /\ st[id] # Absent
    => db[id] = "Completed"

\* A transfer that is signalled ends, however the calls, the scheduler and
\* its awaits interleave: what StoppableSpec takes for granted.
SignalStops ==
  \A r \in Runs : (Transferring(r) /\ permit[r] # {}) ~> ~Transferring(r)
=============================================================================
