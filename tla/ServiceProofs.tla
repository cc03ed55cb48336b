---------------------------- MODULE ServiceProofs ----------------------------
(***************************************************************************)
(* The manager with its backend, for any downloads with one destination,   *)
(* callers, tasks and threads, bodies and buffers of any length, and       *)
(* through crashes of the process: a download that says Completed has its  *)
(* file.  The manager's steps and the transfer's are put together from     *)
(* OneThreadProofs and TransferProofs.                                     *)
(***************************************************************************)
EXTENDS Service, OneThreadProofs

TP == INSTANCE TransferProofs WITH
  Tasks <- Runs,
  signalled <- [r \in Runs |-> permit[r] # {} /\ pc[r] \in
                  {"connect", "create", "stream", "acquire", "write",
                   "flush", "sync", "finalize", "rename", "blind", "report"}]

LEMMA TransferAssumed == TP!TransferAssumption
BY ServiceAssumption DEF TP!TransferAssumption, Dests, Dest

(***************************************************************************)
(* Every step of the service is a step of the manager, or none.            *)
(***************************************************************************)
LEMMA ManagerStep == ServiceNext => [Next]_vars
<1> SUFFICES ASSUME ServiceNext PROVE [Next]_vars
  OBVIOUS
<1>1. CASE Manages
  BY <1>1 DEF Manages, Next, Task
<1>2. ASSUME NEW r \in Runs, HostWork(r) \/ ServerWork(r) \/ FailedWork(r) PROVE [Next]_vars
  BY <1>2 DEF HostWork, ServerWork, FailedWork, Awaits, Next, Task
<1>3. ASSUME NEW r \in Runs, Returns(r) \/ Drops(r) PROVE [Next]_vars
  BY <1>3 DEF Returns, Drops, Next, Task
<1>4. CASE Restarted
  BY <1>4 DEF Restarted, Next
<1> QED
  BY <1>1, <1>2, <1>3, <1>4 DEF ServiceNext, Backend

\* What is proved of the manager holds in the composition.
THEOREM ServiceManages == ServiceSpec => Spec
<1>1. ServiceInit => Init
  BY DEF ServiceInit
<1>2. [ServiceNext]_svars => [Next]_vars
  BY ManagerStep DEF svars
<1> QED
  BY <1>1, <1>2, PTL DEF ServiceSpec, Spec

(***************************************************************************)
(* The files.                                                              *)
(***************************************************************************)
\* A run has put its complete file at the destination.
Delivered == TP!Owner(file[Place]) \in Runs

\* What a step does with the files and with the runs that have just renamed.
Files == TP!TInv' /\ (Delivered => Delivered') /\ (\A r \in Runs : pc'[r] = "report" => pc[r] = "report" \/ Delivered')

\* A step that leaves the file of the destination alone.
LEMMA FileAlone ==
  ASSUME TP!TInv', file' = file, \A r \in Runs : pc'[r] = "report" => pc[r] = "report"
  PROVE  Files
BY DEF Files, Delivered, TP!Owner

\* A rename delivers the complete file of the run.
LEMMA RenameFile ==
  ASSUME TP!TInv, NEW r \in Runs, TP!Rename(r)
  PROVE  Files
<1>1. TP!TInv'
  BY TransferAssumed, TP!StepDelivery DEF TP!Download
<1>2. Place \in Dests /\ file' = [file EXCEPT ![Place] = TP!Content(r, part[r], synced[r], TP!Whole(r))]
  BY DEF TP!Rename, TP!Set, Dest, Dests
<1>3. file'[Place].by = r
  BY <1>2 DEF TP!TInv, TP!Typed, TP!Content
<1>4. file'[Place].len = file'[Place].whole
  BY <1>1, <1>2 DEF TP!TInv, TP!DeliveryInv, TP!FilesSafe, TP!Safe
<1>5. Delivered'
  BY <1>3, <1>4 DEF Delivered, TP!Owner
<1> QED
  BY <1>1, <1>5 DEF Files

\* The steps of the instance in Service are those TransferProofs is about.
LEMMA SameSteps ==
  ASSUME NEW r \in Runs
  PROVE  /\ HostStep(r) \/ ServerStep(r) \/ T!Report(r) => TP!Download(r)
         /\ T!Rename(r) <=> TP!Rename(r)
         /\ FailedStep(r) => \E l \in TP!Running \ {"acquire", "report"} : TP!Fails(r, l)
         /\ T!Abort(r) => TP!Abort(r)
BY DEF HostStep, ServerStep, FailedStep,
       T!Begin, T!Connect, T!CreatePart, T!Heed, T!Receive, T!Acquire, T!WriteChunk, T!EndOfBody,
       T!Flush, T!Sync, T!Finalize, T!Rename, T!Report, T!Fails, T!Abort, T!Proceed, T!Taken,
       T!Goto, T!Set, T!Leave, T!Exists, T!Verified, T!Buffers, T!Whole, T!Content, T!NoFile,
       T!Running, T!locals, T!files,
       TP!Begin, TP!Connect, TP!CreatePart, TP!Heed, TP!Receive, TP!Acquire, TP!WriteChunk,
       TP!EndOfBody, TP!Flush, TP!Sync, TP!Finalize, TP!Rename, TP!Report, TP!Fails, TP!Abort,
       TP!Proceed, TP!Taken, TP!Download, TP!Goto, TP!Set, TP!Leave, TP!Exists, TP!Verified, TP!Buffers, TP!Whole,
       TP!Content, TP!NoFile, TP!Running, TP!locals, TP!files

\* A step of the transfer itself.
LEMMA TransferFiles ==
  ASSUME TP!TInv, NEW r \in Runs, HostStep(r) \/ ServerStep(r) \/ T!Report(r)
  PROVE  Files
<1>1. CASE T!Rename(r)
  BY <1>1, SameSteps, RenameFile
<1>2. CASE ~T!Rename(r)
  <2>1. TP!TInv'
    BY TransferAssumed, SameSteps, TP!StepDelivery
  <2>2. TP!Download(r) /\ ~TP!Rename(r)
    BY <1>2, SameSteps
  <2>3. file' = file /\ \A q \in Runs : pc'[q] = "report" => pc[q] = "report"
    BY <2>2 DEF TP!TInv, TP!Typed, TP!Download, TP!Begin, TP!Connect, TP!CreatePart, TP!Heed,
       TP!Receive, TP!Acquire, TP!WriteChunk, TP!EndOfBody, TP!Flush, TP!Sync, TP!Finalize,
       TP!Proceed, TP!Report, TP!Goto, TP!Leave, TP!files, TP!Set
  <2> QED
    BY <2>1, <2>3, FileAlone
<1> QED
  BY <1>1, <1>2

\* A transfer that fails or is dropped leaves the files alone.
LEMMA LeaveFiles ==
  ASSUME TP!TInv, NEW r \in Runs, FailedStep(r) \/ T!Abort(r)
  PROVE  Files
<1>1. PICK l \in {"idle", "failed"} : TP!Leave(r, l) /\ UNCHANGED TP!files
  BY SameSteps DEF TP!Fails, TP!Abort
<1>2. TP!TInv'
  BY <1>1, TransferAssumed, TP!LeaveDelivery
<1>3. file' = file /\ \A q \in Runs : pc'[q] = "report" => pc[q] = "report"
  BY <1>1 DEF TP!TInv, TP!Typed, TP!Leave, TP!Goto, TP!files
<1> QED
  BY <1>2, <1>3, FileAlone

LEMMA WorkAlone ==
  ASSUME TP!TInv, UNCHANGED work
  PROVE  Files
<1>1. UNCHANGED <<pc, total, got, chunk, buf, part, synced, file, past>>
  BY DEF work
<1>2. TP!TInv'
  BY <1>1 DEF TP!TInv, TP!Typed, TP!DeliveryInv, TP!Received, TP!FilesSafe, TP!Verified
<1> QED
  BY <1>1, <1>2, FileAlone

LEMMA ServiceFiles ==
  ASSUME ~T!Crash, TP!TInv, [ServiceNext]_svars
  PROVE  Files
<1>1. CASE Manages
  BY <1>1, WorkAlone DEF Manages
<1>2. ASSUME NEW r \in Runs, HostWork(r) \/ ServerWork(r) \/ FailedWork(r) PROVE Files
  BY <1>2, TransferFiles, LeaveFiles DEF HostWork, ServerWork, FailedWork
<1>3. ASSUME NEW r \in Runs, Returns(r) PROVE Files
  BY <1>3, TransferFiles DEF Returns
<1>4. ASSUME NEW r \in Runs, Drops(r) PROVE Files
  BY <1>4, LeaveFiles, WorkAlone DEF Drops
<1>5. CASE Restarted
  <2>1. TP!Kill
    BY <1>5 DEF Restarted, T!Kill, TP!Kill, T!Lost, TP!Lost, T!files, TP!files
  <2>2. TP!TInv'
    BY <2>1, TransferAssumed, TP!KillDelivery
  <2> QED
    BY <2>1, <2>2, FileAlone DEF TP!Kill, TP!Lost, TP!files
<1>6. CASE UNCHANGED svars
  BY <1>6, WorkAlone DEF svars
<1> QED
  BY <1>1, <1>2, <1>3, <1>4, <1>5, <1>6 DEF ServiceNext, Backend

(***************************************************************************)
(* The word "Completed": only a backend that returns Ok brings it up.      *)
(***************************************************************************)
Unsaid ==
  /\ \A id \in Ids : st[id] # "Completed" /\ db[id] # "Completed"
  /\ \A a \in Actors : act[a].to # "Completed" /\ act[a].snap # "Completed"

LEMMA UnsaidGoto ==
  ASSUME TypeOK, Unsaid, NEW a \in Actors, NEW g, Goto(a, g),
         g.to # "Completed", g.snap # "Completed",
         \A id \in Ids : st'[id] # "Completed" /\ db'[id] # "Completed"
  PROVE  Unsaid'
BY DEF Goto, TypeOK, Unsaid

LEMMA UnsaidStep ==
  ASSUME TypeOK, Unsaid, NEW a \in Actors, NEW l, act' = [act EXCEPT ![a].pc = l],
         \A id \in Ids : st'[id] # "Completed" /\ db'[id] # "Completed"
  PROVE  Unsaid'
<1>1. act[a] \in Frames
  BY DEF TypeOK
<1> QED
  BY <1>1 DEF TypeOK, Unsaid, Frames

\* The frames a step can leave an actor with.
LEMMA PlainFrames ==
  ASSUME TypeOK, Unsaid, NEW a \in Actors
  PROVE  /\ Rest(a).to # "Completed" /\ Rest(a).snap # "Completed"
         /\ Loop.to # "Completed" /\ Loop.snap # "Completed"
         /\ \A ok : Continue(a, ok).to # "Completed" /\ Continue(a, ok).snap # "Completed"
         /\ \A id : Transfer(id).to # "Completed" /\ Transfer(id).snap # "Completed"
<1>1. act[a] \in Frames
  BY DEF TypeOK
<1> QED
  BY <1>1 DEF Unsaid, Rest, Loop, Transfer, Continue, Frame, Absent, Frames

LEMMA UnsaidCall ==
  ASSUME TypeOK, Unsaid, NEW c \in Callers, Call(c)
  PROVE  Unsaid'
<1>0. c \in Actors
  BY DEF Actors
<1>1. CASE \E id \in Ids : CallEnqueue(c, id)
  BY <1>0, <1>1, UnsaidGoto DEF CallEnqueue, EnqueuedRow, Frame, Absent, map, TypeOK, Unsaid
<1>2. CASE \E id \in Ids : CallRemove(c, id)
  BY <1>0, <1>2, UnsaidGoto DEF CallRemove, Frame, Absent, map, disk, Unsaid
<1>3. CASE CallShutdown(c)
  BY <1>3 DEF CallShutdown, disk, Unsaid
<1>4. CASE \E id \in Ids : \/ CallStart(c, id) \/ CallPause(c, id) \/ CallResume(c, id)
                           \/ CallRetry(c, id) \/ CallCancelActive(c, id) \/ CallCancelWaiting(c, id)
  BY <1>0, <1>4, UnsaidGoto DEF CallStart, CallPause, CallResume, CallRetry, CallCancelActive,
     CallCancelWaiting, Reads, Frame, Absent, map, disk, Unsaid
<1> QED
  BY <1>1, <1>2, <1>3, <1>4 DEF Call

LEMMA UnsaidSegment ==
  ASSUME TypeOK, Unsaid, NEW a \in Actors, Segment(a)
  PROVE  Unsaid'
<1> DEFINE Rows == \A id \in Ids : st'[id] # "Completed" /\ db'[id] # "Completed"
<1>f. act[a] \in Frames
  BY DEF TypeOK
<1>1. CASE Insert(a) \/ Unqueue(a) \/ Intend(a) \/ Take(a) \/ Forget(a)
  <2>1. Rows
    BY <1>1 DEF Insert, Unqueue, Intend, Take, Forget, map, disk, Absent, TypeOK, Unsaid
  <2> QED
    BY <1>1, <2>1, UnsaidStep DEF Insert, Unqueue, Intend, Take, Forget, Step
<1>2. CASE Push(a) \/ Signal(a)
  BY <1>2, UnsaidGoto, PlainFrames DEF Push, Signal, map, disk, Unsaid
<1>3. CASE Capacity(a) \/ Count(a)
  BY <1>3, UnsaidGoto, UnsaidStep, PlainFrames DEF Capacity, Count, Step, map, disk, Unsaid
<1>4. CASE Erase(a)
  BY <1>4, UnsaidGoto, PlainFrames DEF Erase, map, Absent, TypeOK, Unsaid
<1>5. CASE Select(a)
  BY <1>5, UnsaidGoto, PlainFrames DEF Select, Frame, Absent, map, disk, Unsaid
<1>6. CASE Move(a)
  <2>1. CASE CanTransition(st[act[a].id], act[a].to)
    <3>1. Rows
      BY <1>6, <2>1 DEF Move, disk, TypeOK, Unsaid
    <3> QED
      BY <1>6, <2>1, <3>1, UnsaidStep DEF Move, Step
  <2>2. CASE ~CanTransition(st[act[a].id], act[a].to)
    BY <1>6, <2>2, UnsaidGoto, PlainFrames DEF Move, disk, Unsaid
  <2> QED
    BY <2>1, <2>2
<1>7. CASE Copy(a)
  <2>1. st[act[a].id] # "Completed" \/ act[a].id \notin Ids
    BY DEF Unsaid
  <2>2. act[a].id \in Ids
    BY <1>7, <1>f DEF Copy, At, Frames, Nameless
  <2>3. CASE Goto(a, [act[a] EXCEPT !.pc = "store", !.snap = st[act[a].id]])
    <3>1. [act[a] EXCEPT !.pc = "store", !.snap = st[act[a].id]].to = act[a].to
          /\ [act[a] EXCEPT !.pc = "store", !.snap = st[act[a].id]].snap = st[act[a].id]
      BY <1>f DEF Frames
    <3> QED
      BY <1>7, <2>1, <2>2, <2>3, <3>1, UnsaidGoto DEF Copy, map, disk, Unsaid
  <2>4. CASE Goto(a, Continue(a, TRUE))
    BY <1>7, <2>4, UnsaidGoto, PlainFrames DEF Copy, map, disk, Unsaid
  <2> QED
    BY <1>7, <2>3, <2>4 DEF Copy
<1>8. CASE Store(a)
  <2>1. Rows
    BY <1>8 DEF Store, map, TypeOK, Unsaid
  <2> QED
    BY <1>8, <2>1, UnsaidGoto, PlainFrames DEF Store
<1>9. CASE Attach(a)
  BY <1>9, UnsaidGoto, PlainFrames DEF Attach, disk, Unsaid
<1>10. ASSUME NEW r \in Runs, Launch(a, r) PROVE Unsaid'
  <2>1. UNCHANGED <<st, db>>
    BY <1>10 DEF Launch, disk
  <2>2. act' = [act EXCEPT ![a] = [act[a] EXCEPT !.pc = "attach", !.run = r],
                           ![r] = Frame("spawned", "run", act[a].id, Absent)]
    BY <1>10 DEF Launch
  <2> QED
    BY <1>f, <2>1, <2>2 DEF Frames, Frame, Absent, TypeOK, Unsaid
<1> QED
  BY <1>1, <1>2, <1>3, <1>4, <1>5, <1>6, <1>7, <1>8, <1>9, <1>10 DEF Segment

LEMMA UnsaidTask ==
  ASSUME TypeOK, Unsaid, NEW r \in Runs,
         RunBegin(r) \/ Progress(r) \/ Report(r) \/ FinishErr(r) \/ Abort(r)
  PROVE  Unsaid'
<1>0. r \in Actors /\ act[r] \in Frames
  BY DEF TypeOK, Actors
<1>1. CASE RunBegin(r)
  BY <1>0, <1>1, UnsaidGoto, PlainFrames DEF RunBegin, Frame, Absent, map, disk, Unsaid
<1>2. CASE Progress(r)
  <2> DEFINE id == act[r].id
             g == [Frame("report", "run", id, IF st[id] = "Starting" THEN "Downloading" ELSE Absent)
                     EXCEPT !.snap = st'[id]]
  <2>1. id \in Ids
    BY <1>0, <1>2 DEF Progress, Resumes, At, Frames, Nameless
  <2>2. st' = (IF st[id] = "Starting" THEN [st EXCEPT ![id] = "Downloading"] ELSE st) /\ Goto(r, g)
        /\ db' = db
    BY <1>2 DEF Progress, disk
  <2>3. \A i \in Ids : st'[i] # "Completed" /\ db'[i] # "Completed"
    BY <2>2 DEF TypeOK, Unsaid
  <2>4. g.to # "Completed" /\ g.snap # "Completed"
    BY <2>1, <2>3 DEF Frame, Absent
  <2> QED
    BY <1>0, <2>2, <2>3, <2>4, UnsaidGoto
<1>3. CASE Report(r)
  <2>1. \A id \in Ids : st'[id] # "Completed" /\ db'[id] # "Completed"
    BY <1>0, <1>3 DEF Report, map, TypeOK, Unsaid
  <2> QED
    BY <1>0, <1>3, <2>1, UnsaidGoto, PlainFrames DEF Report
<1>4. CASE FinishErr(r)
  BY <1>0, <1>4, UnsaidGoto DEF FinishErr, Stopped, Frame, Absent, map, disk, Unsaid
<1>5. CASE Abort(r)
  BY <1>0, <1>5, UnsaidGoto, PlainFrames DEF Abort, map, disk, Unsaid
<1> QED
  BY <1>1, <1>2, <1>3, <1>4, <1>5

LEMMA UnsaidReopen ==
  ASSUME TypeOK, Unsaid, Reopen
  PROVE  Unsaid'
<1>1. \A id \in Ids : st'[id] # "Completed" /\ db'[id] # "Completed"
  BY ConfigAssumption DEF Reopen, Recovered, Unsaid
<1>2. \A a \in Actors : act'[a].to # "Completed" /\ act'[a].snap # "Completed"
  BY DEF Reopen, Rest, Frame, Absent
<1> QED
  BY <1>1, <1>2 DEF Unsaid

(***************************************************************************)
(* Together.                                                               *)
(***************************************************************************)
\* Until a run has delivered, none is past its rename and nobody has heard of
\* a completed download.
Backed == Delivered \/ (Unsaid /\ \A r \in Runs : pc[r] # "report")

LEMMA UnsaidService ==
  ASSUME TypeOK, Unsaid, \A r \in Runs : pc[r] # "report", [ServiceNext]_svars
  PROVE  Unsaid'
<1>1. CASE Manages
  BY <1>1, UnsaidCall, UnsaidSegment, UnsaidTask DEF Manages
<1>2. ASSUME NEW r \in Runs, HostWork(r) \/ ServerWork(r) \/ FailedWork(r) PROVE Unsaid'
  <2>1. FinishErr(r) \/ UNCHANGED vars
    BY <1>2 DEF HostWork, ServerWork, FailedWork, Awaits
  <2> QED
    BY <2>1, UnsaidTask DEF vars, Unsaid
<1>3. ASSUME NEW r \in Runs, Returns(r) PROVE Unsaid'
  BY <1>3, SameSteps DEF Returns, T!Report
<1>4. ASSUME NEW r \in Runs, Drops(r) PROVE Unsaid'
  BY <1>4, UnsaidTask DEF Drops
<1>5. CASE Restarted
  BY <1>5, UnsaidReopen DEF Restarted
<1>6. CASE UNCHANGED svars
  BY <1>6 DEF svars, vars, Unsaid
<1> QED
  BY <1>1, <1>2, <1>3, <1>4, <1>5, <1>6 DEF ServiceNext, Backend

LEMMA BackedNext ==
  ASSUME "machine" \notin Crashes, TypeOK, TP!TInv, Backed, [ServiceNext]_svars
  PROVE  TP!TInv' /\ Backed'
<1>1. Files
  BY ServiceFiles DEF T!Crash
<1>2. CASE Delivered
  BY <1>1, <1>2 DEF Files, Backed
<1>3. CASE ~Delivered
  BY <1>1, <1>3, UnsaidService DEF Files, Backed
<1> QED
  BY <1>2, <1>3

\* A download that says Completed, in the map or in its row, has a complete file
\* of one of its runs at its destination, whatever else is paused, cancelled,
\* retried, removed, aborted or killed (run_download moves to Completed only
\* after DownloadEngine::download has renamed the part file).
THEOREM CompletedBacked ==
  ASSUME "machine" \notin Crashes
  PROVE  ServiceSpec => []CompletedHasFile
<1>1. ServiceSpec => []TypeOK
  BY ServiceManages, TypeCorrect, PTL
<1>2. ServiceInit => TP!TInv /\ Backed
  <2>1. T!Init => TP!Init
    BY DEF T!Init, TP!Init, T!OldFile, TP!OldFile, T!NoFile, TP!NoFile, T!Content, TP!Content
  <2>2. ServiceInit => Unsaid /\ \A r \in Runs : pc[r] # "report"
    BY DEF ServiceInit, Init, Unsaid, Rest, Frame, Absent, T!Init
  <2> QED
    BY <2>1, <2>2, TransferAssumed, TP!InitDelivery DEF ServiceInit, Backed
<1>3. TypeOK /\ TP!TInv /\ Backed /\ [ServiceNext]_svars => (TP!TInv /\ Backed)'
  BY BackedNext
<1>4. Backed => CompletedHasFile
  BY DEF Backed, Delivered, Unsaid, CompletedHasFile, T!Owner, TP!Owner
<1> QED
  BY <1>1, <1>2, <1>3, <1>4, PTL DEF ServiceSpec

\* A crash of the machine leaves complete files complete here too.
LEMMA CrashFiles ==
  ASSUME TP!TInv, T!Crash
  PROVE  TP!TInv' /\ TP!Crash
<1>1. TP!Crash
  <2>1. \A c : T!Torn(c) = TP!Torn(c)
    BY DEF T!Torn, TP!Torn
  <2>2. TP!Lost
    BY DEF T!Crash, T!Lost, TP!Lost
  <2>3. \A d \in Dests : file'[d] \in TP!Torn(past[d]) \cup TP!Torn(file[d])
    BY <2>1 DEF T!Crash
  <2>4. file' \in [Dests -> UNION {TP!Torn(past[d]) \cup TP!Torn(file[d]) : d \in Dests}]
    BY <2>1, <2>3, Zenon DEF T!Crash
  <2> QED
    BY <2>2, <2>3, <2>4 DEF T!Crash, TP!Crash
<1> QED
  BY <1>1, TransferAssumed, TP!CrashDelivery

LEMMA FilesTyped == ServiceSpec => []TP!TInv
<1>1. ServiceInit => TP!TInv
  <2>1. T!Init => TP!Init
    BY DEF T!Init, TP!Init, T!OldFile, TP!OldFile, T!NoFile, TP!NoFile, T!Content, TP!Content
  <2> QED
    BY <2>1, TransferAssumed, TP!InitDelivery DEF ServiceInit
<1>2. TP!TInv /\ [ServiceNext]_svars => TP!TInv'
  BY CrashFiles, ServiceFiles DEF Files
<1> QED
  BY <1>1, <1>2, PTL DEF ServiceSpec

\* Whatever runs share the destination: no incomplete file is ever there, also
\* after a crash of the process or of the machine.
THEOREM ServiceNotTorn == ServiceSpec => []TP!NeverTorn
<1>1. TP!TInv => TP!NeverTorn
  BY DEF TP!TInv, TP!DeliveryInv, TP!FilesSafe, TP!Safe, TP!NeverTorn
<1> QED
  BY <1>1, FilesTyped, PTL

(***************************************************************************)
(* What a rename starts is brought to its end.  On one thread nobody else  *)
(* runs between the return of the backend and the write of the row, and    *)
(* the table lets a download complete from wherever its slot finds it.     *)
(***************************************************************************)

\* The part of transition_state that brings "Completed" to the row.
Late(f) == f.pc \in {"move", "copy", "store"} /\ f.to = "Completed"

\* A download that is settled for good: completed, or removed.
Closed(id) ==
  /\ st[id] \in {Absent, "Completed"} /\ db[id] \in {Absent, "Completed"}
  /\ created[id] # 0

\* Everything but a crash.
Lives ==
  \/ \E c \in Callers : Call(c)
  \/ \E a \in Actors : Segment(a)
  \/ \E r \in Runs : Task(r)
  \/ UNCHANGED vars

\* A transfer is at work only inside its run_download.
Attended == \A r \in Runs : pc[r] \in TP!Running => Transferring(r)

\* A run that may be brought back by a crash has been there.
Outlived == TP!Owner(past[Place]) \in Runs => Delivered

\* Once a run has renamed its file, some run is about to settle or the
\* download is closed.
Settled(id) ==
  Delivered /\ ~cut => Closed(id) \/ \E r \in Runs : Settling(r)

\* A download that is still to be inserted is not closed, so a closed one stays
\* as it is: no code moves it on, and whoever writes its row writes its state.
LEMMA ClosedStays ==
  ASSUME ~SaveFails, TypeOK, SlotInv, RecordInv, [Next]_vars, NEW id \in Ids, Closed(id)
  PROVE  Closed(id)'
<1> DEFINE Rows == <<st[id], db[id], created[id]>>
<1>0. UNCHANGED Rows => Closed(id)'
  BY DEF Closed
<1>1. ASSUME NEW c \in Callers, Call(c) PROVE Closed(id)'
  <2>1. ASSUME NEW i \in Ids, CallEnqueue(c, i) PROVE Closed(id)'
    <3>1. i # id /\ st' = st /\ db' = [db EXCEPT ![i] = "Queued"] /\ created' = [created EXCEPT ![i] = Now]
      BY <2>1 DEF CallEnqueue, EnqueuedRow, map, Closed
    <3> QED
      BY <1>0, <3>1 DEF TypeOK
  <2>2. CASE ~\E i \in Ids : CallEnqueue(c, i)
    <3>1. UNCHANGED <<st, db, created>>
      BY <1>1, <2>2 DEF Call, CallStart, CallPause, CallResume, CallRetry, CallCancelActive,
         CallCancelWaiting, CallRemove, CallShutdown, Reads, map, disk
    <3> QED
      BY <1>0, <3>1
  <2> QED
    BY <2>1, <2>2
<1>2. ASSUME NEW a \in Actors, Segment(a) PROVE Closed(id)'
  <2>h. Honest(act[a]) /\ act[a] \in Frames
    BY DEF RecordInv, TypeOK
  <2>1. CASE Insert(a)
    <3>1. act[a].id # id
      BY <2>1, <2>h DEF Insert, At, Honest, Closed, Absent
    <3> QED
      BY <1>0, <2>1, <3>1 DEF Insert, disk, TypeOK
  <2>2. CASE Erase(a)
    <3>1. st' = st /\ created' = created /\ db' = [db EXCEPT ![act[a].id] = Absent]
      BY <2>2 DEF Erase, map
    <3> QED
      BY <3>1 DEF Closed, TypeOK
  <2>3. CASE Forget(a)
    <3>1. db' = db /\ created' = created /\ st' = [st EXCEPT ![act[a].id] = Absent]
      BY <2>3 DEF Forget, disk
    <3> QED
      BY <3>1 DEF Closed, TypeOK
  <2>4. CASE Move(a)
    <3>1. CanTransition(st[act[a].id], act[a].to) => act[a].id # id
      BY DEF Closed, CanTransition, NextStates, States, Absent
    <3>2. db' = db /\ created' = created /\ st'[id] = st[id]
      BY <2>4, <3>1 DEF Move, disk, TypeOK
    <3> QED
      BY <1>0, <3>2
  <2>5. CASE Store(a)
    <3>1. st' = st /\ created' = created /\ db' = [db EXCEPT ![act[a].id] = act[a].snap]
      BY <2>5 DEF Store, map
    <3>2. act[a].id = id => act[a].snap = st[id]
      BY <2>5, <2>h DEF Store, At, Honest
    <3> QED
      BY <3>1, <3>2 DEF Closed, TypeOK
  <2>6. CASE UNCHANGED <<st, db, created>>
    BY <1>0, <2>6
  <2>7. Push(a) \/ Capacity(a) \/ Unqueue(a) \/ Intend(a) => UNCHANGED <<st, db, created>>
    BY DEF Push, Capacity, Unqueue, Intend, map, disk
  <2>8. Signal(a) \/ Count(a) \/ Select(a) \/ Take(a) => UNCHANGED <<st, db, created>>
    BY DEF Signal, Count, Select, Take, map, disk
  <2>9. Copy(a) \/ Attach(a) => UNCHANGED <<st, db, created>>
    BY DEF Copy, Attach, map, disk
  <2>10. \A r \in Runs : Launch(a, r) => UNCHANGED <<st, db, created>>
    BY DEF Launch, disk
  <2> QED
    BY <1>2, <2>1, <2>2, <2>3, <2>4, <2>5, <2>6, <2>7, <2>8, <2>9, <2>10 DEF Segment
<1>3. ASSUME NEW r \in Runs, Task(r) PROVE Closed(id)'
  <2>1. CASE Progress(r)
    <3>1. st'[id] = st[id]
      BY <2>1 DEF Progress, TypeOK, Closed, Absent
    <3> QED
      BY <1>0, <2>1, <3>1 DEF Progress, disk
  <2>2. CASE Report(r)
    <3>1. st' = st /\ created' = created /\ db' = [db EXCEPT ![act[r].id] = act[r].snap]
      BY <2>2 DEF Report, map
    <3>2. act[r].id = id => act[r].snap = st[id]
      BY <2>2 DEF Report, At, RecordInv, Honest, Actors
    <3> QED
      BY <3>1, <3>2 DEF Closed, TypeOK
  <2>3. RunBegin(r) \/ FinishOk(r) => UNCHANGED <<st, db, created>>
    BY DEF RunBegin, FinishOk, map, disk
  <2>4. FinishErr(r) \/ Abort(r) => UNCHANGED <<st, db, created>>
    BY DEF FinishErr, Abort, map, disk
  <2> QED
    BY <1>0, <1>3, <2>1, <2>2, <2>3, <2>4 DEF Task
<1>4. CASE Reopen
  <2>1. st'[id] = Recovered(db[id]) /\ db'[id] = Recovered(db[id]) /\ created' = created
    BY <1>4 DEF Reopen
  <2>2. Recovered(db[id]) = db[id]
    BY DEF Recovered, Active, Absent, Closed
  <2> QED
    BY <2>1, <2>2 DEF Closed
<1>5. CASE UNCHANGED vars
  BY <1>0, <1>5 DEF vars
<1> QED
  BY <1>1, <1>2, <1>3, <1>4, <1>5 DEF Next

\* Late comes to its end: the move succeeds, or finds that the download was
\* removed with its row; the copy finds what was moved, the write follows.
LEMMA LateSettles ==
  ASSUME Workers = 1, ~SaveFails, TypeOK, SlotInv, RecordInv, Lives,
         NEW r \in Runs, NEW id \in Ids, act[r].id = id, Late(act[r])
  PROVE  Late(act'[r]) \/ Closed(id)'
<1> DEFINE f == act[r]
<1>0. r \in Actors /\ r \in Busy /\ f \in Frames /\ Honest(f) /\ f.to = "Completed"
  BY DEF Late, Busy, Actors, TypeOK, RecordInv
<1>m. ~MayRun
  BY <1>0, RunsAlone
<1>c. created[id] # 0
  <2>1. f.pc = "move" => Holds(r, id)
    BY <1>0 DEF SlotInv, Targets, Target, Holds, Holding, Absent
  <2>2. f.pc # "move" => Writing(f, id)
    BY DEF Late, Writing
  <2> QED
    BY <1>0, <2>1, <2>2 DEF SlotInv, Uncreated
<1>1. ASSUME NEW c \in Callers, Call(c) PROVE FALSE
  <2>1. CASE CallShutdown(c)
    BY <1>m, <2>1 DEF CallShutdown, Calls
  <2>2. CASE \E i \in Ids : CallEnqueue(c, i) \/ CallRemove(c, i)
    BY <1>m, <2>2 DEF CallEnqueue, CallRemove, Calls
  <2>3. CASE \E i \in Ids : \/ CallStart(c, i) \/ CallPause(c, i) \/ CallResume(c, i)
                            \/ CallRetry(c, i) \/ CallCancelActive(c, i) \/ CallCancelWaiting(c, i)
    BY <1>m, <2>3 DEF CallStart, CallPause, CallResume, CallRetry, CallCancelActive,
       CallCancelWaiting, Reads, Calls
  <2> QED
    BY <1>1, <2>1, <2>2, <2>3 DEF Call
<1>2. ASSUME NEW a \in Actors, Segment(a) PROVE Late(act'[r]) \/ Closed(id)'
  <2>1. a = r
    BY <1>0, <1>2, SegmentBusy DEF RecordInv, OneBusy
  <2>2. CASE Move(r)
    <3>1. CASE CanTransition(st[id], f.to)
      <4>0. Step(r, "copy")
        BY <2>2, <3>1 DEF Move
      <4>1. act'[r].pc = "copy" /\ act'[r].to = f.to
        BY <1>0, <4>0 DEF Step, TypeOK, Frames
      <4> QED
        BY <1>0, <4>1 DEF Late
    <3>2. CASE ~CanTransition(st[id], f.to)
      <4>1. Holds(r, id) /\ f.pc = "move"
        BY <1>0, <2>2 DEF Move, At, SlotInv, Targets, Target, Holds, Holding, Absent
      <4>2. st[id] \in Active \cup {Absent}
        BY <1>0, <4>1 DEF RecordInv, HeldActive
      <4>3. st[id] = Absent
        BY <1>0, <3>2, <4>2 DEF CanTransition, NextStates, States, Active, Absent
      <4>4. Agrees(id)
        BY <1>0, <4>1, OnlyBusyOwes DEF Owes
      <4>5. UNCHANGED <<st, db, created>>
        BY <2>2, <3>2 DEF Move, disk
      <4> QED
        BY <1>c, <4>3, <4>4, <4>5 DEF Closed, Agrees
    <3> QED
      BY <3>1, <3>2
  <2>3. CASE Copy(r)
    <3>1. st[id] # Absent
      BY <1>0, <2>3 DEF Copy, At, Honest
    <3>2. Goto(r, [f EXCEPT !.pc = "store", !.snap = st[id]])
      BY <2>3, <3>1 DEF Copy
    <3>3. act'[r].pc = "store" /\ act'[r].to = f.to
      BY <1>0, <3>2 DEF Goto, TypeOK, Frames
    <3> QED
      BY <1>0, <3>3 DEF Late
  <2>4. CASE Store(r)
    <3>1. st[id] = "Completed" /\ f.snap = "Completed"
      BY <1>0, <2>4 DEF Store, At, Honest
    <3>2. st' = st /\ created' = created /\ db' = [db EXCEPT ![id] = "Completed"]
      BY <2>4, <3>1 DEF Store, map
    <3> QED
      BY <1>c, <3>1, <3>2 DEF Closed, TypeOK
  <2>5. f.pc \in {"move", "copy", "store"}
    BY DEF Late
  <2>6. Insert(r) \/ Push(r) \/ Capacity(r) \/ Unqueue(r) \/ Intend(r) => FALSE
    BY <2>5 DEF Insert, Push, Capacity, Unqueue, Intend, At
  <2>7. Signal(r) \/ Forget(r) \/ Erase(r) \/ Count(r) \/ Select(r) => FALSE
    BY <2>5 DEF Signal, Forget, Erase, Count, Select, At
  <2>8. Take(r) \/ Attach(r) => FALSE
    BY <2>5 DEF Take, Attach, At
  <2>9. \A q \in Runs : ~Launch(r, q)
    BY <2>5 DEF Launch, At
  <2> QED
    BY <1>2, <2>1, <2>2, <2>3, <2>4, <2>6, <2>7, <2>8, <2>9 DEF Segment
<1>3. ASSUME NEW q \in Runs, Task(q) PROVE Late(act'[r])
  <2>1. ~RunBegin(q) /\ ~Progress(q) /\ ~FinishOk(q) /\ ~FinishErr(q)
    BY <1>m DEF RunBegin, Progress, FinishOk, FinishErr, Resumes
  <2>2. ~Report(q)
    <3>1. Report(q) => q \in Busy /\ act[q].pc = "report"
      BY DEF Report, At, Busy, Actors
    <3> QED
      BY <1>0, <3>1 DEF RecordInv, OneBusy, Late
  <2>3. Abort(q) /\ q # r
    BY <1>3, <2>1, <2>2 DEF Task, Abort, Late
  <2>4. act'[r] = act[r]
    BY <1>0, <2>3 DEF Abort, Goto, TypeOK
  <2> QED
    BY <2>4
<1>4. CASE UNCHANGED vars
  BY <1>4 DEF vars
<1> QED
  BY <1>1, <1>2, <1>3, <1>4 DEF Lives

(***************************************************************************)
(* The same of the whole service.                                          *)
(***************************************************************************)
\* A step of the service that is no crash.
LEMMA ServiceLives == ServiceNext /\ ~Restarted => Lives
<1>1. Manages => Lives
  BY DEF Manages, Lives, Task
<1>2. ASSUME NEW r \in Runs, HostWork(r) \/ ServerWork(r) \/ FailedWork(r) PROVE Lives
  BY <1>2 DEF HostWork, ServerWork, FailedWork, Awaits, Lives, Task
<1>3. ASSUME NEW r \in Runs, Returns(r) \/ Drops(r) PROVE Lives
  BY <1>3 DEF Returns, Drops, Lives, Task
<1> QED
  BY <1>1, <1>2, <1>3 DEF ServiceNext, Backend

\* A step of one transfer moves no other.
LEMMA OthersStay ==
  ASSUME TP!TInv, NEW r \in Runs,
         HostStep(r) \/ ServerStep(r) \/ FailedStep(r) \/ T!Report(r) \/ T!Abort(r)
  PROVE  \A q \in Runs : q # r => pc'[q] = pc[q]
<1>1. TP!Download(r) \/ TP!Abort(r) \/ \E l \in TP!Running \ {"acquire", "report"} : TP!Fails(r, l)
  BY SameSteps
<1>2. \E l : pc' = [pc EXCEPT ![r] = l]
  BY <1>1 DEF TP!Download, TP!Begin, TP!Connect, TP!CreatePart, TP!Heed, TP!Receive, TP!Acquire,
     TP!WriteChunk, TP!EndOfBody, TP!Flush, TP!Sync, TP!Finalize, TP!Proceed, TP!Rename, TP!Report,
     TP!Fails, TP!Abort, TP!Goto, TP!Leave
<1> QED
  BY <1>2 DEF TP!TInv, TP!Typed

\* No step takes a run out of its transfer but its own last one.
LEMMA StillTransfers ==
  ASSUME TypeOK, NEW r \in Runs, Transferring(r),
         \/ \E c \in Callers : Call(c)
         \/ \E a \in Actors : Segment(a)
         \/ \E q \in Runs : RunBegin(q) \/ Progress(q) \/ Report(q) \/ (q # r /\ Task(q))
         \/ UNCHANGED vars
  PROVE  Transferring(r)'
<1>0. r \in Actors /\ r \notin Callers /\ act[r].pc \in {"transfer", "report"}
  BY ActorsAssumption DEF Actors, Transferring
<1>u. act'[r] = act[r] => Transferring(r)'
  BY DEF Transferring
<1>1. ASSUME NEW c \in Callers, Call(c) PROVE Transferring(r)'
  <2>1. act' = act \/ \E g : Goto(c, g)
    BY <1>1 DEF Call, CallEnqueue, CallStart, CallPause, CallResume, CallRetry, CallCancelActive,
       CallCancelWaiting, CallRemove, CallShutdown, Reads
  <2>2. c # r
    BY <1>0
  <2> QED
    BY <1>0, <1>u, <2>1, <2>2 DEF Goto, TypeOK
<1>2. ASSUME NEW a \in Actors, Segment(a) PROVE Transferring(r)'
  <2>1. a # r
    BY <1>0, <1>2, SegmentBusy
  <2>2. CASE \E q \in Runs : Launch(a, q)
    <3>1. PICK q \in Runs : Launch(a, q)
      BY <2>2
    <3>2. q # r
      BY <1>0, <3>1 DEF Launch, NextFree, Free, At
    <3> QED
      BY <1>0, <1>u, <2>1, <3>1, <3>2 DEF Launch, TypeOK
  <2>3. CASE ~\E q \in Runs : Launch(a, q)
    <3>1. Insert(a) \/ Push(a) \/ Capacity(a) \/ Unqueue(a) \/ Intend(a) => \E g : Goto(a, g)
      BY DEF Insert, Push, Capacity, Unqueue, Intend, Step, Goto
    <3>2. Signal(a) \/ Forget(a) \/ Erase(a) \/ Count(a) \/ Select(a) => \E g : Goto(a, g)
      BY DEF Signal, Forget, Erase, Count, Select, Step, Goto
    <3>3. Take(a) \/ Move(a) \/ Copy(a) \/ Store(a) \/ Attach(a) => \E g : Goto(a, g)
      BY DEF Take, Move, Copy, Store, Attach, Step, Goto
    <3>4. \E g : Goto(a, g)
      BY <1>2, <2>3, <3>1, <3>2, <3>3 DEF Segment
    <3> QED
      BY <1>0, <1>u, <2>1, <3>4 DEF Goto, TypeOK
  <2> QED
    BY <2>2, <2>3
<1>3. ASSUME NEW q \in Runs, Task(q), q # r PROVE Transferring(r)'
  <2>1. \E g : Goto(q, g)
    BY <1>3 DEF Task, RunBegin, Progress, Report, FinishOk, FinishErr, Abort
  <2> QED
    BY <1>0, <1>3, <1>u, <2>1 DEF Goto, TypeOK
<1>4. CASE RunBegin(r)
  BY <1>0, <1>4 DEF RunBegin, Resumes, At
<1>5. CASE Progress(r) \/ Report(r)
  <2>1. PICK g : Goto(r, g) /\ g.pc \in {"transfer", "report"}
    BY <1>5 DEF Progress, Report, Transfer, Frame
  <2> QED
    BY <1>0, <2>1 DEF Goto, TypeOK, Transferring
<1>6. CASE UNCHANGED vars
  BY <1>6, <1>u DEF vars
<1> QED
  BY <1>1, <1>2, <1>3, <1>4, <1>5, <1>6 DEF Task


\* What is common to the steps of the backend: one run moves, and the manager
\* follows it or stays.
LEMMA BackendStep ==
  ASSUME TP!TInv, NEW r \in Runs, Backend(r)
  PROVE  /\ \A q \in Runs : q # r => pc'[q] = pc[q]
         /\ Task(r) \/ UNCHANGED vars
<1>1. CASE HostWork(r) \/ ServerWork(r) \/ FailedWork(r)
  BY <1>1, OthersStay DEF HostWork, ServerWork, FailedWork, Awaits, Task
<1>2. CASE Returns(r)
  BY <1>2, OthersStay DEF Returns, Task
<1>3. CASE Drops(r)
  BY <1>3, OthersStay DEF Drops, Task, work
<1> QED
  BY <1>1, <1>2, <1>3 DEF Backend

LEMMA AttendedNext ==
  ASSUME TypeOK, TP!TInv, Attended, [ServiceNext]_svars
  PROVE  Attended'
<1>i. T!Running = TP!Running /\ \A l \in {"idle", "ok", "failed", "cancelled"} : l \notin TP!Running
  BY DEF T!Running, TP!Running
<1>1. CASE Manages
  BY <1>1, StillTransfers DEF Manages, work, Attended
<1>2. ASSUME NEW r \in Runs, Backend(r) PROVE Attended'
  <2>1. \A q \in Runs : q # r => (pc'[q] \in TP!Running => Transferring(q)')
    BY <1>2, BackendStep, StillTransfers DEF Attended
  <2>2. pc'[r] \in TP!Running => Transferring(r)'
    <3>1. CASE HostWork(r) \/ ServerWork(r) \/ FailedWork(r)
      BY <1>i, <3>1 DEF HostWork, ServerWork, FailedWork, Agree, At, Transferring
    <3>2. CASE Returns(r)
      BY <1>i, <3>2 DEF Returns, T!Report, T!Leave, T!Goto, TP!TInv, TP!Typed
    <3>3. CASE Drops(r)
      <4>1. CASE pc[r] \in T!Running
        BY <1>i, <3>3, <4>1 DEF Drops, T!Abort, T!Leave, T!Goto, TP!TInv, TP!Typed
      <4>2. CASE pc[r] \notin T!Running
        BY <1>i, <3>3, <4>2 DEF Drops, work
      <4> QED
        BY <4>1, <4>2
    <3> QED
      BY <1>2, <3>1, <3>2, <3>3 DEF Backend
  <2> QED
    BY <2>1, <2>2 DEF Attended
<1>3. CASE Restarted
  BY <1>i, <1>3 DEF Restarted, T!Kill, T!Crash, T!Lost, Attended
<1>4. CASE UNCHANGED svars
  BY <1>4 DEF svars, vars, work, Attended, Transferring
<1> QED
  BY <1>1, <1>2, <1>3, <1>4 DEF ServiceNext

\* Only a rename puts the file of a run at the destination: a crash of the machine
\* brings back one that a run had already replaced, if any.
LEMMA DeliveredNext ==
  ASSUME TP!TInv, Outlived, [ServiceNext]_svars
  PROVE  /\ Outlived'
         /\ Delivered' => Delivered \/ \E r \in Runs : pc'[r] = "report"
<1>p. Place \in Dests
  BY DEF Dests
<1>0. CASE UNCHANGED <<file, past>>
  BY <1>0 DEF Outlived, Delivered, TP!Owner
<1>1. CASE Manages
  BY <1>0, <1>1 DEF Manages, work
<1>2. ASSUME NEW r \in Runs, HostStep(r) \/ ServerStep(r) \/ FailedStep(r) \/ T!Report(r) \/ T!Abort(r)
      PROVE  /\ Outlived'
             /\ Delivered' => Delivered \/ \E q \in Runs : pc'[q] = "report"
  <2>1. CASE TP!Rename(r)
    <3>1. pc'[r] = "report"
      BY <2>1 DEF TP!Rename, TP!Goto, TP!TInv, TP!Typed
    <3>2. Files
      BY <2>1, RenameFile
    <3>3. Delivered'
      <4>1. file' = [file EXCEPT ![Place] = TP!Content(r, part[r], synced[r], TP!Whole(r))]
        BY <2>1 DEF TP!Rename, TP!Set, Dest
      <4>2. file'[Place].by = r
        BY <1>p, <4>1 DEF TP!TInv, TP!Typed, TP!Content
      <4>3. file'[Place].len = file'[Place].whole
        BY <1>p, <3>2 DEF Files, TP!TInv, TP!DeliveryInv, TP!FilesSafe, TP!Safe
      <4> QED
        BY <4>2, <4>3 DEF Delivered, TP!Owner
    <3> QED
      BY <3>1, <3>3 DEF Outlived
  <2>2. CASE ~TP!Rename(r)
    <3>1. UNCHANGED <<file, past>>
      BY <1>2, <2>2, SameSteps DEF TP!Download, TP!Begin, TP!Connect, TP!CreatePart, TP!Heed, TP!Receive,
         TP!Acquire, TP!WriteChunk, TP!EndOfBody, TP!Flush, TP!Sync, TP!Finalize, TP!Report,
         TP!Fails, TP!Abort, TP!files
    <3> QED
      BY <1>0, <3>1
  <2> QED
    BY <2>1, <2>2
<1>3. ASSUME NEW r \in Runs, Backend(r), UNCHANGED work
      PROVE  UNCHANGED <<file, past>>
  BY <1>3 DEF work
<1>4. ASSUME NEW r \in Runs, Backend(r)
      PROVE  \/ HostStep(r) \/ ServerStep(r) \/ FailedStep(r) \/ T!Report(r) \/ T!Abort(r)
             \/ UNCHANGED work
  BY <1>4 DEF Backend, HostWork, ServerWork, FailedWork, Returns, Drops
<1>5. CASE Restarted
  <2>1. CASE T!Kill
    BY <1>0, <2>1 DEF T!Kill, T!files
  <2>2. CASE T!Crash
    <3>1. TP!Crash /\ TP!TInv'
      BY <2>2, CrashFiles
    <3>2. past'[Place] = file'[Place] /\ file'[Place] \in TP!Torn(past[Place]) \cup TP!Torn(file[Place])
      BY <1>p, <3>1 DEF TP!Crash
    <3>3. file'[Place] \in {past[Place], file[Place]}
      BY <1>p, <3>2, TransferAssumed, TP!SafeSurvives DEF TP!TInv, TP!Typed, TP!DeliveryInv, TP!FilesSafe
    <3>4. Delivered' => Delivered
      BY <3>3 DEF Delivered, Outlived
    <3> QED
      BY <3>2, <3>4 DEF Delivered, Outlived
  <2> QED
    BY <1>5, <2>1, <2>2 DEF Restarted
<1>6. CASE UNCHANGED svars
  BY <1>0, <1>6 DEF svars, work
<1> QED
  BY <1>0, <1>1, <1>2, <1>3, <1>4, <1>5, <1>6 DEF ServiceNext

\* The step of the service keeps what a rename has promised.
LEMMA SettledNext ==
  ASSUME Workers = 1, ~SaveFails, NEW d, Ids = {d},
         TypeOK, SlotInv, RecordInv, TP!TInv, Attended, Settled(d), Outlived, [ServiceNext]_svars
  PROVE  Settled(d)'
<1> SUFFICES ASSUME Delivered', ~cut', ~\E r \in Runs : Settling(r)'
             PROVE  Closed(d)'
  BY DEF Settled
<1>0. d \in Ids /\ Delivered /\ \A r \in Runs : pc'[r] # "report" /\ ~Late(act'[r])
  BY DeliveredNext DEF Settling, Late
<1>1. ~cut /\ (Restarted => \A r \in Runs : ~Settling(r))
  <2>1. Manages \/ UNCHANGED svars => ~cut
    BY DEF Manages, svars
  <2>2. Restarted => ~cut /\ \A r \in Runs : ~Settling(r)
    BY DEF Restarted
  <2>3. ASSUME NEW r \in Runs, Backend(r) PROVE ~cut
    BY <2>3 DEF Backend, HostWork, ServerWork, FailedWork, Awaits, Returns, Drops
  <2> QED
    BY <2>1, <2>2, <2>3 DEF ServiceNext, Backend
<1>2. CASE Closed(d)
  <2>1. [Next]_vars
    BY ManagerStep DEF svars
  <2> QED
    BY <1>0, <1>2, <2>1, ClosedStays
<1>3. ASSUME NEW r \in Runs, Settling(r) PROVE Closed(d)'
  <2>0. r \in Actors
    BY DEF Actors
  <2>1. ServiceNext /\ ~Restarted
    BY <1>0, <1>1, <1>3 DEF svars, vars, work, Settling, Late
  <2>2. CASE pc[r] = "report"
    <3>1. ~Manages
      BY <1>0, <2>2 DEF Manages, work
    <3>2. ASSUME NEW q \in Runs, q # r PROVE ~Backend(q)
      BY <1>0, <2>2, <3>2, BackendStep
    <3>3. ~HostStep(r) /\ ~ServerStep(r) /\ ~FailedStep(r)
      BY <2>2 DEF HostStep, ServerStep, FailedStep, T!Begin, T!Running, T!CreatePart, T!Heed, T!Acquire,
         T!WriteChunk, T!Flush, T!Sync, T!Finalize, T!Rename, T!Connect, T!Receive, T!EndOfBody, T!Fails
    <3>4. ~Returns(r)
      <4>1. Returns(r) => Goto(r, Frame("move", "end", act[r].id, "Completed"))
        BY DEF Returns, FinishOk
      <4>2. Returns(r) => Late(act'[r])
        BY <2>0, <4>1 DEF Goto, Frame, Late, TypeOK
      <4> QED
        BY <1>0, <4>2
    <3>5. ~Drops(r)
      BY <1>3 DEF Drops
    <3> QED
      BY <2>1, <3>1, <3>2, <3>3, <3>4, <3>5 DEF ServiceNext, Backend, HostWork, ServerWork, FailedWork
  <2>3. CASE Late(act[r])
    <3>1. act[r].id = d
      BY <2>0, <2>3, FrameParts DEF Late, Nameless, TypeOK
    <3>2. Lives
      BY <2>1, ServiceLives
    <3> QED
      BY <1>0, <2>3, <3>1, <3>2, LateSettles
  <2> QED
    BY <1>3, <2>2, <2>3 DEF Settling, Late
<1> QED
  BY <1>0, <1>1, <1>2, <1>3 DEF Settled

\* On one thread, with writes that succeed, and for a download with a destination
\* of its own: a run that has put its file in place makes the download Completed
\* in its row, whatever pause, cancel, retry or failure arrives meanwhile, unless
\* the download is removed or the task dies between the rename and the row.
THEOREM DeliveredSettles ==
  ASSUME Workers = 1, ~SaveFails, NEW d, Ids = {d}
  PROVE  ServiceSpec => []DeliveredIsCompleted
<1>1. ServiceSpec => [](TypeOK /\ SlotInv /\ DurInv /\ RecordInv /\ Kept)
  BY RowsHold, ServiceManages, PTL
<1>2. ServiceInit => Attended /\ Outlived /\ Settled(d)
  <2>1. ServiceInit => TP!Init
    BY DEF ServiceInit, T!Init, TP!Init, T!OldFile, TP!OldFile, T!NoFile, TP!NoFile, T!Content, TP!Content
  <2>2. TP!Init => Attended
    BY DEF TP!Init, TP!Running, Attended
  <2>3. TP!Init => past = file /\ TP!Owner(file[Place]) \in {Nobody, Before}
    BY DEF TP!Init, TP!OldFile, TP!NoFile, TP!Content, TP!Owner, Dests
  <2> QED
    BY <2>1, <2>2, <2>3, ServiceAssumption DEF Outlived, Settled, Delivered
<1>3. /\ TypeOK /\ SlotInv /\ RecordInv /\ TP!TInv /\ Attended /\ Outlived /\ Settled(d)
      /\ [ServiceNext]_svars
      => (Attended /\ Outlived /\ Settled(d))'
  BY AttendedNext, DeliveredNext, SettledNext
<1>4. DurInv /\ Settled(d) => DeliveredIsCompleted
  BY DEF DurInv, AcceptedIsDurable, Settled, Closed, Delivered, DeliveredIsCompleted, TP!Owner, T!Owner, Absent
<1> QED
  BY <1>1, <1>2, <1>3, <1>4, FilesTyped, PTL DEF ServiceSpec
=============================================================================
