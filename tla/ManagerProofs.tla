---------------------------- MODULE ManagerProofs ----------------------------
(***************************************************************************)
(* Theorems about Manager, for any sets of downloads, callers and tasks,   *)
(* any limit, any number of threads, and with the database failing and     *)
(* the process crashing at will.                                           *)
(***************************************************************************)
EXTENDS Manager, FiniteSetTheorems, TLAPS

(***************************************************************************)
(* Type correctness.                                                       *)
(***************************************************************************)

\* A frame built from typed parts is a frame.
LEMMA FrameType ==
  ASSUME NEW pc \in PCs, NEW op \in OpNames, NEW id \in Ids \cup {NoId},
         NEW to \in States \cup {Absent}, pc \notin Nameless => id \in Ids
  PROVE  Frame(pc, op, id, to) \in Frames
BY DEF Frame, Frames, NoRun

\* So is the frame of an actor at rest, of the scheduler loop, of a transfer.
LEMMA NamedFrames ==
  /\ Loop \in Frames
  /\ \A a : Rest(a) \in Frames
  /\ \A id \in Ids : Transfer(id) \in Frames
BY DEF Loop, Rest, Transfer, Frame, Frames, PCs, OpNames, NoRun, Nameless

\* The parts of a frame have their types.
LEMMA FrameParts ==
  ASSUME NEW f \in Frames
  PROVE  /\ f.pc \in PCs /\ f.op \in OpNames /\ f.id \in Ids \cup {NoId}
         /\ f.to \in States \cup {Absent} /\ f.snap \in States \cup {Absent}
         /\ f.run \in Runs \cup {NoRun}
         /\ f.pc \notin Nameless => f.id \in Ids
BY DEF Frames

\* Giving an actor a frame, or moving its program counter, keeps the type.
LEMMA GotoType ==
  ASSUME act \in [Actors -> Frames], NEW a \in Actors, NEW f \in Frames, Goto(a, f)
  PROVE  act' \in [Actors -> Frames]
BY DEF Goto

LEMMA StepType ==
  ASSUME act \in [Actors -> Frames], NEW a \in Actors, NEW pc \in PCs, Step(a, pc),
         act[a].id \in Ids \/ pc \in Nameless
  PROVE  act' \in [Actors -> Frames]
<1>1. [act[a] EXCEPT !.pc = pc] \in Frames
  BY DEF Frames
<1> QED
  BY <1>1 DEF Step

\* What follows a transition is a frame.
LEMMA ContinueType ==
  ASSUME act \in [Actors -> Frames], NEW a \in Actors, NEW ok \in BOOLEAN,
         act[a].id \in Ids
  PROVE  Continue(a, ok) \in Frames
<1>1. act[a] \in Frames
  OBVIOUS
<1>2. [act[a] EXCEPT !.pc = "launch", !.snap = Absent] \in Frames
  BY <1>1 DEF Frames, PCs
<1>3. Frame("push", "requeue", act[a].id, Absent) \in Frames
  BY FrameType DEF PCs, OpNames
<1> QED
  BY <1>2, <1>3, NamedFrames DEF Continue

\* The rank of a new download is a number.
LEMMA NowType == Now \in Nat
<1>1. IsFiniteSet({i \in Ids : created[i] # 0})
  BY FS_Subset, ActorsAssumption
<1> QED
  BY <1>1, FS_CardinalityType DEF Now

\* A new manager is well typed.
LEMMA InitType == Init => TypeOK
<1> SUFFICES ASSUME Init PROVE TypeOK
  OBVIOUS
<1>1. act \in [Actors -> Frames]
  BY NamedFrames DEF Init
<1> QED
  BY <1>1 DEF Init, TypeOK, States, Absent, NoRun

\* Every API call keeps the types.
LEMMA CallType ==
  ASSUME TypeOK, NEW c \in Callers, Call(c)
  PROVE  TypeOK'
<1> c \in Actors
  BY DEF Actors
<1> USE DEF TypeOK
<1>1. ASSUME NEW id \in Ids, CallEnqueue(c, id) PROVE TypeOK'
  <2>1. act' \in [Actors -> Frames]
    BY <1>1, GotoType, FrameType DEF CallEnqueue, PCs, OpNames
  <2>2. created' \in [Ids -> Nat]
    BY <1>1, NowType DEF CallEnqueue
  <2>3. db' \in [Ids -> States \cup {Absent}]
    BY <1>1 DEF CallEnqueue, EnqueuedRow, States
  <2> QED
    BY <1>1, <2>1, <2>2, <2>3 DEF CallEnqueue, map, signals
<1>2. ASSUME NEW op, NEW id, NEW from, NEW f \in Frames, Reads(c, op, id, from, f)
      PROVE  TypeOK'
  BY <1>2, GotoType DEF Reads, map, disk, signals
<1>3. ASSUME NEW id \in Ids,
             \/ CallStart(c, id) \/ CallPause(c, id) \/ CallResume(c, id)
             \/ CallRetry(c, id) \/ CallCancelActive(c, id)
             \/ CallCancelWaiting(c, id)
      PROVE  TypeOK'
  <2>1. /\ Frame("capacity", "start", id, "Starting") \in Frames
        /\ Frame("intend", "pause", id, Absent) \in Frames
        /\ Frame("move", "requeue", id, "Queued") \in Frames
        /\ Frame("signal", "cancel", id, Absent) \in Frames
        /\ Frame("unqueue", "cancel", id, "Cancelled") \in Frames
    BY FrameType DEF PCs, OpNames, States
  <2> QED
    BY <1>2, <1>3, <2>1
       DEF CallStart, CallPause, CallResume, CallRetry, CallCancelActive, CallCancelWaiting
<1>4. ASSUME NEW id \in Ids, CallRemove(c, id) PROVE TypeOK'
  <2>1. act' \in [Actors -> Frames]
    BY <1>4, GotoType, FrameType DEF CallRemove, PCs, OpNames
  <2>2. permit' \in [Runs -> SUBSET OpNames]
    BY <1>4 DEF CallRemove, Notify, OpNames
  <2> QED
    BY <1>4, <2>1, <2>2 DEF CallRemove, map, disk
<1>5. CASE CallShutdown(c)
  BY <1>5 DEF CallShutdown, disk
<1> QED
  BY <1>1, <1>3, <1>4, <1>5 DEF Call

\* Every segment of code an actor executes keeps the types.
LEMMA SegmentType ==
  ASSUME TypeOK, NEW a \in Actors, Segment(a)
  PROVE  TypeOK'
<1> USE DEF TypeOK
<1> DEFINE f == act[a]
<1>0. /\ f \in Frames
      /\ f.pc \in PCs /\ f.op \in OpNames /\ f.id \in Ids \cup {NoId}
      /\ f.to \in States \cup {Absent} /\ f.snap \in States \cup {Absent}
      /\ f.run \in Runs \cup {NoRun}
      /\ f.pc \notin Nameless => f.id \in Ids
  BY FrameParts
<1>g. ASSUME NEW g \in Frames, Goto(a, g) PROVE act' \in [Actors -> Frames]
  BY <1>g, GotoType
<1>s. ASSUME NEW pc \in PCs, Step(a, pc), f.id \in Ids PROVE act' \in [Actors -> Frames]
  BY <1>s, StepType
<1>c. ASSUME f.id \in Ids, NEW ok \in BOOLEAN
      PROVE  /\ Continue(a, ok) \in Frames
             /\ Announce(a, ok) \in [Ids -> States \cup {Absent}]
  BY <1>c, <1>0, ContinueType DEF Announce
<1>1. CASE Insert(a)
  BY <1>1, <1>0, <1>s DEF Insert, At, Nameless, PCs, States, disk, signals
<1>2. CASE Push(a)
  BY <1>2, <1>g, NamedFrames DEF Push, States, map, disk, signals
<1>3. CASE Capacity(a)
  BY <1>3, <1>0, <1>g, <1>s, NamedFrames DEF Capacity, At, Nameless, PCs, map, disk, signals
<1>4. CASE Unqueue(a)
  BY <1>4, <1>0, <1>s DEF Unqueue, At, Nameless, PCs, map, disk, signals
<1>5. CASE Intend(a)
  BY <1>5, <1>0, <1>s DEF Intend, At, Nameless, PCs, map, disk, signals
<1>6. CASE Signal(a)
  <2>1. permit' \in [Runs -> SUBSET OpNames]
    BY <1>6, <1>0 DEF Signal, Notify
  <2> QED
    BY <1>6, <2>1, <1>g, NamedFrames DEF Signal, map, disk
<1>7. CASE Forget(a)
  BY <1>7, <1>0, <1>s DEF Forget, At, Nameless, PCs, disk, signals
<1>8. CASE Erase(a)
  BY <1>8, <1>g, NamedFrames DEF Erase, map, signals
<1>9. CASE Count(a)
  <2>1. CASE Step(a, "select")
    <3>1. act' \in [Actors -> Frames]
      BY <2>1, StepType DEF PCs, Nameless
    <3> QED
      BY <1>9, <3>1 DEF Count, map, disk, signals
  <2> QED
    BY <1>9, <2>1, <1>g, NamedFrames DEF Count, map, disk, signals
<1>10. CASE Select(a)
  <2>1. \A id \in Ids : Frame("take", "loop", id, "Starting") \in Frames
    BY FrameType DEF PCs, OpNames, States
  <2> QED
    BY <1>10, <2>1, <1>g, NamedFrames DEF Select, map, disk, signals
<1>11. CASE Take(a)
  BY <1>11, <1>0, <1>s DEF Take, At, Nameless, PCs, map, disk, signals
<1>12. CASE Move(a)
  <2>1. f.id \in Ids
    BY <1>12, <1>0 DEF Move, At, Nameless
  <2>2. CASE /\ st' = [st EXCEPT ![f.id] = f.to]
             /\ Step(a, "copy") /\ UNCHANGED told
    BY <1>12, <2>1, <2>2, <1>0, <1>s DEF Move, PCs, disk, signals
  <2>3. CASE /\ told' = Announce(a, FALSE)
             /\ Goto(a, Continue(a, FALSE)) /\ UNCHANGED st
    BY <1>12, <2>1, <2>3, <1>c, <1>g DEF Move, disk, signals
  <2> QED
    BY <1>12, <2>2, <2>3 DEF Move
<1>13. CASE Copy(a)
  <2>1. f.id \in Ids
    BY <1>13, <1>0 DEF Copy, At, Nameless
  <2>2. [f EXCEPT !.pc = "store", !.snap = st[f.id]] \in Frames
    BY <2>1, <1>0 DEF Frames, PCs
  <2> QED
    BY <1>13, <2>1, <2>2, <1>c, <1>g DEF Copy, map, disk, signals
<1>14. CASE Store(a)
  <2>1. f.id \in Ids
    BY <1>14, <1>0 DEF Store, At, Nameless
  <2> QED
    BY <1>14, <2>1, <1>0, <1>c, <1>g DEF Store, map, signals
<1>15. ASSUME NEW r \in Runs, Launch(a, r) PROVE TypeOK'
  <2>1. f.id \in Ids
    BY <1>15, <1>0 DEF Launch, At, Nameless
  <2>2. [f EXCEPT !.pc = "attach", !.run = r] \in Frames
    BY <2>1, <1>0 DEF Frames, PCs
  <2>3. Frame("spawned", "run", f.id, Absent) \in Frames
    BY <2>1, FrameType DEF PCs, OpNames
  <2>4. act' \in [Actors -> Frames]
    BY <1>15, <2>2, <2>3 DEF Launch
  <2> QED
    BY <1>15, <2>4 DEF Launch, disk
<1>16. CASE Attach(a)
  BY <1>16, <1>0, <1>g, NamedFrames DEF Attach, disk, signals
<1> QED
  BY <1>1, <1>2, <1>3, <1>4, <1>5, <1>6, <1>7, <1>8, <1>9, <1>10, <1>11, <1>12,
     <1>13, <1>14, <1>15, <1>16 DEF Segment

\* Every step of a task keeps the types.
LEMMA TaskType ==
  ASSUME TypeOK, NEW r \in Runs, Task(r)
  PROVE  TypeOK'
<1> USE DEF TypeOK
<1> r \in Actors
  BY DEF Actors
<1> DEFINE f == act[r]
<1>0. /\ f \in Frames
      /\ f.to \in States \cup {Absent} /\ f.snap \in States \cup {Absent}
      /\ f.pc \notin Nameless => f.id \in Ids
  BY FrameParts
<1>g. ASSUME NEW g \in Frames, Goto(r, g) PROVE act' \in [Actors -> Frames]
  BY <1>g, GotoType
<1>p. ASSUME permit' = [permit EXCEPT ![r] = {}] PROVE permit' \in [Runs -> SUBSET OpNames]
  BY <1>p
<1>1. CASE RunBegin(r)
  <2>1. f.id \in Ids
    BY <1>1, <1>0 DEF RunBegin, Resumes, At, Nameless
  <2>2. Frame("move", "orphan", f.id, "Failed") \in Frames
    BY <2>1, FrameType DEF PCs, OpNames, States
  <2>3. Transfer(f.id) \in Frames /\ Rest(r) \in Frames
    BY <2>1, NamedFrames
  <2>4. act' \in [Actors -> Frames] /\ permit' \in [Runs -> SUBSET OpNames]
    BY <1>1, <2>2, <2>3, <1>g, <1>p DEF RunBegin
  <2> QED
    BY <1>1, <2>4 DEF RunBegin, map, disk
<1>2. CASE Progress(r)
  <2>1. f.id \in Ids
    BY <1>2, <1>0 DEF Progress, Resumes, At, Nameless
  <2>2. st' \in [Ids -> States \cup {Absent}]
    BY <1>2 DEF Progress, States
  <2>3. ASSUME NEW to \in {"Downloading", Absent}
        PROVE  [Frame("report", "run", f.id, to) EXCEPT !.snap = st'[f.id]] \in Frames
    BY <2>1, <2>2 DEF Frame, Frames, PCs, OpNames, States, NoRun
  <2>4. act' \in [Actors -> Frames]
    BY <1>2, <2>3, <1>g DEF Progress
  <2> QED
    BY <1>2, <2>2, <2>4 DEF Progress, disk, signals
<1>3. CASE Report(r)
  <2>1. f.id \in Ids
    BY <1>3, <1>0 DEF Report, At, Nameless
  <2>2. act' \in [Actors -> Frames]
    BY <1>3, <2>1, <1>g, NamedFrames DEF Report
  <2> QED
    BY <1>3, <1>0, <2>2 DEF Report, map, signals
<1>4. CASE FinishOk(r)
  <2>1. f.id \in Ids
    BY <1>4, <1>0 DEF FinishOk, Resumes, At, Nameless
  <2>2. Frame("move", "end", f.id, "Completed") \in Frames
    BY <2>1, FrameType DEF PCs, OpNames, States
  <2>3. act' \in [Actors -> Frames]
    BY <1>4, <2>2, <1>g DEF FinishOk
  <2> QED
    BY <1>4, <2>3, <1>p DEF FinishOk, map, disk
<1>5. CASE FinishErr(r)
  <2>1. f.id \in Ids
    BY <1>5, <1>0 DEF FinishErr, Resumes, At, Nameless
  <2>2. \A to \in {"Failed", "Paused", "Cancelled"} :
           Frame("move", "end", f.id, to) \in Frames
    BY <2>1, FrameType DEF PCs, OpNames, States
  <2>3. act' \in [Actors -> Frames]
    BY <1>5, <2>2, <1>g DEF FinishErr, Stopped
  <2> QED
    BY <1>5, <2>3, <1>p DEF FinishErr, Consumed, map, disk
<1>6. CASE Abort(r)
  <2>1. act' \in [Actors -> Frames]
    BY <1>6, <1>g, NamedFrames DEF Abort
  <2> QED
    BY <1>6, <2>1, <1>p DEF Abort, map, disk
<1> QED
  BY <1>1, <1>2, <1>3, <1>4, <1>5, <1>6 DEF Task

\* A crash and restart keeps the types.
LEMMA ReopenType ==
  ASSUME TypeOK, Reopen
  PROVE  TypeOK'
<1>1. \A s \in States \cup {Absent} : Recovered(s) \in States \cup {Absent}
  BY ConfigAssumption DEF Recovered, States
<1>2. /\ st' \in [Ids -> States \cup {Absent}]
      /\ db' \in [Ids -> States \cup {Absent}]
      /\ told' \in [Ids -> States \cup {Absent}]
  BY <1>1 DEF Reopen, TypeOK
<1>3. act' \in [Actors -> Frames]
  BY NamedFrames DEF Reopen
<1>4. /\ cancel' \in [Ids -> Runs \cup {NoRun}]
      /\ handle' \in [Ids -> Runs \cup {NoRun}]
      /\ permit' \in [Runs -> SUBSET OpNames]
      /\ intents' \in SUBSET Ids /\ aborted' \in SUBSET Runs
      /\ detached' \in SUBSET Ids /\ created' \in [Ids -> Nat]
  BY ConfigAssumption DEF Reopen, TypeOK
<1> QED
  BY <1>2, <1>3, <1>4 DEF TypeOK

\* Every step keeps the types.
LEMMA NextType == TypeOK /\ [Next]_vars => TypeOK'
<1> SUFFICES ASSUME TypeOK, [Next]_vars PROVE TypeOK'
  OBVIOUS
<1>1. CASE Next
  BY <1>1, CallType, SegmentType, TaskType, ReopenType DEF Next
<1>2. CASE UNCHANGED vars
  BY <1>2 DEF TypeOK, vars
<1> QED
  BY <1>1, <1>2

\* The variables keep their types in every behaviour of the manager, crashes
\* and failed writes included.
THEOREM TypeCorrect == Spec => []TypeOK
BY InitType, NextType, PTL DEF Spec


(***************************************************************************)
(* One transfer per download.  SlotInv is the inductive invariant: most    *)
(* steps only move one actor to a frame that claims nothing new (Quiet);   *)
(* the others create, start, stop or forget a download.                    *)
(***************************************************************************)

\* In a new manager nobody holds anything.
LEMMA InitSlot == Init => SlotInv
<1> SUFFICES ASSUME Init PROVE SlotInv
  OBVIOUS
<1>1. \A a \in Actors : act[a].pc \in {"idle", "done"}
  BY DEF Init, Rest, Frame
<1> QED
  BY <1>1 DEF Init, SlotInv, OneHolder, HeldState, InsertFresh, Uncreated, Targets,
              Target, Holds, Holding, Inserting, Writing

\* An actor moves to a frame that holds no slot it did not hold, and neither
\* the map nor the creation order changes.
LEMMA Quiet ==
  ASSUME TypeOK, SlotInv, NEW a \in Actors, NEW g \in Frames,
         act' = [act EXCEPT ![a] = g], st' = st, created' = created,
         \A id \in Ids : created[id] = 0 => db'[id] = Absent,
         Target(g), g.pc # "insert",
         \A id \in Ids : Holding(g, id) => Holds(a, id),
         \A id \in Ids : Writing(g, id) => created[id] # 0
  PROVE  SlotInv'
<1>1. \A b \in Actors : act'[b] = IF b = a THEN g ELSE act[b]
  BY DEF TypeOK
<1>2. \A b \in Actors, id \in Ids : Holds(b, id)' => Holds(b, id)
  BY <1>1 DEF Holds
<1>3. \A b \in Actors, id \in Ids : Inserting(act[b], id)' => Inserting(act[b], id)
  BY <1>1 DEF Inserting
<1>4. \A b \in Actors, id \in Ids :
         Writing(act[b], id)' => Writing(act[b], id) \/ created[id] # 0
  BY <1>1 DEF Writing
<1>5. OneHolder' /\ HeldState'
  BY <1>2 DEF SlotInv, OneHolder, HeldState
<1>6. InsertFresh'
  BY <1>2, <1>3 DEF SlotInv, InsertFresh
<1>7. Uncreated'
  BY <1>2, <1>3, <1>4 DEF SlotInv, Uncreated
<1>8. Targets'
  BY <1>1 DEF SlotInv, Targets
<1> QED
  BY <1>5, <1>6, <1>7, <1>8 DEF SlotInv


\* The frames of an actor that works for no download claim nothing.
LEMMA IdleFrames ==
  ASSUME NEW g, g = Loop \/ \E a : g = Rest(a)
  PROVE  /\ g \in Frames /\ Target(g) /\ g.pc # "insert"
         /\ \A id \in Ids : ~Holding(g, id) /\ ~Writing(g, id)
<1>1. g.pc \in {"count", "idle", "done"}
  BY DEF Loop, Rest, Frame
<1> QED
  BY <1>1, NamedFrames DEF Target, Holding, Writing

\* The same for an actor that goes back to one of them.
LEMMA QuietIdle ==
  ASSUME TypeOK, SlotInv, NEW a \in Actors, NEW g, Goto(a, g),
         g = Loop \/ \E b : g = Rest(b),
         st' = st, created' = created,
         \A id \in Ids : created[id] = 0 => db'[id] = Absent
  PROVE  SlotInv'
BY Quiet, IdleFrames DEF Goto

\* The same for an actor that only moves its program counter.
LEMMA QuietStep ==
  ASSUME TypeOK, SlotInv, NEW a \in Actors, NEW pc \in PCs, Step(a, pc),
         act[a].id \in Ids \/ pc \in Nameless, pc # "insert",
         st' = st, created' = created, db' = db,
         Target([act[a] EXCEPT !.pc = pc]),
         \A id \in Ids : Holding([act[a] EXCEPT !.pc = pc], id) => Holds(a, id),
         \A id \in Ids : Writing([act[a] EXCEPT !.pc = pc], id) => Writing(act[a], id)
  PROVE  SlotInv'
<1> DEFINE g == [act[a] EXCEPT !.pc = pc]
<1>1. g \in Frames /\ g.pc = pc
  BY DEF Frames, TypeOK
<1>2. act' = [act EXCEPT ![a] = g]
  BY DEF Step
<1>3. \A id \in Ids : Writing(g, id) => created[id] # 0
  BY DEF SlotInv, Uncreated
<1>4. \A id \in Ids : created[id] = 0 => db'[id] = Absent
  BY DEF SlotInv, Uncreated
<1> QED
  BY <1>1, <1>2, <1>3, <1>4, Quiet

\* What Continue makes of the frame after a transition keeps the slot of a
\* download that is being started, and no other.
LEMMA QuietContinue ==
  ASSUME TypeOK, SlotInv, NEW a \in Actors, NEW ok \in BOOLEAN,
         Goto(a, Continue(a, ok)), act[a].id \in Ids,
         act[a].pc \in {"copy", "store"} \/ (act[a].pc = "move" /\ ~ok),
         st' = st, created' = created,
         \A id \in Ids : created[id] = 0 => db'[id] = Absent
  PROVE  SlotInv'
<1> DEFINE f == act[a]
<1>1. f \in Frames
  BY DEF TypeOK
<1>2. CASE ok /\ f.to = "Starting"
  <2> DEFINE g == [f EXCEPT !.pc = "launch", !.snap = Absent]
  <2>1. g \in Frames /\ g.pc = "launch" /\ g.id = f.id /\ g.to = f.to
    BY <1>1 DEF Frames, PCs
  <2>2. act' = [act EXCEPT ![a] = g]
    BY <1>2 DEF Continue, Goto
  <2>3. \A id \in Ids : Holding(g, id) => Holds(a, id)
    BY <1>2, <2>1 DEF Holds, Holding
  <2>4. Target(g) /\ (\A id \in Ids : ~Writing(g, id))
    BY <1>2, <2>1 DEF Target, Writing
  <2> HIDE DEF g
  <2> QED
    BY <2>1, <2>2, <2>3, <2>4, Quiet
<1>3. CASE ok /\ f.to = "Queued"
  <2> DEFINE g == Frame("push", "requeue", f.id, Absent)
  <2>1. g \in Frames /\ g.pc = "push"
    BY FrameType DEF PCs, OpNames, Frame
  <2>2. act' = [act EXCEPT ![a] = g]
    BY <1>3 DEF Continue, Goto
  <2>3. Target(g) /\ (\A id \in Ids : ~Holding(g, id) /\ ~Writing(g, id))
    BY <2>1 DEF Target, Holding, Writing
  <2> HIDE DEF g
  <2> QED
    BY <2>1, <2>2, <2>3, Quiet
<1>4. CASE ~(ok /\ f.to \in {"Starting", "Queued"})
  BY <1>4, QuietIdle DEF Continue
<1> QED
  BY <1>2, <1>3, <1>4

\* Every API call keeps the invariant.
LEMMA CallSlot ==
  ASSUME TypeOK, SlotInv, NEW c \in Callers, Call(c)
  PROVE  SlotInv'
<1> c \in Actors
  BY DEF Actors
<1>0. \A id \in Ids : created[id] = 0 => db[id] = Absent
  BY DEF SlotInv, Uncreated
<1>q. ASSUME NEW pc \in PCs, NEW op \in OpNames, NEW id \in Ids,
             NEW to \in States \cup {Absent},
             Goto(c, Frame(pc, op, id, to)), pc \in {"capacity", "intend", "move", "signal", "unqueue"},
             op \notin {"end", "orphan"}, to \in {"Queued", "Starting", "Cancelled", Absent},
             st' = st, created' = created, db' = db
      PROVE  SlotInv'
  <2> DEFINE g == Frame(pc, op, id, to)
  <2>1. g \in Frames
    BY <1>q, FrameType DEF Nameless
  <2>2. g.pc = pc /\ g.op = op /\ g.to = to
    BY DEF Frame
  <2>3. Target(g) /\ (\A i \in Ids : ~Holding(g, i) /\ ~Writing(g, i))
    BY <1>q, <2>2 DEF Target, Holding, Writing
  <2>4. act' = [act EXCEPT ![c] = g]
    BY <1>q DEF Goto
  <2> HIDE DEF g
  <2> QED
    BY <1>0, <1>q, <2>1, <2>2, <2>3, <2>4, Quiet
<1> USE DEF PCs, OpNames, States, Reads, map, disk
<1>1. ASSUME NEW id \in Ids, CallEnqueue(c, id) PROVE SlotInv'
  <2>1. \A a \in Actors : ~Holds(a, id) /\ ~Inserting(act[a], id) /\ ~Writing(act[a], id)
    BY <1>1 DEF CallEnqueue, SlotInv, Uncreated
  <2>2. /\ st[id] = Absent
        /\ st' = st
    BY <1>1 DEF CallEnqueue, SlotInv, Uncreated
  <2>3. act' = [act EXCEPT ![c] = Frame("insert", "enqueue", id, Absent)]
    BY <1>1 DEF CallEnqueue, Goto
  <2>4. \A a \in Actors : a # c => act'[a] = act[a]
    BY <2>3 DEF TypeOK
  <2>5. /\ act'[c].pc = "insert" /\ act'[c].id = id
        /\ act'[c].op = "enqueue" /\ act'[c].to = Absent
    BY <2>3 DEF TypeOK, Frame
  <2>6. \A i \in Ids : ~Holds(c, i)'
    BY <2>5 DEF Holds, Holding
  <2>7. \A a \in Actors, i \in Ids : Holds(a, i)' => Holds(a, i)
    BY <2>4, <2>6 DEF Holds
  <2>8. created' = [created EXCEPT ![id] = Now] /\ created'[id] # 0
    BY <1>1, FS_Subset, FS_CardinalityType, ActorsAssumption DEF CallEnqueue, Now, TypeOK
  <2>9. \A i \in Ids : i # id => db'[i] = db[i]
    BY <1>1 DEF CallEnqueue, EnqueuedRow, TypeOK
  <2>10. OneHolder' /\ HeldState'
    BY <2>2, <2>7 DEF SlotInv, OneHolder, HeldState
  <2>11. InsertFresh'
    <3> SUFFICES ASSUME NEW a \in Actors, NEW b \in Actors, NEW i \in Ids,
                        Inserting(act'[a], i)
                 PROVE  st'[i] = Absent /\ ~Holds(b, i)' /\ (Inserting(act'[b], i) => a = b)
      BY DEF InsertFresh
    <3>1. CASE i = id
      BY <2>1, <2>2, <2>4, <2>7, <3>1 DEF Inserting
    <3>2. CASE i # id
      <4>1. a # c /\ Inserting(act[a], i)
        BY <2>4, <2>5, <3>2 DEF Inserting
      <4> QED
        BY <4>1, <2>2, <2>4, <2>5, <2>7, <3>2 DEF Inserting, SlotInv, InsertFresh
    <3> QED
      BY <3>1, <3>2
  <2>12. Uncreated'
    <3> SUFFICES ASSUME NEW i \in Ids, created'[i] = 0
                 PROVE  /\ st'[i] = Absent /\ db'[i] = Absent
                        /\ \A a \in Actors : /\ ~Holds(a, i)' /\ ~Inserting(act'[a], i)
                                              /\ ~Writing(act'[a], i)
      BY DEF Uncreated
    <3>1. i # id /\ created[i] = 0
      BY <2>8 DEF TypeOK
    <3>2. \A a \in Actors : ~Inserting(act'[a], i) /\ ~Writing(act'[a], i)
      BY <2>4, <2>5, <3>1 DEF Inserting, Writing, SlotInv, Uncreated
    <3> QED
      BY <2>2, <2>7, <2>9, <3>1, <3>2 DEF SlotInv, Uncreated
  <2>13. Targets'
    BY <2>4, <2>5 DEF SlotInv, Targets, Target
  <2> QED
    BY <2>10, <2>11, <2>12, <2>13 DEF SlotInv
<1>2. ASSUME NEW id \in Ids, CallStart(c, id) PROVE SlotInv'
  BY <1>2, <1>q DEF CallStart
<1>3. ASSUME NEW id \in Ids, CallPause(c, id) PROVE SlotInv'
  BY <1>3, <1>q DEF CallPause
<1>4. ASSUME NEW id \in Ids, CallResume(c, id) PROVE SlotInv'
  BY <1>4, <1>q DEF CallResume
<1>5. ASSUME NEW id \in Ids, CallRetry(c, id) PROVE SlotInv'
  BY <1>5, <1>q DEF CallRetry
<1>6. ASSUME NEW id \in Ids, CallCancelActive(c, id) PROVE SlotInv'
  BY <1>6, <1>q DEF CallCancelActive
<1>7. ASSUME NEW id \in Ids, CallCancelWaiting(c, id) PROVE SlotInv'
  BY <1>7, <1>q DEF CallCancelWaiting
<1>8. ASSUME NEW id \in Ids, CallRemove(c, id) PROVE SlotInv'
  BY <1>8, <1>q DEF CallRemove
<1>9. CASE CallShutdown(c)
  <2>1. /\ UNCHANGED <<st, created, db, act>>
        /\ \A a \in Actors, id \in Ids : Holds(a, id)' <=> Holds(a, id)
    BY <1>9 DEF CallShutdown, Holds
  <2> QED
    BY <2>1 DEF SlotInv, OneHolder, HeldState, InsertFresh, Uncreated, Targets
<1> QED
  BY <1>1, <1>2, <1>3, <1>4, <1>5, <1>6, <1>7, <1>8, <1>9 DEF Call


\* Every segment keeps the invariant.
LEMMA SegmentSlot ==
  ASSUME TypeOK, SlotInv, NEW a \in Actors, Segment(a)
  PROVE  SlotInv'
<1> DEFINE f == act[a]
<1>0. /\ f \in Frames
      /\ f.pc \in PCs /\ f.op \in OpNames /\ f.id \in Ids \cup {NoId}
      /\ f.to \in States \cup {Absent}
      /\ f.pc \notin Nameless => f.id \in Ids
  BY FrameParts DEF TypeOK
<1>d. \A id \in Ids : created[id] = 0 => db[id] = Absent
  BY DEF SlotInv, Uncreated
<1>f. Target(f)
  BY DEF SlotInv, Targets
<1>s. ASSUME NEW pc \in PCs, Step(a, pc), f.id \in Ids \/ pc \in Nameless,
             pc \in {"unqueue", "signal", "erase", "select", "move", "forget", "push"},
             pc \in {"unqueue", "move"} => f.op \notin {"end", "orphan"} /\ f.pc \in {"capacity", "unqueue", "take"},
             st' = st, created' = created, db' = db
      PROVE  SlotInv'
  <2> DEFINE g == [f EXCEPT !.pc = pc]
  <2>1. g.pc = pc /\ g.op = f.op /\ g.to = f.to /\ g.id = f.id
    BY <1>0 DEF Frames
  <2>2. Target(g) /\ \A id \in Ids : ~Holding(g, id) /\ ~Writing(g, id)
    BY <1>s, <1>f, <2>1 DEF Target, Holding, Writing
  <2> QED
    BY <1>s, <2>2, QuietStep
<1>1. CASE Insert(a)
  <2> DEFINE d == f.id
  <2>1. /\ d \in Ids /\ Inserting(f, d)
        /\ st' = [st EXCEPT ![d] = "Queued"]
        /\ created' = created /\ db' = db
        /\ act' = [act EXCEPT ![a].pc = "push"]
    BY <1>0, <1>1 DEF Insert, At, Nameless, Step, disk, Inserting
  <2>2. act'[a].pc = "push" /\ \A b \in Actors : b # a => act'[b] = act[b]
    BY <2>1, <1>0 DEF TypeOK, Frames
  <2>3. \A b \in Actors : ~Holds(b, d) /\ (b # a => ~Inserting(act[b], d))
    BY <2>1 DEF SlotInv, InsertFresh
  <2>4. created[d] # 0
    BY <2>1 DEF SlotInv, Uncreated
  <2>5. \A b \in Actors, id \in Ids : Holds(b, id)' => Holds(b, id)
    BY <2>2 DEF Holds, Holding
  <2>6. \A b \in Actors, id \in Ids :
           /\ Inserting(act'[b], id) => Inserting(act[b], id) /\ id # d
           /\ Writing(act'[b], id) => Writing(act[b], id)
    BY <2>2, <2>3 DEF Inserting, Writing
  <2>7. \A id \in Ids : id # d => st'[id] = st[id]
    BY <2>1 DEF TypeOK
  <2>8. OneHolder' /\ HeldState'
    BY <2>3, <2>5, <2>7 DEF SlotInv, OneHolder, HeldState
  <2>9. InsertFresh'
    BY <2>5, <2>6, <2>7 DEF SlotInv, InsertFresh
  <2>10. Uncreated'
    BY <2>1, <2>4, <2>5, <2>6, <2>7 DEF SlotInv, Uncreated
  <2>11. Targets'
    BY <2>2 DEF SlotInv, Targets, Target
  <2> QED
    BY <2>8, <2>9, <2>10, <2>11 DEF SlotInv
<1>2. CASE Push(a)
  BY <1>2, <1>d, QuietIdle DEF Push, map, disk
<1>3. CASE Capacity(a)
  <2>1. f.id \in Ids /\ f.op \notin {"end", "orphan"} /\ f.pc = "capacity"
    BY <1>0, <1>3, <1>f DEF Capacity, At, Nameless, Target
  <2> QED
    BY <1>3, <1>d, <1>s, <2>1, QuietIdle DEF Capacity, map, disk, PCs
<1>4. CASE Unqueue(a)
  <2>1. f.id \in Ids /\ f.op \notin {"end", "orphan"} /\ f.pc = "unqueue"
    BY <1>0, <1>4, <1>f DEF Unqueue, At, Nameless, Target
  <2> QED
    BY <1>4, <1>s, <2>1 DEF Unqueue, map, disk, PCs
<1>5. CASE Intend(a)
  <2>1. f.id \in Ids
    BY <1>0, <1>5 DEF Intend, At, Nameless
  <2> QED
    BY <1>5, <1>s, <2>1 DEF Intend, map, disk, PCs
<1>6. CASE Signal(a)
  BY <1>6, <1>d, QuietIdle DEF Signal, map, disk
<1>7. CASE Forget(a)
  <2> DEFINE d == f.id
  <2>1. /\ d \in Ids
        /\ st' = [st EXCEPT ![d] = Absent]
        /\ created' = created /\ db' = db
        /\ act' = [act EXCEPT ![a].pc = "erase"]
    BY <1>0, <1>7 DEF Forget, At, Nameless, Step, disk
  <2>2. act'[a].pc = "erase" /\ \A b \in Actors : b # a => act'[b] = act[b]
    BY <2>1, <1>0 DEF TypeOK, Frames
  <2>3. \A b \in Actors, id \in Ids :
           /\ Holds(b, id)' => Holds(b, id)
           /\ Inserting(act'[b], id) => Inserting(act[b], id)
           /\ Writing(act'[b], id) => Writing(act[b], id)
    BY <2>2 DEF Holds, Holding, Inserting, Writing
  <2>4. \A id \in Ids : st'[id] = st[id] \/ st'[id] = Absent
    BY <2>1 DEF TypeOK
  <2>5. OneHolder' /\ HeldState'
    BY <2>3, <2>4 DEF SlotInv, OneHolder, HeldState
  <2>6. InsertFresh'
    BY <2>3, <2>4 DEF SlotInv, InsertFresh
  <2>7. Uncreated'
    BY <2>1, <2>3, <2>4 DEF SlotInv, Uncreated
  <2>8. Targets'
    BY <2>2 DEF SlotInv, Targets, Target
  <2> QED
    BY <2>5, <2>6, <2>7, <2>8 DEF SlotInv
<1>8. CASE Erase(a)
  <2>1. \A id \in Ids : created[id] = 0 => db'[id] = Absent
    BY <1>8, <1>d DEF Erase, TypeOK
  <2> QED
    BY <1>8, <2>1, QuietIdle DEF Erase, map
<1>9. CASE Count(a)
  BY <1>9, <1>d, <1>s, QuietIdle DEF Count, map, disk, PCs, Nameless
<1>10. CASE Select(a)
  <2>1. ASSUME NEW id \in Ids, Goto(a, Frame("take", "loop", id, "Starting"))
        PROVE  SlotInv'
    <3> DEFINE g == Frame("take", "loop", id, "Starting")
    <3>1. g \in Frames /\ g.pc = "take" /\ g.op = "loop" /\ g.to = "Starting"
      BY FrameType DEF PCs, OpNames, States, Frame
    <3>2. act' = [act EXCEPT ![a] = g]
      BY <2>1 DEF Goto
    <3>3. Target(g) /\ \A i \in Ids : ~Holding(g, i) /\ ~Writing(g, i)
      BY <3>1 DEF Target, Holding, Writing
    <3>4. st' = st /\ created' = created /\ db' = db
      BY <1>10 DEF Select, map, disk
    <3> HIDE DEF g
    <3> QED
      BY <1>d, <3>1, <3>2, <3>3, <3>4, Quiet
  <2> QED
    BY <1>10, <1>d, <2>1, QuietIdle DEF Select, map, disk
<1>11. CASE Take(a)
  <2>1. f.id \in Ids /\ f.op \notin {"end", "orphan"} /\ f.pc = "take"
    BY <1>0, <1>11, <1>f DEF Take, At, Nameless, Target
  <2> QED
    BY <1>11, <1>s, <2>1 DEF Take, map, disk, PCs
<1>12. CASE Move(a)
  <2> DEFINE d == f.id
  <2>1. d \in Ids
    BY <1>0, <1>12 DEF Move, At, Nameless
  <2>2. CASE Goto(a, Continue(a, FALSE)) /\ UNCHANGED st
    BY <1>12, <1>d, <2>1, <2>2, QuietContinue DEF Move, At, disk
  <2>3. CASE /\ CanTransition(st[d], f.to)
             /\ st' = [st EXCEPT ![d] = f.to]
             /\ Step(a, "copy")
    <3>1. /\ act' = [act EXCEPT ![a].pc = "copy"]
          /\ created' = created /\ db' = db /\ f.pc = "move"
      BY <1>12, <2>3 DEF Move, At, Step, disk
    <3>2. /\ act'[a].pc = "copy" /\ act'[a].to = f.to /\ act'[a].op = f.op
          /\ act'[a].id = d
          /\ \A b \in Actors : b # a => act'[b] = act[b]
      BY <3>1, <1>0 DEF TypeOK, Frames
    <3>3. /\ st[d] \in States /\ f.to \in NextStates[st[d]]
          /\ \A id \in Ids : id # d => st'[id] = st[id]
          /\ st'[d] = f.to
      BY <2>1, <2>3 DEF CanTransition, TypeOK
    <3>4. \A b \in Actors : ~Inserting(act[b], d)
      BY <2>1, <3>3 DEF SlotInv, InsertFresh, Absent, States
    <3>5. created[d] # 0
      BY <1>0, <2>1, <3>3 DEF SlotInv, Uncreated, Absent, States
    <3>6. /\ \A b \in Actors, id \in Ids : id # d => (Holds(b, id)' <=> Holds(b, id))
          /\ \A b \in Actors : b # a => (Holding(act'[b], d) <=> Holds(b, d))
          /\ Holding(act'[a], d) <=> f.to = "Starting"
          /\ Holds(a, d) <=> f.op \in {"end", "orphan"}
      BY <2>1, <3>1, <3>2 DEF Holds, Holding
    <3>7. \A b \in Actors, id \in Ids :
             /\ Inserting(act'[b], id) => Inserting(act[b], id)
             /\ Writing(act'[b], id) => Writing(act[b], id) \/ id = d
      BY <3>2 DEF Inserting, Writing
    <3>8. /\ f.op \in {"end", "orphan"} => f.to \in {"Completed", "Paused", "Failed", "Cancelled"}
          /\ f.op \notin {"end", "orphan"} => f.to \in {"Queued", "Starting", "Cancelled", Absent}
      BY <3>1, <1>f DEF Target
    <3>9. /\ f.to = "Starting" => st[d] = "Queued"
          /\ f.to = "Queued" => st[d] \in {"Paused", "Failed"}
          /\ f.to # Absent
      BY <3>3 DEF NextStates, States, Absent
    <3>10. ASSUME \A b, c \in Actors : Holding(act'[b], d) /\ Holding(act'[c], d) => b = c,
                  \A b \in Actors : Holding(act'[b], d) => st'[d] \in Active \cup {"Cancelled", Absent}
           PROVE  OneHolder' /\ HeldState'
      <4>1. OneHolder'
        BY <3>6, <3>10 DEF SlotInv, OneHolder, Holds
      <4>2. HeldState'
        <5> SUFFICES ASSUME NEW b \in Actors, NEW id \in Ids, Holds(b, id)'
                     PROVE  st'[id] \in Active \cup {"Cancelled", Absent}
          BY DEF HeldState
        <5>1. CASE id = d
          BY <3>10, <5>1 DEF Holds
        <5>2. CASE id # d
          BY <3>3, <3>6, <5>2 DEF SlotInv, HeldState
        <5> QED
          BY <5>1, <5>2
      <4> QED
        BY <4>1, <4>2
    <3>14. OneHolder' /\ HeldState'
      <4>1. CASE f.op \in {"end", "orphan"}
        <5>1. f.to # "Starting" /\ Holds(a, d)
          BY <3>6, <3>8, <4>1
        <5>2. \A b \in Actors : b # a => ~Holds(b, d)
          BY <2>1, <5>1 DEF SlotInv, OneHolder
        <5>3. \A b \in Actors : ~Holding(act'[b], d)
          BY <3>6, <5>1, <5>2
        <5> QED
          BY <3>10, <5>3
      <4>2. CASE f.to = "Cancelled"
        <5>1. \A b \in Actors : Holding(act'[b], d) => Holds(b, d)
          BY <3>6, <4>2
        <5> QED
          BY <2>1, <3>3, <3>10, <4>2, <5>1 DEF SlotInv, OneHolder
      <4>3. CASE f.to \in {"Starting", "Queued"}
        <5>1. \A b \in Actors : ~Holds(b, d)
          BY <2>1, <3>9, <4>3 DEF SlotInv, HeldState, Active, Absent
        <5>2. \A b \in Actors : Holding(act'[b], d) => b = a /\ st'[d] = "Starting"
          BY <3>3, <3>6, <5>1
        <5>3. "Starting" \in Active
          BY DEF Active
        <5> QED
          BY <3>10, <5>2, <5>3
      <4> QED
        BY <3>8, <3>9, <4>1, <4>2, <4>3
    <3>11. InsertFresh'
      BY <3>3, <3>4, <3>6, <3>7 DEF SlotInv, InsertFresh
    <3>12. Uncreated'
      BY <3>1, <3>3, <3>5, <3>6, <3>7 DEF SlotInv, Uncreated
    <3>13. Targets'
      BY <3>2 DEF SlotInv, Targets, Target
    <3> QED
      BY <3>14, <3>11, <3>12, <3>13 DEF SlotInv
  <2> QED
    BY <1>12, <2>2, <2>3 DEF Move
<1>13. CASE Copy(a)
  <2>1. f.id \in Ids /\ f.pc = "copy"
    BY <1>0, <1>13 DEF Copy, At, Nameless
  <2>2. CASE Goto(a, Continue(a, TRUE))
    BY <1>13, <1>d, <2>1, <2>2, QuietContinue DEF Copy, map, disk
  <2>3. CASE Goto(a, [f EXCEPT !.pc = "store", !.snap = st[f.id]])
    <3> DEFINE g == [f EXCEPT !.pc = "store", !.snap = st[f.id]]
    <3>1. /\ g \in Frames /\ g.pc = "store" /\ g.op = f.op /\ g.to = f.to /\ g.id = f.id
      BY <2>1, <1>0 DEF TypeOK, Frames, PCs
    <3>2. act' = [act EXCEPT ![a] = g]
      BY <2>3 DEF Goto
    <3>3. /\ Target(g)
          /\ \A id \in Ids : Holding(g, id) => Holds(a, id)
          /\ \A id \in Ids : Writing(g, id) => created[id] # 0
      BY <2>1, <3>1 DEF Target, Holds, Holding, Writing, SlotInv, Uncreated
    <3>4. st' = st /\ created' = created /\ db' = db
      BY <1>13 DEF Copy, map, disk
    <3> HIDE DEF g
    <3> QED
      BY <1>d, <3>1, <3>2, <3>3, <3>4, Quiet
  <2> QED
    BY <1>13, <2>2, <2>3 DEF Copy
<1>14. CASE Store(a)
  <2>1. f.id \in Ids /\ f.pc = "store" /\ Writing(f, f.id)
    BY <1>0, <1>14 DEF Store, At, Nameless, Writing
  <2>2. created[f.id] # 0
    BY <2>1 DEF SlotInv, Uncreated
  <2>3. \A id \in Ids : created[id] = 0 => db'[id] = Absent
    BY <1>14, <1>d, <2>2 DEF Store, TypeOK
  <2> QED
    BY <1>14, <2>1, <2>3, QuietContinue DEF Store, map
<1>15. ASSUME NEW r \in Runs, Launch(a, r) PROVE SlotInv'
  <2> DEFINE d == f.id
             g == [f EXCEPT !.pc = "attach", !.run = r]
             h == Frame("spawned", "run", d, Absent)
  <2>1. /\ d \in Ids /\ f.pc = "launch" /\ r \in Actors
        /\ act[r].pc = "done" /\ r # a
        /\ act' = [act EXCEPT ![a] = g, ![r] = h]
        /\ st' = st /\ created' = created /\ db' = db
    BY <1>0, <1>15 DEF Launch, At, Nameless, NextFree, Free, disk, Actors
  <2>2. /\ g.pc = "attach" /\ g.to = f.to /\ g.op = f.op
        /\ h.pc = "spawned" /\ h.op = "run" /\ h.id = d /\ h.to = Absent
    BY <1>0 DEF Frame, Frames
  <2>3. /\ act'[a] = g /\ act'[r] = h
        /\ \A b \in Actors : b # a /\ b # r => act'[b] = act[b]
    BY <2>1 DEF TypeOK
  <2> HIDE DEF g, h
  <2>4. CASE f.to = "Starting"
    <3>1. Holds(a, d) /\ \A id \in Ids : ~Holds(r, id)
      BY <2>1, <2>4 DEF Holds, Holding
    <3>2. \A b \in Actors, id \in Ids : Holds(b, id)' =>
             (b = r /\ id = d) \/ (b # a /\ b # r /\ Holds(b, id))
      BY <2>2, <2>3 DEF Holds, Holding
    <3>3. \A b \in Actors, id \in Ids :
             /\ Inserting(act'[b], id) => Inserting(act[b], id)
             /\ Writing(act'[b], id) => Writing(act[b], id)
      BY <2>2, <2>3 DEF Inserting, Writing
    <3>4. OneHolder'
      BY <2>1, <3>1, <3>2 DEF SlotInv, OneHolder
    <3>5. HeldState'
      BY <2>1, <3>1, <3>2 DEF SlotInv, HeldState
    <3>6. InsertFresh'
      BY <2>1, <3>1, <3>2, <3>3 DEF SlotInv, InsertFresh
    <3>7. Uncreated'
      BY <2>1, <3>1, <3>2, <3>3 DEF SlotInv, Uncreated
    <3>8. Targets'
      BY <2>2, <2>3 DEF SlotInv, Targets, Target
    <3> QED
      BY <3>4, <3>5, <3>6, <3>7, <3>8 DEF SlotInv
  <2> QED
    BY <2>1, <2>4, <1>f DEF Target
<1>16. CASE Attach(a)
  BY <1>16, <1>d, QuietIdle DEF Attach, disk
<1> QED
  BY <1>1, <1>2, <1>3, <1>4, <1>5, <1>6, <1>7, <1>8, <1>9, <1>10, <1>11, <1>12,
     <1>13, <1>14, <1>15, <1>16 DEF Segment

\* Every step of a task keeps the invariant.
LEMMA TaskSlot ==
  ASSUME TypeOK, SlotInv, NEW r \in Runs, Task(r)
  PROVE  SlotInv'
<1> r \in Actors
  BY DEF Actors
<1> DEFINE f == act[r]
<1>0. f \in Frames /\ (f.pc \notin Nameless => f.id \in Ids)
  BY FrameParts DEF TypeOK
<1>d. \A id \in Ids : created[id] = 0 => db[id] = Absent
  BY DEF SlotInv, Uncreated
<1>q. ASSUME NEW g \in Frames, Goto(r, g), f.id \in Ids, Holds(r, f.id), g.id = f.id,
             \/ g.pc \in {"transfer", "report"}
             \/ /\ g.pc = "move" /\ g.op \in {"end", "orphan"}
                /\ g.to \in {"Completed", "Paused", "Failed", "Cancelled"},
             st' = st, created' = created,
             \A id \in Ids : created[id] = 0 => db'[id] = Absent
      PROVE  SlotInv'
  <2>1. Target(g) /\ (\A id \in Ids : ~Writing(g, id))
    BY <1>q DEF Target, Writing
  <2>2. \A id \in Ids : Holding(g, id) => Holds(r, id)
    BY <1>q DEF Holding
  <2>3. act' = [act EXCEPT ![r] = g] /\ g.pc # "insert"
    BY <1>q DEF Goto
  <2> QED
    BY <1>q, <2>1, <2>2, <2>3, Quiet
<1>t. ASSUME f.id \in Ids
      PROVE  /\ Transfer(f.id) \in Frames /\ Transfer(f.id).id = f.id
             /\ Transfer(f.id).pc = "transfer"
  BY <1>t, NamedFrames DEF Transfer, Frame
<1>m. ASSUME f.id \in Ids, NEW op \in {"end", "orphan"},
             NEW to \in {"Completed", "Paused", "Failed", "Cancelled"}
      PROVE  LET g == Frame("move", op, f.id, to)
             IN  g \in Frames /\ g.id = f.id /\ g.pc = "move" /\ g.op = op /\ g.to = to
  BY <1>m, FrameType DEF PCs, OpNames, States, Frame
<1>1. CASE RunBegin(r)
  <2>1. f.id \in Ids /\ Holds(r, f.id)
    BY <1>0, <1>1 DEF RunBegin, Resumes, At, Nameless, Holds, Holding
  <2>2. st' = st /\ created' = created /\ db' = db
    BY <1>1 DEF RunBegin, map, disk
  <2>3. CASE Goto(r, Transfer(f.id))
    BY <1>d, <1>q, <1>t, <2>1, <2>2, <2>3
  <2>4. CASE Goto(r, Frame("move", "orphan", f.id, "Failed"))
    BY <1>d, <1>q, <1>m, <2>1, <2>2, <2>4
  <2>5. CASE Goto(r, Rest(r))
    BY <1>d, <2>2, <2>5, QuietIdle
  <2> QED
    BY <1>1, <2>3, <2>4, <2>5 DEF RunBegin
<1>2. CASE Progress(r)
  <2> DEFINE d == f.id
  <2>1. d \in Ids /\ Holds(r, d) /\ f.pc = "transfer"
    BY <1>0, <1>2 DEF Progress, Resumes, At, Nameless, Holds, Holding
  <2> DEFINE g == [Frame("report", "run", d, IF st[d] = "Starting" THEN "Downloading" ELSE Absent)
                     EXCEPT !.snap = st'[d]]
  <2>a. act' = [act EXCEPT ![r] = g]
    BY <1>2 DEF Progress, Goto
  <2>b. g.pc = "report" /\ g.id = d /\ g.op = "run"
    BY DEF Frame
  <2> HIDE DEF g
  <2>2. /\ act' = [act EXCEPT ![r] = g]
        /\ g.pc = "report" /\ g.id = d /\ g.op = "run"
    BY <2>a, <2>b
  <2>3. /\ created' = created /\ db' = db
        /\ st[d] # Absent /\ st'[d] # Absent
        /\ \A id \in Ids : id # d => st'[id] = st[id]
        /\ st'[d] = st[d] \/ st'[d] = "Downloading"
    BY <1>2, <2>1 DEF Progress, disk, TypeOK, Absent
  <2>4. act'[r] = g /\ \A b \in Actors : b # r => act'[b] = act[b]
    BY <2>2 DEF TypeOK
  <2>5. \A b \in Actors, id \in Ids :
           /\ Holds(b, id)' => Holds(b, id)
           /\ Inserting(act'[b], id) => Inserting(act[b], id)
           /\ Writing(act'[b], id) => Writing(act[b], id)
    BY <2>1, <2>2, <2>4 DEF Holds, Holding, Inserting, Writing
  <2>6. created[d] # 0
    BY <2>1 DEF SlotInv, Uncreated
  <2>7. \A b \in Actors : ~Inserting(act[b], d)
    BY <2>1 DEF SlotInv, InsertFresh
  <2>8. OneHolder'
    BY <2>5 DEF SlotInv, OneHolder
  <2>9. HeldState'
    BY <2>3, <2>5 DEF SlotInv, HeldState, Active
  <2>10. InsertFresh'
    BY <2>3, <2>5, <2>7 DEF SlotInv, InsertFresh
  <2>11. Uncreated'
    BY <2>3, <2>5, <2>6 DEF SlotInv, Uncreated
  <2>12. Targets'
    BY <2>2, <2>4 DEF SlotInv, Targets, Target
  <2> QED
    BY <2>8, <2>9, <2>10, <2>11, <2>12 DEF SlotInv
<1>3. CASE Report(r)
  <2>1. f.id \in Ids /\ Holds(r, f.id)
    BY <1>0, <1>3 DEF Report, At, Nameless, Holds, Holding
  <2>2. created[f.id] # 0
    BY <2>1 DEF SlotInv, Uncreated
  <2>3. /\ st' = st /\ created' = created
        /\ \A id \in Ids : created[id] = 0 => db'[id] = Absent
    BY <1>3, <1>d, <2>2 DEF Report, map, TypeOK
  <2> QED
    BY <1>3, <1>q, <1>t, <2>1, <2>3 DEF Report
<1>4. CASE FinishOk(r)
  <2>1. f.id \in Ids /\ Holds(r, f.id)
    BY <1>0, <1>4 DEF FinishOk, Resumes, At, Nameless, Holds, Holding
  <2>2. st' = st /\ created' = created /\ db' = db
    BY <1>4 DEF FinishOk, map, disk
  <2> QED
    BY <1>4, <1>d, <1>q, <1>m, <2>1, <2>2 DEF FinishOk
<1>5. CASE FinishErr(r)
  <2>1. f.id \in Ids /\ Holds(r, f.id)
    BY <1>0, <1>5 DEF FinishErr, Resumes, At, Nameless, Holds, Holding
  <2>2. st' = st /\ created' = created /\ db' = db
    BY <1>5 DEF FinishErr, map, disk
  <2>3. PICK to \in {"Failed", "Paused", "Cancelled"} :
           Goto(r, Frame("move", "end", f.id, to))
    BY <1>5 DEF FinishErr, Stopped
  <2> QED
    BY <1>d, <1>q, <1>m, <2>1, <2>2, <2>3
<1>6. CASE Abort(r)
  BY <1>6, <1>d, QuietIdle DEF Abort, map, disk
<1> QED
  BY <1>1, <1>2, <1>3, <1>4, <1>5, <1>6 DEF Task

\* After a restart nobody holds anything, and a download without a row is gone.
LEMMA ReopenSlot ==
  ASSUME TypeOK, SlotInv, Reopen
  PROVE  SlotInv'
<1>1. \A a \in Actors : act'[a].pc \in {"idle", "done"}
  BY DEF Reopen, Rest, Frame
<1>2. \A a \in Actors, id \in Ids :
         ~Holds(a, id)' /\ ~Inserting(act'[a], id) /\ ~Writing(act'[a], id)
  BY <1>1 DEF Holds, Holding, Inserting, Writing
<1>3. \A id \in Ids : created'[id] = 0 => st'[id] = Absent /\ db'[id] = Absent
  BY DEF Reopen, SlotInv, Uncreated, Recovered, Active, Absent
<1>4. OneHolder' /\ HeldState' /\ InsertFresh'
  BY <1>2 DEF OneHolder, HeldState, InsertFresh
<1>5. Uncreated'
  BY <1>2, <1>3 DEF Uncreated
<1>6. Targets'
  BY <1>1 DEF Targets, Target
<1> QED
  BY <1>4, <1>5, <1>6 DEF SlotInv

\* SlotInv is inductive.
LEMMA NextSlot == TypeOK /\ SlotInv /\ [Next]_vars => SlotInv'
<1> SUFFICES ASSUME TypeOK, SlotInv, [Next]_vars PROVE SlotInv'
  OBVIOUS
<1>1. CASE Next
  BY <1>1, CallSlot, SegmentSlot, TaskSlot, ReopenSlot DEF Next
<1>2. CASE UNCHANGED vars
  <2>1. /\ UNCHANGED <<st, created, db, act>>
        /\ \A a \in Actors, id \in Ids : Holds(a, id)' <=> Holds(a, id)
    BY <1>2 DEF vars, Holds
  <2> QED
    BY <2>1 DEF SlotInv, OneHolder, HeldState, InsertFresh, Uncreated, Targets
<1> QED
  BY <1>1, <1>2

\* A slot has one holder, and a transferring task holds its slot.
LEMMA SlotSingle == TypeOK /\ SlotInv => SingleTransfer
<1> SUFFICES ASSUME TypeOK, SlotInv, NEW r \in Runs, NEW q \in Runs,
                    Transferring(r), Transferring(q), act[r].id = act[q].id
             PROVE  r = q
  BY DEF SingleTransfer
<1>1. r \in Actors /\ q \in Actors
  BY DEF Actors
<1>2. act[r].id \in Ids
  BY <1>1, FrameParts DEF TypeOK, Transferring, Nameless
<1>3. Holds(r, act[r].id) /\ Holds(q, act[r].id)
  BY DEF Holds, Holding, Transferring
<1> QED
  BY <1>1, <1>2, <1>3 DEF SlotInv, OneHolder

\* Whatever calls, progress reports, task ends, aborts, failed writes, crashes
\* and restarts interleave, on any number of threads: one download never has
\* two transfers, which would write the same part file.
THEOREM OneTransfer == Spec => []SingleTransfer
<1>1. Init => TypeOK /\ SlotInv
  BY InitType, InitSlot
<1>2. TypeOK /\ SlotInv /\ [Next]_vars => (TypeOK /\ SlotInv)'
  BY NextType, NextSlot
<1> QED
  BY <1>1, <1>2, SlotSingle, PTL DEF Spec

(***************************************************************************)
(* No slot is leaked: a download that counts against the limit has a task  *)
(* that will give the slot back, or a thread that is about to spawn it,    *)
(* for any sets of downloads, callers and tasks, on any number of threads  *)
(* and through crashes.  It takes a database that accepts every write (a   *)
(* refused one ends begin_download between the transition and the spawn)   *)
(* and no shutdown (an aborted task gives nothing back).                   *)
(***************************************************************************)

HeldInv == SlotHasRun /\ aborted = {}

\* An actor moves on: it keeps the slots it has, unless the download has left
\* its slot, and holds the slot of a download it starts.
LEMMA Keeps ==
  ASSUME TypeOK, HeldInv, NEW a \in Actors, NEW g, act' = [act EXCEPT ![a] = g],
         aborted' = aborted,
         \A id \in Ids : st'[id] \in Active => st[id] \in Active \/ Holding(g, id),
         \A id \in Ids : Holds(a, id) => Holding(g, id) \/ st'[id] \notin Active
  PROVE  HeldInv'
<1>1. act'[a] = g /\ \A b \in Actors : b # a => act'[b] = act[b]
  BY DEF TypeOK
<1>2. SlotHasRun'
  <2> SUFFICES ASSUME NEW id \in Ids, st'[id] \in Active
               PROVE  \E b \in Actors : Holding(act'[b], id)
    BY DEF SlotHasRun, Holds
  <2>1. CASE Holding(g, id)
    BY <1>1, <2>1
  <2>2. CASE ~Holding(g, id)
    <3>1. PICK b \in Actors : Holds(b, id)
      BY <2>2 DEF HeldInv, SlotHasRun
    <3>2. b # a
      BY <2>2, <3>1
    <3> QED
      BY <1>1, <3>1, <3>2 DEF Holds
  <2> QED
    BY <2>1, <2>2
<1> QED
  BY <1>2 DEF HeldInv

\* The same for an actor that holds no slot, when no download is started.
LEMMA HoldsNone ==
  ASSUME TypeOK, HeldInv, NEW a \in Actors, NEW g, Goto(a, g), aborted' = aborted,
         \A id \in Ids : st'[id] \in Active => st[id] \in Active,
         act[a].pc \notin {"spawned", "transfer", "report", "move", "copy", "store", "launch"}
  PROVE  HeldInv'
<1>1. \A id \in Ids : ~Holds(a, id)
  BY DEF Holds, Holding
<1> QED
  BY <1>1, Keeps DEF Goto

LEMMA HoldsNoneStep ==
  ASSUME TypeOK, HeldInv, NEW a \in Actors, NEW pc, Step(a, pc), aborted' = aborted,
         \A id \in Ids : st'[id] \in Active => st[id] \in Active,
         act[a].pc \notin {"spawned", "transfer", "report", "move", "copy", "store", "launch"}
  PROVE  HeldInv'
BY HoldsNone DEF Step, Goto

\* What follows a transition that succeeded keeps the slot of a download that
\* is being started.
LEMMA ContinueHolds ==
  ASSUME TypeOK, NEW a \in Actors, act[a].pc \in {"copy", "store"}, NEW id \in Ids,
         Holds(a, id)
  PROVE  Holding(Continue(a, TRUE), id)
<1>1. act[a].to = "Starting" /\ act[a].id = id
  BY DEF Holds, Holding
<1> DEFINE g == [act[a] EXCEPT !.pc = "launch", !.snap = Absent]
<1>2. g.pc = "launch" /\ g.to = "Starting" /\ g.id = id
  BY <1>1 DEF TypeOK, Frames
<1>3. Continue(a, TRUE) = g
  BY <1>1 DEF Continue
<1> HIDE DEF g
<1> QED
  BY <1>2, <1>3 DEF Holding

\* No API call but shutdown takes a slot away.
LEMMA CallHeld ==
  ASSUME TypeOK, HeldInv, "shutdown" \notin Ops, NEW c \in Callers, Call(c)
  PROVE  HeldInv'
<1> c \in Actors
  BY DEF Actors
<1>1. At(c, "idle") /\ st' = st /\ aborted' = aborted
  BY DEF Call, CallEnqueue, CallStart, CallPause, CallResume, CallRetry, CallCancelActive,
     CallCancelWaiting, CallRemove, CallShutdown, Reads, Calls, map, signals
<1>2. PICK g : Goto(c, g)
  BY DEF Call, CallEnqueue, CallStart, CallPause, CallResume, CallRetry, CallCancelActive,
     CallCancelWaiting, CallRemove, CallShutdown, Reads, Calls
<1> QED
  BY <1>1, <1>2, HoldsNone DEF At

\* Every segment keeps the invariant.
LEMMA SegmentHeld ==
  ASSUME ~SaveFails, TypeOK, SlotInv, HeldInv, NEW a \in Actors, Segment(a)
  PROVE  HeldInv'
<1> DEFINE f == act[a]
<1>0. f \in Frames /\ (f.pc \notin Nameless => f.id \in Ids) /\ Target(f)
  BY FrameParts DEF TypeOK, SlotInv, Targets
<1> USE DEF map, signals
<1>1. CASE Insert(a)
  <2>1. \A id \in Ids : st'[id] \in Active => st[id] \in Active
    BY <1>1 DEF Insert, Active, TypeOK
  <2> QED
    BY <1>1, <2>1, HoldsNoneStep DEF Insert, At
<1>2. CASE Push(a)
  BY <1>2, HoldsNone DEF Push, At
<1>3. CASE Capacity(a)
  BY <1>3, HoldsNone, HoldsNoneStep DEF Capacity, At
<1>4. CASE Unqueue(a)
  BY <1>4, HoldsNoneStep DEF Unqueue, At
<1>5. CASE Intend(a)
  BY <1>5, HoldsNoneStep DEF Intend, At
<1>6. CASE Signal(a)
  BY <1>6, HoldsNone DEF Signal, At
<1>7. CASE Forget(a)
  <2>1. \A id \in Ids : st'[id] \in Active => st[id] \in Active
    BY <1>7 DEF Forget, Active, Absent, TypeOK
  <2> QED
    BY <1>7, <2>1, HoldsNoneStep DEF Forget, At
<1>8. CASE Erase(a)
  BY <1>8, HoldsNone DEF Erase, At
<1>9. CASE Count(a)
  BY <1>9, HoldsNone, HoldsNoneStep DEF Count, At
<1>10. CASE Select(a)
  BY <1>10, HoldsNone DEF Select, At
<1>11. CASE Take(a)
  BY <1>11, HoldsNoneStep DEF Take, At
<1>12. CASE Move(a)
  <2> DEFINE d == f.id
  <2>1. d \in Ids /\ f.pc = "move" /\ aborted' = aborted
    BY <1>0, <1>12 DEF Move, At, Nameless
  <2>2. \A id \in Ids : Holds(a, id) <=> id = d /\ f.op \in {"end", "orphan"}
    BY <2>1 DEF Holds, Holding
  <2>3. f.op \in {"end", "orphan"} =>
          /\ f.to \in {"Completed", "Paused", "Failed", "Cancelled"}
          /\ st[d] \in Active \cup {"Cancelled", Absent}
    BY <1>0, <2>1, <2>2 DEF Target, SlotInv, HeldState
  <2>4. CASE ~CanTransition(st[d], f.to) /\ Goto(a, Continue(a, FALSE)) /\ UNCHANGED st
    <3>1. f.op \in {"end", "orphan"} => st[d] \notin Active
      BY <2>3, <2>4 DEF CanTransition, NextStates, States, Active, Absent
    <3>2. act' = [act EXCEPT ![a] = Continue(a, FALSE)]
      BY <2>4 DEF Goto
    <3> QED
      BY <2>1, <2>2, <2>4, <3>1, <3>2, Keeps
  <2>5. CASE st' = [st EXCEPT ![d] = f.to] /\ Step(a, "copy")
    <3> DEFINE g == [f EXCEPT !.pc = "copy"]
    <3>1. /\ g.pc = "copy" /\ g.to = f.to /\ g.id = d
          /\ act' = [act EXCEPT ![a] = g]
      BY <1>0, <2>5 DEF Frames, Step
    <3> HIDE DEF g
    <3>2. st'[d] = f.to /\ \A id \in Ids : id # d => st'[id] = st[id]
      BY <2>1, <2>5 DEF TypeOK
    <3>3. f.to \in Active => f.to = "Starting" /\ Holding(g, d)
      BY <1>0, <2>1, <3>1 DEF Target, Active, Absent, Holding
    <3>4. f.op \in {"end", "orphan"} => f.to \notin Active
      BY <2>3 DEF Active
    <3> QED
      BY <2>1, <2>2, <3>1, <3>2, <3>3, <3>4, Keeps
  <2> QED
    BY <1>12, <2>4, <2>5 DEF Move
<1>13. CASE Copy(a)
  <2>1. f.pc = "copy" /\ st' = st /\ aborted' = aborted
    BY <1>13 DEF Copy, At
  <2>2. CASE Goto(a, Continue(a, TRUE))
    <3>1. act' = [act EXCEPT ![a] = Continue(a, TRUE)]
      BY <2>2 DEF Goto
    <3>2. \A id \in Ids : Holds(a, id) => Holding(Continue(a, TRUE), id)
      BY <2>1, ContinueHolds
    <3> QED
      BY <2>1, <3>1, <3>2, Keeps
  <2>3. CASE Goto(a, [f EXCEPT !.pc = "store", !.snap = st[f.id]])
    <3> DEFINE g == [f EXCEPT !.pc = "store", !.snap = st[f.id]]
    <3>1. g.pc = "store" /\ g.to = f.to /\ g.id = f.id
      BY <1>0 DEF Frames
    <3>2. act' = [act EXCEPT ![a] = g]
      BY <2>3 DEF Goto
    <3> HIDE DEF g
    <3>3. \A id \in Ids : Holds(a, id) => Holding(g, id)
      BY <2>1, <3>1 DEF Holds, Holding
    <3> QED
      BY <2>1, <3>2, <3>3, Keeps
  <2> QED
    BY <1>13, <2>2, <2>3 DEF Copy
<1>14. CASE Store(a)
  <2>1. /\ f.pc = "store" /\ st' = st /\ aborted' = aborted
        /\ act' = [act EXCEPT ![a] = Continue(a, TRUE)]
    BY <1>14 DEF Store, At, Goto
  <2>2. \A id \in Ids : Holds(a, id) => Holding(Continue(a, TRUE), id)
    BY <2>1, ContinueHolds
  <2> QED
    BY <2>1, <2>2, Keeps
<1>15. ASSUME NEW r \in Runs, Launch(a, r) PROVE HeldInv'
  <2> DEFINE g == [f EXCEPT !.pc = "attach", !.run = r]
             h == Frame("spawned", "run", f.id, Absent)
  <2>1. /\ r # a /\ r \in Actors /\ act[r].pc = "done" /\ f.pc = "launch"
        /\ act' = [act EXCEPT ![a] = g, ![r] = h]
        /\ st' = st /\ aborted' = {}
    BY <1>15 DEF Launch, At, NextFree, Free, Actors, HeldInv
  <2>2. h.pc = "spawned" /\ h.id = f.id
    BY DEF Frame
  <2> HIDE DEF g, h
  <2>3. act'[r] = h /\ \A b \in Actors : b # a /\ b # r => act'[b] = act[b]
    BY <2>1 DEF TypeOK
  <2>4. ASSUME NEW id \in Ids, st[id] \in Active PROVE \E b \in Actors : Holding(act'[b], id)
    <3>1. PICK b \in Actors : Holding(act[b], id)
      BY <2>4 DEF HeldInv, SlotHasRun, Holds
    <3>2. CASE b = a
      BY <2>1, <2>2, <2>3, <3>1, <3>2 DEF Holding
    <3>3. CASE b # a
      <4>1. b # r
        BY <2>1, <3>1 DEF Holding
      <4> QED
        BY <2>3, <3>1, <3>3, <4>1
    <3> QED
      BY <3>2, <3>3
  <2> QED
    BY <2>1, <2>4 DEF HeldInv, SlotHasRun, Holds
<1>16. CASE Attach(a)
  BY <1>16, HoldsNone DEF Attach, At
<1> QED
  BY <1>1, <1>2, <1>3, <1>4, <1>5, <1>6, <1>7, <1>8, <1>9, <1>10, <1>11, <1>12,
     <1>13, <1>14, <1>15, <1>16 DEF Segment

\* Every step of a task keeps the invariant; none of them is aborted.
LEMMA TaskHeld ==
  ASSUME TypeOK, HeldInv, NEW r \in Runs, Task(r)
  PROVE  HeldInv'
<1> r \in Actors
  BY DEF Actors
<1> DEFINE f == act[r]
<1>0. f \in Frames /\ (f.pc \notin Nameless => f.id \in Ids)
  BY FrameParts DEF TypeOK
<1>q. ASSUME NEW g, Goto(r, g), st' = st, aborted' = aborted,
             f.pc \in {"spawned", "transfer", "report"}, g.id = f.id,
             \/ g.pc \in {"transfer", "report"}
             \/ g.pc = "move" /\ g.op \in {"end", "orphan"}
      PROVE  HeldInv'
  <2>1. \A id \in Ids : Holds(r, id) => Holding(g, id)
    BY <1>q DEF Holds, Holding
  <2> QED
    BY <1>q, <2>1, Keeps DEF Goto
<1>t. Transfer(f.id).pc = "transfer" /\ Transfer(f.id).id = f.id
  BY DEF Transfer, Frame
<1>m. ASSUME NEW op, NEW to
      PROVE  LET g == Frame("move", op, f.id, to)
             IN  g.pc = "move" /\ g.op = op /\ g.id = f.id
  BY DEF Frame
<1> USE DEF map, signals
<1>1. CASE RunBegin(r)
  <2>1. f.pc = "spawned" /\ f.id \in Ids /\ st' = st /\ aborted' = aborted
    BY <1>0, <1>1 DEF RunBegin, Resumes, At, Nameless
  <2>2. CASE Goto(r, Transfer(f.id))
    BY <1>q, <1>t, <2>1, <2>2
  <2>3. CASE Goto(r, Frame("move", "orphan", f.id, "Failed"))
    BY <1>q, <1>m, <2>1, <2>3
  <2>4. CASE Goto(r, Rest(r)) /\ st[f.id] \notin Active
    <3>1. \A id \in Ids : Holds(r, id) => id = f.id
      BY DEF Holds, Holding
    <3> QED
      BY <2>1, <2>4, <3>1, Keeps DEF Goto
  <2> QED
    BY <1>1, <2>2, <2>3, <2>4 DEF RunBegin
<1>2. CASE Progress(r)
  <2> DEFINE g == [Frame("report", "run", f.id,
                         IF st[f.id] = "Starting" THEN "Downloading" ELSE Absent)
                     EXCEPT !.snap = st'[f.id]]
  <2>1. f.pc = "transfer" /\ aborted' = aborted /\ act' = [act EXCEPT ![r] = g]
    BY <1>2 DEF Progress, Resumes, At, Goto
  <2>2. g.pc = "report" /\ g.id = f.id
    BY DEF Frame
  <2> HIDE DEF g
  <2>3. \A id \in Ids : st'[id] \in Active => st[id] \in Active
    BY <1>2 DEF Progress, TypeOK, Active
  <2>4. \A id \in Ids : Holds(r, id) => Holding(g, id)
    BY <2>1, <2>2 DEF Holds, Holding
  <2> QED
    BY <2>1, <2>3, <2>4, Keeps
<1>3. CASE Report(r)
  BY <1>3, <1>q, <1>t DEF Report, At
<1>4. CASE FinishOk(r)
  BY <1>4, <1>q, <1>m DEF FinishOk, Resumes, At
<1>5. CASE FinishErr(r)
  <2>1. PICK to : Goto(r, Frame("move", "end", f.id, to))
    BY <1>5 DEF FinishErr
  <2> QED
    BY <1>5, <1>q, <1>m, <2>1 DEF FinishErr, Resumes, At
<1>6. ~Abort(r)
  BY DEF Abort, HeldInv
<1> QED
  BY <1>1, <1>2, <1>3, <1>4, <1>5, <1>6 DEF Task

\* HeldInv is inductive: no download is active at first, nor after a restart.
LEMMA NextHeld ==
  ASSUME ~SaveFails, "shutdown" \notin Ops
  PROVE  TypeOK /\ SlotInv /\ HeldInv /\ [Next]_vars => HeldInv'
<1> SUFFICES ASSUME TypeOK, SlotInv, HeldInv, [Next]_vars PROVE HeldInv'
  OBVIOUS
<1>1. CASE Reopen
  BY <1>1, ConfigAssumption DEF Reopen, Recovered, HeldInv, SlotHasRun, Active
<1>2. CASE UNCHANGED vars
  BY <1>2 DEF vars, HeldInv, SlotHasRun, Holds
<1> QED
  BY <1>1, <1>2, CallHeld, SegmentHeld, TaskHeld DEF Next

\* Without failing writes and without shutdown no slot is leaked.
THEOREM NoSlotLeaked ==
  ASSUME ~SaveFails, "shutdown" \notin Ops
  PROVE  Spec => []SlotHasRun
<1>1. Init => TypeOK /\ SlotInv /\ HeldInv
  <2>1. Init => HeldInv
    BY DEF Init, HeldInv, SlotHasRun, Active, Absent
  <2> QED
    BY <2>1, InitType, InitSlot
<1>2. TypeOK /\ SlotInv /\ HeldInv /\ [Next]_vars => (TypeOK /\ SlotInv /\ HeldInv)'
  BY NextType, NextSlot, NextHeld
<1>3. HeldInv => SlotHasRun
  BY DEF HeldInv
<1> QED
  BY <1>1, <1>2, <1>3, PTL DEF Spec

(***************************************************************************)
(* A download the manager has accepted has a row in the database, for any  *)
(* sets of downloads, callers and tasks, with failing writes and crashes.  *)
(* The danger is the order of two calls: remove() takes the download out   *)
(* of the map and then deletes its row; enqueue() writes the row and then  *)
(* puts the download into the map.                                         *)
(***************************************************************************)

\* An actor works for a download, other than to find out that it cannot start
\* it: the scheduler's loop may hold an id it has read from the queue long ago.
Touching(f, id) ==
  f.id = id /\ f.pc \notin Nameless /\ ~(f.op = "loop" /\ f.pc \in {"take", "move"})

\* Nobody has heard of a download that is not created, and while it is being
\* created only its creator has.
Unheard == \A id \in Ids : created[id] = 0 =>
  told[id] = Absent /\ \A a \in Actors : ~Touching(act[a], id)
CreatedAlone == \A a \in Actors, id \in Ids : Inserting(act[a], id) =>
  /\ db[id] # Absent /\ told[id] = Absent
  /\ \A b \in Actors : Touching(act[b], id) => b = a

\* A row is deleted for a download that has left the map, and a copy that is
\* about to be saved is the copy of a record.
ErasesRemoved == \A a \in Actors : act[a].pc = "erase" => st[act[a].id] = Absent
CopiesReal == \A a \in Actors : act[a].pc \in {"store", "report"} => act[a].snap # Absent

DurInv == AcceptedIsDurable /\ Unheard /\ CreatedAlone /\ ErasesRemoved /\ CopiesReal

\* A new manager has accepted nothing.
LEMMA InitDurable == Init => DurInv
<1> SUFFICES ASSUME Init PROVE DurInv
  OBVIOUS
<1>1. \A a \in Actors : act[a].pc \in {"idle", "done"} /\ act[a].id = NoId
  BY DEF Init, Rest, Frame
<1> QED
  BY <1>1 DEF Init, DurInv, AcceptedIsDurable, Unheard, CreatedAlone,
     ErasesRemoved, CopiesReal, Touching, Nameless, Inserting

\* An actor moves on to a frame that is not about a download nobody has heard
\* of; it changes the record, the row or the last event of none but its own.
LEMMA Moves ==
  ASSUME TypeOK, SlotInv, DurInv, NEW a \in Actors, NEW g,
         act' = [act EXCEPT ![a] = g], created' = created,
         \A id \in Ids : st'[id] = st[id] \/ st[id] # Absent \/ Inserting(act[a], id),
         \A id \in Ids : told'[id] = told[id] \/ Touching(act[a], id),
         \A id \in Ids : db[id] # Absent => db'[id] # Absent \/ Touching(act[a], id),
         AcceptedIsDurable',
         \A id \in Ids : Touching(g, id) =>
            Touching(act[a], id) \/ st[id] # Absent \/ told[id] # Absent,
         g.pc # "insert",
         g.pc = "erase" => st'[g.id] = Absent,
         g.pc \in {"store", "report"} => g.snap # Absent
  PROVE  DurInv'
<1>1. act'[a] = g /\ \A b \in Actors : b # a => act'[b] = act[b]
  BY DEF TypeOK
<1>2. Unheard'
  BY <1>1 DEF DurInv, Unheard, SlotInv, Uncreated
<1>3. CreatedAlone'
  <2> SUFFICES ASSUME NEW b \in Actors, NEW id \in Ids, Inserting(act'[b], id)
               PROVE  /\ db'[id] # Absent /\ told'[id] = Absent
                      /\ \A c \in Actors : Touching(act'[c], id) => c = b
    BY DEF CreatedAlone
  <2>1. b # a /\ Inserting(act[b], id)
    BY <1>1 DEF Inserting
  <2>2. /\ db[id] # Absent /\ told[id] = Absent /\ st[id] = Absent
        /\ \A c \in Actors : Touching(act[c], id) => c = b
    BY <2>1 DEF DurInv, CreatedAlone, SlotInv, InsertFresh
  <2> QED
    BY <1>1, <2>1, <2>2
<1>4. ErasesRemoved'
  <2> SUFFICES ASSUME NEW b \in Actors, act'[b].pc = "erase" PROVE st'[act'[b].id] = Absent
    BY DEF ErasesRemoved
  <2>1. CASE b = a
    BY <1>1, <2>1
  <2>2. CASE b # a
    <3> DEFINE id == act[b].id
    <3>1. act'[b] = act[b] /\ st[id] = Absent
      BY <1>1, <2>2 DEF DurInv, ErasesRemoved
    <3>2. id \in Ids
      BY <3>1, FrameParts DEF TypeOK, Nameless
    <3>3. ~Inserting(act[a], id)
      BY <2>2, <3>1, <3>2 DEF DurInv, CreatedAlone, Touching, Nameless
    <3> QED
      BY <3>1, <3>2, <3>3
  <2> QED
    BY <2>1, <2>2
<1>5. CopiesReal'
  BY <1>1 DEF DurInv, CopiesReal
<1> QED
  BY <1>2, <1>3, <1>4, <1>5 DEF DurInv

\* The same for a step that changes neither map nor events nor deletes a row.
LEMMA Calm ==
  ASSUME TypeOK, SlotInv, DurInv, NEW a \in Actors, NEW g, Goto(a, g),
         st' = st, created' = created,
         \A id \in Ids : db[id] # Absent => db'[id] # Absent,
         \A id \in Ids : told'[id] = told[id] \/ Touching(act[a], id),
         \A id \in Ids : Touching(g, id) =>
            Touching(act[a], id) \/ st[id] # Absent \/ told[id] # Absent,
         g.pc \notin {"insert", "erase"},
         g.pc \in {"store", "report"} => g.snap # Absent
  PROVE  DurInv'
<1>1. AcceptedIsDurable'
  BY DEF DurInv, AcceptedIsDurable
<1> QED
  BY <1>1, Moves DEF Goto

\* The frames of an actor that works for no download touch none.
LEMMA RestTouches ==
  ASSUME NEW g, g = Loop \/ \E b : g = Rest(b)
  PROVE  (\A id \in Ids : ~Touching(g, id)) /\ g.pc \in {"count", "idle", "done"}
BY DEF Loop, Rest, Frame, Touching, Nameless

\* The same for an actor that only moves its program counter.
LEMMA CalmStep ==
  ASSUME TypeOK, SlotInv, DurInv, NEW a \in Actors, NEW pc, Step(a, pc),
         st' = st, created' = created, db' = db, told' = told,
         pc \notin {"insert", "erase", "store", "report"},
         \/ Touching(act[a], act[a].id) \/ pc = "select"
         \/ pc = "move" /\ act[a].op = "loop"
  PROVE  DurInv'
<1> DEFINE g == [act[a] EXCEPT !.pc = pc]
<1>1. g.pc = pc /\ g.id = act[a].id /\ g.op = act[a].op
  BY DEF TypeOK, Frames
<1>2. Goto(a, g)
  BY DEF Step, Goto
<1> HIDE DEF g
<1>3. \A id \in Ids : Touching(g, id) => Touching(act[a], id)
  BY <1>1 DEF Touching, Nameless
<1> QED
  BY <1>1, <1>2, <1>3, Calm

\* What follows a transition is about the same download.
LEMMA CalmContinue ==
  ASSUME TypeOK, SlotInv, DurInv, NEW a \in Actors, NEW ok \in BOOLEAN,
         Goto(a, Continue(a, ok)), act[a].id \in Ids,
         st' = st, created' = created,
         \A id \in Ids : db[id] # Absent => db'[id] # Absent,
         told' = told \/ told' = Announce(a, ok),
         act[a].pc \in {"copy", "store"} \/ (act[a].pc = "move" /\ ~ok)
  PROVE  DurInv'
<1> DEFINE f == act[a]
<1>0. f \in Frames
  BY DEF TypeOK
<1>1. \A id \in Ids : told'[id] = told[id] \/ Touching(f, id)
  BY DEF Announce, Touching, Nameless, TypeOK
<1>2. CASE ok /\ f.to = "Starting"
  <2> DEFINE g == [f EXCEPT !.pc = "launch", !.snap = Absent]
  <2>1. g.pc = "launch" /\ g.id = f.id /\ Goto(a, g)
    BY <1>0, <1>2 DEF Frames, Continue
  <2>2. \A id \in Ids : Touching(g, id) => Touching(f, id)
    BY <1>2, <2>1 DEF Touching, Nameless
  <2> HIDE DEF g
  <2> QED
    BY <1>1, <2>1, <2>2, Calm
<1>3. CASE ok /\ f.to = "Queued"
  <2> DEFINE g == Frame("push", "requeue", f.id, Absent)
  <2>1. g.pc = "push" /\ g.id = f.id /\ Goto(a, g)
    BY <1>3 DEF Frame, Continue
  <2>2. \A id \in Ids : Touching(g, id) => Touching(f, id)
    BY <1>3, <2>1 DEF Touching, Nameless
  <2> HIDE DEF g
  <2> QED
    BY <1>1, <2>1, <2>2, Calm
<1>4. CASE ~(ok /\ f.to \in {"Starting", "Queued"})
  <2>1. PICK g : Goto(a, g) /\ (g = Loop \/ \E b : g = Rest(b))
    BY <1>4 DEF Continue
  <2>2. (\A id \in Ids : ~Touching(g, id)) /\ g.pc \in {"count", "idle", "done"}
    BY <2>1, RestTouches
  <2> QED
    BY <1>1, <2>1, <2>2, Calm
<1> QED
  BY <1>2, <1>3, <1>4

\* The same for an actor that has nothing more to do for its download.
LEMMA CalmRest ==
  ASSUME TypeOK, SlotInv, DurInv, NEW a \in Actors, NEW g, Goto(a, g),
         g = Loop \/ \E b : g = Rest(b),
         st' = st, created' = created,
         \A id \in Ids : db[id] # Absent => db'[id] # Absent,
         \A id \in Ids : told'[id] = told[id] \/ Touching(act[a], id)
  PROVE  DurInv'
BY Calm, RestTouches

\* Every API call keeps the invariant: all but enqueue are about a download
\* somebody has told the caller of.
LEMMA CallDurable ==
  ASSUME TypeOK, SlotInv, DurInv, NEW c \in Callers, Call(c)
  PROVE  DurInv'
<1> c \in Actors
  BY DEF Actors
<1>f. ASSUME NEW pc, NEW op, NEW id \in Ids, NEW to, Goto(c, Frame(pc, op, id, to)),
             st[id] # Absent \/ told[id] # Absent,
             pc \in {"capacity", "intend", "move", "signal", "unqueue"},
             st' = st, created' = created, db' = db, told' = told
      PROVE  DurInv'
  <2> DEFINE g == Frame(pc, op, id, to)
  <2>1. g.pc = pc /\ g.id = id
    BY DEF Frame
  <2> HIDE DEF g
  <2>2. Goto(c, g)
    BY <1>f DEF g
  <2>3. \A i \in Ids : Touching(g, i) => st[i] # Absent \/ told[i] # Absent
    BY <1>f, <2>1 DEF Touching
  <2> QED
    BY <1>f, <2>1, <2>2, <2>3, Calm
<1> USE DEF map, disk
<1>1. ASSUME NEW id \in Ids, CallEnqueue(c, id) PROVE DurInv'
  <2>1. /\ created[id] = 0 /\ told[id] = Absent
        /\ \A a \in Actors : ~Touching(act[a], id)
        /\ st' = st /\ told' = told
        /\ created' = [created EXCEPT ![id] = Now]
        /\ db' = [db EXCEPT ![id] = "Queued"]
    BY <1>1 DEF CallEnqueue, EnqueuedRow, DurInv, Unheard
  <2>2. act' = [act EXCEPT ![c] = Frame("insert", "enqueue", id, Absent)]
    BY <1>1 DEF CallEnqueue, Goto
  <2>3. /\ act'[c].pc = "insert" /\ act'[c].id = id
        /\ \A a \in Actors : a # c => act'[a] = act[a]
    BY <2>2 DEF TypeOK, Frame
  <2>4. created'[id] # 0 /\ \A i \in Ids : i # id => created'[i] = created[i]
    BY <2>1, FS_Subset, FS_CardinalityType, ActorsAssumption DEF Now, TypeOK
  <2>5. db'[id] # Absent /\ \A i \in Ids : i # id => db'[i] = db[i]
    BY <2>1 DEF TypeOK, Absent
  <2>6. \A i \in Ids : Touching(act'[c], i) => i = id
    BY <2>3 DEF Touching
  <2>7. AcceptedIsDurable'
    BY <2>1, <2>5 DEF DurInv, AcceptedIsDurable
  <2>8. Unheard'
    BY <2>1, <2>3, <2>4, <2>6 DEF DurInv, Unheard
  <2>9. CreatedAlone'
    <3> SUFFICES ASSUME NEW a \in Actors, NEW i \in Ids, Inserting(act'[a], i)
                 PROVE  /\ db'[i] # Absent /\ told'[i] = Absent
                        /\ \A b \in Actors : Touching(act'[b], i) => b = a
      BY DEF CreatedAlone
    <3>1. CASE a = c
      BY <2>1, <2>3, <2>5, <3>1 DEF Inserting
    <3>2. CASE a # c
      <4>1. Inserting(act[a], i)
        BY <2>3, <3>2
      <4>2. i # id
        BY <2>1, <4>1 DEF Inserting, Touching, Nameless
      <4> QED
        BY <2>1, <2>3, <2>5, <2>6, <4>1, <4>2 DEF DurInv, CreatedAlone
    <3> QED
      BY <3>1, <3>2
  <2>10. ErasesRemoved' /\ CopiesReal'
    BY <2>1, <2>3 DEF DurInv, ErasesRemoved, CopiesReal
  <2> QED
    BY <2>7, <2>8, <2>9, <2>10 DEF DurInv
<1>2. ASSUME NEW id \in Ids, CallStart(c, id) PROVE DurInv'
  BY <1>2, <1>f DEF CallStart, Reads, Absent
<1>3. ASSUME NEW id \in Ids, CallPause(c, id) PROVE DurInv'
  BY <1>3, <1>f DEF CallPause, Reads, Absent, Active
<1>4. ASSUME NEW id \in Ids, CallResume(c, id) PROVE DurInv'
  BY <1>4, <1>f DEF CallResume, Reads, Absent
<1>5. ASSUME NEW id \in Ids, CallRetry(c, id) PROVE DurInv'
  BY <1>5, <1>f DEF CallRetry, Reads, Absent
<1>6. ASSUME NEW id \in Ids, CallCancelActive(c, id) PROVE DurInv'
  BY <1>6, <1>f DEF CallCancelActive, Reads, Absent, Active
<1>7. ASSUME NEW id \in Ids, CallCancelWaiting(c, id) PROVE DurInv'
  BY <1>7, <1>f DEF CallCancelWaiting, Reads, Absent
<1>8. ASSUME NEW id \in Ids, CallRemove(c, id) PROVE DurInv'
  BY <1>8, <1>f DEF CallRemove, Known
<1>9. CASE CallShutdown(c)
  <2>1. UNCHANGED <<st, created, db, told, act>>
    BY <1>9 DEF CallShutdown
  <2> QED
    BY <2>1 DEF DurInv, AcceptedIsDurable, Unheard, CreatedAlone, ErasesRemoved, CopiesReal
<1> QED
  BY <1>1, <1>2, <1>3, <1>4, <1>5, <1>6, <1>7, <1>8, <1>9 DEF Call

\* Every segment keeps the invariant.
LEMMA SegmentDurable ==
  ASSUME TypeOK, SlotInv, DurInv, NEW a \in Actors, Segment(a)
  PROVE  DurInv'
<1> DEFINE f == act[a]
<1>0. f \in Frames /\ (f.pc \notin Nameless => f.id \in Ids)
  BY FrameParts DEF TypeOK
<1>1. CASE Insert(a)
  <2> DEFINE g == [f EXCEPT !.pc = "push"]  d == f.id
  <2>1. /\ d \in Ids /\ Inserting(f, d)
        /\ st' = [st EXCEPT ![d] = "Queued"] /\ db' = db
        /\ created' = created /\ told' = told
        /\ act' = [act EXCEPT ![a] = g]
    BY <1>0, <1>1 DEF Insert, At, Nameless, Step, disk, Inserting
  <2>2. g.pc = "push" /\ g.id = d
    BY <1>0 DEF Frames
  <2> HIDE DEF g
  <2>3. \A id \in Ids : Touching(g, id) => Touching(f, id)
    BY <2>1, <2>2 DEF Touching, Nameless, Inserting
  <2>4. \A id \in Ids : st'[id] = st[id] \/ Inserting(f, id)
    BY <2>1 DEF TypeOK, Inserting
  <2>5. AcceptedIsDurable'
    BY <2>1, <2>4 DEF DurInv, AcceptedIsDurable, CreatedAlone
  <2> QED
    BY <2>1, <2>2, <2>3, <2>4, <2>5, Moves
<1>2. CASE Push(a)
  <2>1. \A id \in Ids : told'[id] = told[id] \/ Touching(f, id)
    BY <1>0, <1>2 DEF Push, At, Touching, Nameless, TypeOK
  <2> QED
    BY <1>2, <2>1, CalmRest DEF Push, map, disk
<1>3. CASE Capacity(a)
  <2>1. Touching(f, f.id)
    BY <1>3 DEF Capacity, At, Touching, Nameless
  <2> QED
    BY <1>3, <2>1, CalmRest, CalmStep DEF Capacity, map, disk
<1>4. CASE Unqueue(a)
  <2>1. Touching(f, f.id)
    BY <1>4 DEF Unqueue, At, Touching, Nameless
  <2> QED
    BY <1>4, <2>1, CalmStep DEF Unqueue, map, disk
<1>5. CASE Intend(a)
  <2>1. Touching(f, f.id)
    BY <1>5 DEF Intend, At, Touching, Nameless
  <2> QED
    BY <1>5, <2>1, CalmStep DEF Intend, map, disk
<1>6. CASE Signal(a)
  BY <1>6, CalmRest DEF Signal, map, disk
<1>7. CASE Forget(a)
  <2> DEFINE g == [f EXCEPT !.pc = "erase"]  d == f.id
  <2>1. /\ d \in Ids /\ f.pc = "forget"
        /\ st' = [st EXCEPT ![d] = Absent] /\ db' = db
        /\ created' = created /\ told' = told
        /\ act' = [act EXCEPT ![a] = g]
    BY <1>0, <1>7 DEF Forget, At, Nameless, Step, disk
  <2>2. g.pc = "erase" /\ g.id = d
    BY <1>0 DEF Frames
  <2> HIDE DEF g
  <2>3. \A id \in Ids : Touching(g, id) => Touching(f, id)
    BY <2>1, <2>2 DEF Touching, Nameless
  <2>4. st'[d] = Absent /\ \A id \in Ids : st'[id] = st[id] \/ st[id] # Absent
    BY <2>1 DEF TypeOK
  <2>5. AcceptedIsDurable'
    BY <2>1, <2>4 DEF DurInv, AcceptedIsDurable, TypeOK
  <2> QED
    BY <2>1, <2>2, <2>3, <2>4, <2>5, Moves
<1>8. CASE Erase(a)
  <2>1. f.pc = "erase" /\ st[f.id] = Absent /\ f.id \in Ids
    BY <1>0, <1>8 DEF Erase, At, Nameless, DurInv, ErasesRemoved
  <2>2. /\ st' = st /\ told' = told /\ created' = created
        /\ \A id \in Ids : db'[id] = db[id] \/ id = f.id
    BY <1>8 DEF Erase, map, TypeOK
  <2>3. Touching(f, f.id)
    BY <2>1 DEF Touching, Nameless
  <2>4. AcceptedIsDurable'
    BY <2>1, <2>2 DEF DurInv, AcceptedIsDurable
  <2>5. PICK g : Goto(a, g) /\ (g = Loop \/ \E b : g = Rest(b))
    BY <1>8 DEF Erase
  <2>6. (\A id \in Ids : ~Touching(g, id)) /\ g.pc \in {"count", "idle", "done"}
    BY <2>5, RestTouches
  <2> QED
    BY <2>2, <2>3, <2>4, <2>5, <2>6, Moves DEF Goto
<1>9. CASE Count(a)
  BY <1>9, CalmRest, CalmStep DEF Count, map, disk
<1>10. CASE Select(a)
  <2>1. ASSUME NEW id \in Ids, Goto(a, Frame("take", "loop", id, "Starting"))
        PROVE  DurInv'
    <3> DEFINE g == Frame("take", "loop", id, "Starting")
    <3>1. g.pc = "take" /\ g.op = "loop" /\ Goto(a, g)
      BY <2>1 DEF Frame
    <3> HIDE DEF g
    <3>2. \A i \in Ids : ~Touching(g, i)
      BY <3>1 DEF Touching
    <3> QED
      BY <1>10, <3>1, <3>2, Calm DEF Select, map, disk
  <2> QED
    BY <1>10, <2>1, CalmRest DEF Select, map, disk
<1>11. CASE Take(a)
  <2>1. Touching(f, f.id) \/ f.op = "loop"
    BY <1>11 DEF Take, At, Touching, Nameless
  <2> QED
    BY <1>11, <2>1, CalmStep DEF Take, map, disk
<1>12. CASE Move(a)
  <2> DEFINE d == f.id
  <2>1. d \in Ids /\ f.pc = "move"
    BY <1>0, <1>12 DEF Move, At, Nameless
  <2>2. CASE Goto(a, Continue(a, FALSE)) /\ UNCHANGED st /\ told' = Announce(a, FALSE)
    BY <1>12, <2>1, <2>2, CalmContinue DEF Move, disk
  <2>3. CASE /\ CanTransition(st[d], f.to) /\ st' = [st EXCEPT ![d] = f.to]
             /\ Step(a, "copy") /\ UNCHANGED told
    <3> DEFINE g == [f EXCEPT !.pc = "copy"]
    <3>1. act' = [act EXCEPT ![a] = g] /\ created' = created /\ db' = db /\ told' = told
      BY <1>12, <2>3 DEF Move, Step, disk
    <3>2. g.pc = "copy" /\ g.id = d
      BY <1>0 DEF Frames
    <3> HIDE DEF g
    <3>3. st[d] # Absent /\ \A id \in Ids : st'[id] = st[id] \/ id = d
      BY <2>1, <2>3 DEF CanTransition, TypeOK
    <3>4. \A id \in Ids : Touching(g, id) => st[id] # Absent
      BY <3>2, <3>3 DEF Touching
    <3>5. AcceptedIsDurable'
      BY <2>1, <3>1, <3>3 DEF DurInv, AcceptedIsDurable
    <3>6. \A id \in Ids : st'[id] = st[id] \/ st[id] # Absent
      BY <3>3
    <3> QED
      <4>3. \A id \in Ids : told'[id] = told[id] \/ Touching(act[a], id)
        BY <3>1
      <4>4. \A id \in Ids : db[id] # Absent => db'[id] # Absent \/ Touching(act[a], id)
        BY <3>1
      <4>5. \A id \in Ids : Touching(g, id) =>
            Touching(act[a], id) \/ st[id] # Absent \/ told[id] # Absent
        BY <3>4
      <4>6. g.pc # "insert" /\ (g.pc = "erase" => st'[g.id] = Absent) /\ (g.pc \in {"store", "report"} => g.snap # Absent)
        BY <3>2
      <4> QED
        BY <3>1, <3>5, <3>6, <4>3, <4>4, <4>5, <4>6, Moves
  <2> QED
    BY <1>12, <2>2, <2>3 DEF Move
<1>13. CASE Copy(a)
  <2>1. f.id \in Ids /\ f.pc = "copy"
    BY <1>0, <1>13 DEF Copy, At, Nameless
  <2>2. st' = st /\ created' = created /\ db' = db
    BY <1>13 DEF Copy, map, disk
  <2>3. CASE Goto(a, Continue(a, TRUE)) /\ told' = Announce(a, TRUE)
    <3>1. \A id \in Ids : db[id] # Absent => db'[id] # Absent
      BY <2>2
    <3>2. /\ told' = told \/ told' = Announce(a, TRUE)
          /\ f.pc \in {"copy", "store"} \/ (f.pc = "move" /\ ~TRUE)
      BY <2>1, <2>3
    <3> QED
      BY <2>1, <2>2, <2>3, <3>1, <3>2, CalmContinue
  <2>4. CASE /\ st[f.id] # Absent /\ told' = told
             /\ Goto(a, [f EXCEPT !.pc = "store", !.snap = st[f.id]])
    <3> DEFINE g == [f EXCEPT !.pc = "store", !.snap = st[f.id]]
    <3>1. g.pc = "store" /\ g.id = f.id /\ g.snap = st[f.id]
      BY <1>0 DEF Frames
    <3> HIDE DEF g
    <3>2. Goto(a, g)
      BY <2>4 DEF g
    <3>3. \A id \in Ids : Touching(g, id) => Touching(f, id)
      BY <2>1, <3>1 DEF Touching, Nameless
    <3> QED
      BY <2>2, <2>4, <3>1, <3>2, <3>3, Calm
  <2> QED
    BY <1>13, <2>3, <2>4 DEF Copy
<1>14. CASE Store(a)
  <2>1. f.id \in Ids /\ f.pc = "store" /\ f.snap # Absent
    BY <1>0, <1>14 DEF Store, At, Nameless, DurInv, CopiesReal
  <2>2. \A id \in Ids : db[id] # Absent => db'[id] # Absent
    BY <1>14, <2>1 DEF Store, TypeOK
  <2>3. st' = st /\ created' = created
    BY <1>14 DEF Store, map
  <2>4. ASSUME NEW ok \in BOOLEAN, Goto(a, Continue(a, ok)), told' = Announce(a, ok)
        PROVE  DurInv'
    <3>1. /\ told' = told \/ told' = Announce(a, ok)
          /\ f.pc \in {"copy", "store"} \/ (f.pc = "move" /\ ~ok)
      BY <2>1, <2>4
    <3> QED
      BY <2>1, <2>2, <2>3, <2>4, <3>1, CalmContinue
  <2> QED
    BY <1>14, <2>4 DEF Store
<1>15. ASSUME NEW r \in Runs, Launch(a, r) PROVE DurInv'
  <2> DEFINE d == f.id
             g == [f EXCEPT !.pc = "attach", !.run = r]
             h == Frame("spawned", "run", d, Absent)
  <2>1. /\ d \in Ids /\ f.pc = "launch" /\ r # a
        /\ act' = [act EXCEPT ![a] = g, ![r] = h]
        /\ st' = st /\ created' = created /\ db' = db /\ told' = told
    BY <1>0, <1>15 DEF Launch, At, Nameless, NextFree, Free, disk
  <2>2. g.pc = "attach" /\ g.id = d /\ h.pc = "spawned" /\ h.id = d
    BY <1>0 DEF Frame, Frames
  <2> HIDE DEF g, h
  <2>3. r \in Actors /\ act'[a] = g /\ act'[r] = h
        /\ \A b \in Actors : b # a /\ b # r => act'[b] = act[b]
    BY <2>1 DEF TypeOK, Actors
  <2>4. Touching(f, d)
    BY <2>1 DEF Touching, Nameless
  <2>5. \A id \in Ids : Touching(g, id) \/ Touching(h, id) => id = d
    BY <2>2 DEF Touching
  <2>6. AcceptedIsDurable'
    BY <2>1 DEF DurInv, AcceptedIsDurable
  <2>a. \A b \in Actors, id \in Ids :
           Touching(act'[b], id) => Touching(act[b], id) \/ (b = r /\ id = d)
    BY <2>3, <2>4, <2>5
  <2>b. \A b \in Actors, id \in Ids : Inserting(act'[b], id) => Inserting(act[b], id)
    BY <2>2, <2>3 DEF Inserting
  <2>c. Unheard'
    BY <2>1, <2>4, <2>a DEF DurInv, Unheard
  <2>7. \A b \in Actors : ~Inserting(act[b], d)
    BY <2>1, <2>4 DEF DurInv, CreatedAlone, Inserting
  <2>8. CreatedAlone'
    <3> SUFFICES ASSUME NEW b \in Actors, NEW i \in Ids, Inserting(act'[b], i)
                 PROVE  /\ db'[i] # Absent /\ told'[i] = Absent
                        /\ \A c \in Actors : Touching(act'[c], i) => c = b
      BY DEF CreatedAlone
    <3>1. Inserting(act[b], i) /\ i # d
      BY <2>7, <2>b
    <3> QED
      BY <2>1, <2>a, <3>1 DEF DurInv, CreatedAlone
  <2>9. ErasesRemoved' /\ CopiesReal'
    BY <2>1, <2>2, <2>3 DEF DurInv, ErasesRemoved, CopiesReal
  <2> QED
    BY <2>6, <2>c, <2>8, <2>9 DEF DurInv
<1>16. CASE Attach(a)
  BY <1>16, CalmRest DEF Attach, disk
<1> QED
  BY <1>1, <1>2, <1>3, <1>4, <1>5, <1>6, <1>7, <1>8, <1>9, <1>10, <1>11, <1>12,
     <1>13, <1>14, <1>15, <1>16 DEF Segment

\* Every step of a task keeps the invariant: a report and an end are of a
\* download the task was spawned for.
LEMMA TaskDurable ==
  ASSUME TypeOK, SlotInv, DurInv, NEW r \in Runs, Task(r)
  PROVE  DurInv'
<1> r \in Actors
  BY DEF Actors
<1> DEFINE f == act[r]
<1>0. f \in Frames /\ (f.pc \notin Nameless => f.id \in Ids)
  BY FrameParts DEF TypeOK
<1>q. ASSUME NEW g, Goto(r, g), Touching(f, f.id), g.id = f.id,
             g.pc \in {"transfer", "move"},
             st' = st, created' = created,
             \A id \in Ids : db[id] # Absent => db'[id] # Absent,
             \A id \in Ids : told'[id] = told[id] \/ Touching(f, id)
      PROVE  DurInv'
  <2>1. \A id \in Ids : Touching(g, id) => Touching(f, id)
    BY <1>q DEF Touching
  <2> QED
    BY <1>q, <2>1, Calm
<1>t. ASSUME NEW id PROVE Transfer(id).id = id /\ Transfer(id).pc = "transfer"
  BY DEF Transfer, Frame
<1>m. ASSUME NEW op, NEW id, NEW to
      PROVE  Frame("move", op, id, to).id = id /\ Frame("move", op, id, to).pc = "move"
  BY DEF Frame
<1>1. CASE RunBegin(r)
  <2>1. Touching(f, f.id)
    BY <1>1 DEF RunBegin, Resumes, At, Touching, Nameless
  <2>2. st' = st /\ created' = created /\ db' = db /\ told' = told
    BY <1>1 DEF RunBegin, map, disk
  <2>3. CASE Goto(r, Transfer(f.id))
    BY <1>q, <1>t, <2>1, <2>2, <2>3
  <2>4. CASE Goto(r, Frame("move", "orphan", f.id, "Failed"))
    BY <1>q, <1>m, <2>1, <2>2, <2>4
  <2>5. CASE Goto(r, Rest(r))
    BY <2>2, <2>5, CalmRest
  <2> QED
    BY <1>1, <2>3, <2>4, <2>5 DEF RunBegin
<1>2. CASE Progress(r)
  <2> DEFINE d == f.id
             g == [Frame("report", "run", d, IF st[d] = "Starting" THEN "Downloading" ELSE Absent)
                     EXCEPT !.snap = st'[d]]
  <2>1. /\ d \in Ids /\ f.pc = "transfer" /\ st[d] # Absent
        /\ act' = [act EXCEPT ![r] = g]
        /\ created' = created /\ db' = db /\ told' = told
    BY <1>0, <1>2 DEF Progress, Resumes, At, Nameless, Goto, disk
  <2>2. g.pc = "report" /\ g.id = d /\ g.snap = st'[d]
    BY DEF Frame
  <2> HIDE DEF g
  <2>3. st'[d] # Absent /\ \A id \in Ids : st'[id] = st[id] \/ id = d
    BY <1>2, <2>1 DEF Progress, TypeOK, Absent
  <2>4. \A id \in Ids : Touching(g, id) => st[id] # Absent
    BY <2>1, <2>2 DEF Touching
  <2>5. AcceptedIsDurable'
    BY <2>1, <2>3 DEF DurInv, AcceptedIsDurable
  <2> QED
    BY <2>1, <2>2, <2>3, <2>4, <2>5, Moves
<1>3. CASE Report(r)
  <2>1. f.id \in Ids /\ Touching(f, f.id) /\ f.snap # Absent
    BY <1>0, <1>3 DEF Report, At, Nameless, Touching, DurInv, CopiesReal
  <2>2. /\ st' = st /\ created' = created
        /\ \A id \in Ids : db[id] # Absent => db'[id] # Absent
        /\ \A id \in Ids : told'[id] = told[id] \/ Touching(f, id)
    BY <1>3, <2>1 DEF Report, map, TypeOK
  <2> QED
    BY <1>3, <1>q, <1>t, <2>1, <2>2 DEF Report
<1>4. CASE FinishOk(r)
  <2>1. Touching(f, f.id)
    BY <1>4 DEF FinishOk, Resumes, At, Touching, Nameless
  <2> QED
    BY <1>4, <1>q, <1>m, <2>1 DEF FinishOk, map, disk
<1>5. CASE FinishErr(r)
  <2>1. Touching(f, f.id)
    BY <1>5 DEF FinishErr, Resumes, At, Touching, Nameless
  <2>2. PICK to : Goto(r, Frame("move", "end", f.id, to))
    BY <1>5 DEF FinishErr
  <2> QED
    BY <1>5, <1>q, <1>m, <2>1, <2>2 DEF FinishErr, map, disk
<1>6. CASE Abort(r)
  BY <1>6, CalmRest DEF Abort, map, disk
<1> QED
  BY <1>1, <1>2, <1>3, <1>4, <1>5, <1>6 DEF Task

\* After a restart the map is what the rows say.
LEMMA ReopenDurable ==
  ASSUME TypeOK, SlotInv, DurInv, Reopen
  PROVE  DurInv'
<1>1. \A a \in Actors : act'[a].pc \in {"idle", "done"}
  BY DEF Reopen, Rest, Frame
<1>2. \A a \in Actors, id \in Ids : ~Touching(act'[a], id) /\ ~Inserting(act'[a], id)
  BY <1>1 DEF Touching, Nameless, Inserting
<1>3. AcceptedIsDurable'
  BY DEF Reopen, AcceptedIsDurable
<1>4. Unheard'
  BY <1>2 DEF Reopen, DurInv, Unheard, SlotInv, Uncreated, Active, Absent
<1>5. CreatedAlone' /\ ErasesRemoved' /\ CopiesReal'
  BY <1>1, <1>2 DEF CreatedAlone, ErasesRemoved, CopiesReal
<1> QED
  BY <1>3, <1>4, <1>5 DEF DurInv

\* DurInv is inductive.
LEMMA NextDurable == TypeOK /\ SlotInv /\ DurInv /\ [Next]_vars => DurInv'
<1> SUFFICES ASSUME TypeOK, SlotInv, DurInv, [Next]_vars PROVE DurInv'
  OBVIOUS
<1>1. CASE Next
  BY <1>1, CallDurable, SegmentDurable, TaskDurable, ReopenDurable DEF Next
<1>2. CASE UNCHANGED vars
  BY <1>2 DEF vars, DurInv, AcceptedIsDurable, Unheard, CreatedAlone, ErasesRemoved, CopiesReal
<1> QED
  BY <1>1, <1>2

\* Whatever calls, transfers, failed writes and crashes interleave: a download
\* that is in the map has a row, so no crash can lose it.
THEOREM AcceptedDurable == Spec => []AcceptedIsDurable
<1>1. Init => TypeOK /\ SlotInv /\ DurInv
  BY InitType, InitSlot, InitDurable
<1>2. TypeOK /\ SlotInv /\ DurInv /\ [Next]_vars => (TypeOK /\ SlotInv /\ DurInv)'
  BY NextType, NextSlot, NextDurable
<1>3. DurInv => AcceptedIsDurable
  BY DEF DurInv
<1> QED
  BY <1>1, <1>2, <1>3, PTL DEF Spec

=============================================================================
