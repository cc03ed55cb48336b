--------------------------- MODULE OneThreadProofs ---------------------------
(***************************************************************************)
(* What one OS thread gives the manager (Workers = 1, tokio's              *)
(* current_thread flavour): the code between two awaits runs alone, so a   *)
(* free slot that was counted is still free when it is taken, and a pause  *)
(* intent that was recorded is still there when the task is signalled.     *)
(* With more threads neither holds (see the run v_limit).                  *)
(***************************************************************************)
EXTENDS ManagerProofs

\* At most one actor is between two awaits.
OneBusy == \A a, b \in Busy : a = b

\* An actor in such a frame has counted a free slot that it may take.
Room(f) ==
  \/ f.pc \in {"select", "take"}
  \/ f.pc \in {"unqueue", "move"} /\ f.to = "Starting"
RoomKept == \A a \in Actors : Room(act[a]) => HasRoom

LimitInv == OneBusy /\ RoomKept /\ LimitRespected

\* The active downloads can be counted.
LEMMA ActiveFinite ==
  IsFiniteSet(ActiveIds) /\ Cardinality(ActiveIds) \in Nat
BY FS_Subset, FS_CardinalityType, ActorsAssumption DEF ActiveIds

LEMMA ActiveFiniteNext ==
  IsFiniteSet(ActiveIds') /\ Cardinality(ActiveIds') \in Nat
BY FS_Subset, FS_CardinalityType, ActorsAssumption DEF ActiveIds

\* With one thread an actor runs only when nobody is busy.
LEMMA RunsAlone ==
  ASSUME Workers = 1, MayRun
  PROVE  Busy = {}
<1>1. IsFiniteSet(Busy)
  BY FS_Subset, FS_Union, ActorsAssumption DEF Busy, Actors
<1>2. Cardinality(Busy) \in Nat /\ Cardinality(Busy) = 0
  BY <1>1, FS_CardinalityType DEF MayRun
<1> QED
  BY <1>1, <1>2, FS_EmptySet

\* An actor inside a segment is busy, and not as a transfer that reports.
LEMMA SegmentBusy ==
  ASSUME NEW a \in Actors, Segment(a)
  PROVE  a \in Busy /\ act[a].pc \notin {"idle", "done", "spawned", "transfer", "report"}
<1> DEFINE Inside == act[a].pc \notin {"idle", "done", "spawned", "transfer", "report"}
<1>1. Insert(a) \/ Push(a) \/ Capacity(a) \/ Unqueue(a) \/ Intend(a) \/ Signal(a) => Inside
  BY DEF Insert, Push, Capacity, Unqueue, Intend, Signal, At
<1>2. Forget(a) \/ Erase(a) \/ Count(a) \/ Select(a) \/ Take(a) \/ Attach(a) => Inside
  BY DEF Forget, Erase, Count, Select, Take, Attach, At
<1>3. Move(a) \/ Copy(a) \/ Store(a) => Inside
  BY DEF Move, Copy, Store, At
<1>4. (\E r \in Runs : Launch(a, r)) => Inside
  BY DEF Launch, At
<1> QED
  BY <1>1, <1>2, <1>3, <1>4 DEF Segment, Busy

\* An actor that may run moves on; it is the only busy one then.
LEMMA BusyStep ==
  ASSUME TypeOK, OneBusy, NEW a \in Actors, NEW g, act' = [act EXCEPT ![a] = g],
         a \in Busy \/ Busy = {}
  PROVE  /\ OneBusy'
         /\ act'[a] = g
         /\ \A b \in Actors : b # a => act'[b] = act[b] /\ b \notin Busy
<1>1. act'[a] = g /\ \A b \in Actors : b # a => act'[b] = act[b] /\ b \notin Busy
  BY DEF TypeOK, OneBusy
<1>2. \A b \in Busy' : b = a
  BY <1>1 DEF Busy
<1> QED
  BY <1>1, <1>2 DEF OneBusy

\* A step that starts no download, and after which the actor has room if it
\* claims to.
LEMMA NotMore ==
  ASSUME TypeOK, LimitInv, NEW a \in Actors, NEW g, act' = [act EXCEPT ![a] = g],
         a \in Busy \/ Busy = {},
         \A id \in Ids : st'[id] \in Active => st[id] \in Active,
         Room(g) => HasRoom
  PROVE  LimitInv'
<1>1. /\ OneBusy' /\ act'[a] = g
      /\ \A b \in Actors : b # a => act'[b] = act[b] /\ b \notin Busy
  BY BusyStep DEF LimitInv
<1>2. Cardinality(ActiveIds') <= Cardinality(ActiveIds)
  <2>1. ActiveIds' \subseteq ActiveIds
    BY DEF ActiveIds
  <2> QED
    BY <2>1, ActiveFinite, FS_Subset
<1>3. LimitRespected'
  BY <1>2, ActiveFinite, ActiveFiniteNext, ConfigAssumption DEF LimitInv, LimitRespected
<1>4. HasRoom => HasRoom'
  BY <1>2, ActiveFinite, ActiveFiniteNext, ConfigAssumption DEF HasRoom
<1>5. RoomKept'
  BY <1>1, <1>4 DEF RoomKept, Room, Busy
<1> QED
  BY <1>1, <1>3, <1>5 DEF LimitInv

\* The same when the map does not change at all, and for an actor that only
\* moves its program counter.
LEMMA NotMoreGoto ==
  ASSUME TypeOK, LimitInv, NEW a \in Actors, NEW g, Goto(a, g),
         a \in Busy \/ Busy = {}, st' = st, Room(g) => HasRoom
  PROVE  LimitInv'
BY NotMore DEF Goto

LEMMA NotMoreStep ==
  ASSUME TypeOK, LimitInv, NEW a \in Actors, NEW pc, Step(a, pc), a \in Busy,
         \A id \in Ids : st'[id] \in Active => st[id] \in Active,
         Room(act[a]) \/ HasRoom \/ pc \notin {"select", "take", "unqueue", "move"}
                      \/ (pc \in {"unqueue", "move"} /\ act[a].to # "Starting")
  PROVE  LimitInv'
<1> DEFINE g == [act[a] EXCEPT !.pc = pc]
<1>1. g.pc = pc /\ g.to = act[a].to /\ act' = [act EXCEPT ![a] = g]
  BY DEF TypeOK, Frames, Step
<1> HIDE DEF g
<1>2. Room(g) => HasRoom
  BY <1>1 DEF Room, LimitInv, RoomKept
<1> QED
  BY <1>1, <1>2, NotMore

\* The frames of an actor that works for no download claim no room.
LEMMA RestRoom ==
  ASSUME NEW g, g = Loop \/ \E b : g = Rest(b)
  PROVE  ~Room(g)
BY DEF Loop, Rest, Frame, Room

LEMMA NotMoreRest ==
  ASSUME TypeOK, LimitInv, NEW a \in Actors, NEW g, Goto(a, g),
         g = Loop \/ \E b : g = Rest(b), a \in Busy \/ Busy = {}, st' = st
  PROVE  LimitInv'
BY NotMoreGoto, RestRoom

\* What follows a transition claims no room.
LEMMA ContinueRoom ==
  ASSUME TypeOK, NEW a \in Actors, NEW ok \in BOOLEAN
  PROVE  ~Room(Continue(a, ok))
<1>1. [act[a] EXCEPT !.pc = "launch", !.snap = Absent].pc = "launch"
  BY DEF TypeOK, Frames
<1>2. Frame("push", "requeue", act[a].id, Absent).pc = "push"
  BY DEF Frame
<1> QED
  BY <1>1, <1>2, RestRoom DEF Continue, Room

\* A new manager has no active download.
LEMMA InitLimit == Init => LimitInv
<1> SUFFICES ASSUME Init PROVE LimitInv
  OBVIOUS
<1>1. \A a \in Actors : act[a].pc \in {"idle", "done"}
  BY DEF Init, Rest, Frame
<1>2. ActiveIds = {}
  BY DEF Init, ActiveIds, Active, Absent
<1>3. Cardinality(ActiveIds) = 0
  BY <1>2, FS_EmptySet
<1> QED
  BY <1>1, <1>3, ConfigAssumption
     DEF LimitInv, OneBusy, Busy, RoomKept, Room, LimitRespected

\* Every API call keeps the invariant: it starts when nobody is busy.
LEMMA CallLimit ==
  ASSUME Workers = 1, TypeOK, LimitInv, NEW c \in Callers, Call(c)
  PROVE  LimitInv'
<1> c \in Actors
  BY DEF Actors
<1>f. ASSUME NEW pc, NEW op, NEW id, NEW to, Goto(c, Frame(pc, op, id, to)), MayRun,
             pc \in {"insert", "capacity", "intend", "signal"} \/ to # "Starting",
             pc \notin {"select", "take"}, st' = st
      PROVE  LimitInv'
  <2>1. ~Room(Frame(pc, op, id, to))
    BY <1>f DEF Frame, Room
  <2> QED
    BY <1>f, <2>1, RunsAlone, NotMoreGoto
<1> USE DEF map
<1>1. ASSUME NEW id \in Ids, CallEnqueue(c, id) PROVE LimitInv'
  BY <1>1, <1>f DEF CallEnqueue, Calls
<1>2. ASSUME NEW id \in Ids, CallStart(c, id) PROVE LimitInv'
  BY <1>2, <1>f DEF CallStart, Reads, Calls
<1>3. ASSUME NEW id \in Ids, CallPause(c, id) PROVE LimitInv'
  BY <1>3, <1>f DEF CallPause, Reads, Calls
<1>4. ASSUME NEW id \in Ids, CallResume(c, id) \/ CallRetry(c, id) PROVE LimitInv'
  BY <1>4, <1>f DEF CallResume, CallRetry, Reads, Calls
<1>5. ASSUME NEW id \in Ids, CallCancelActive(c, id) PROVE LimitInv'
  BY <1>5, <1>f DEF CallCancelActive, Reads, Calls
<1>6. ASSUME NEW id \in Ids, CallCancelWaiting(c, id) PROVE LimitInv'
  BY <1>6, <1>f DEF CallCancelWaiting, Reads, Calls
<1>7. ASSUME NEW id \in Ids, CallRemove(c, id) PROVE LimitInv'
  BY <1>7, <1>f DEF CallRemove, Calls, Absent
<1>8. CASE CallShutdown(c)
  <2>1. UNCHANGED <<st, act>>
    BY <1>8 DEF CallShutdown
  <2> QED
    BY <2>1 DEF LimitInv, OneBusy, Busy, RoomKept, HasRoom, LimitRespected, ActiveIds
<1> QED
  BY <1>1, <1>2, <1>3, <1>4, <1>5, <1>6, <1>7, <1>8 DEF Call

\* Every segment keeps the invariant; Move is the one that starts a download,
\* in a slot that was counted in the same stretch of code.
LEMMA SegmentLimit ==
  ASSUME TypeOK, SlotInv, LimitInv, NEW a \in Actors, Segment(a)
  PROVE  LimitInv'
<1> DEFINE f == act[a]
<1>0. f \in Frames /\ (f.pc \notin Nameless => f.id \in Ids) /\ Target(f)
  BY FrameParts DEF TypeOK, SlotInv, Targets
<1>b. a \in Busy
  BY SegmentBusy
<1>1. CASE Insert(a)
  <2>1. \A id \in Ids : st'[id] \in Active => st[id] \in Active
    BY <1>1 DEF Insert, Active, TypeOK
  <2> QED
    BY <1>1, <1>b, <2>1, NotMoreStep DEF Insert
<1>2. CASE Push(a)
  BY <1>2, <1>b, NotMoreRest DEF Push, map
<1>3. CASE Capacity(a)
  BY <1>3, <1>b, NotMoreRest, NotMoreStep DEF Capacity, map
<1>4. CASE Unqueue(a)
  <2>1. f.to = "Starting" => Room(f)
    BY <1>4 DEF Unqueue, At, Room
  <2> QED
    BY <1>4, <1>b, <2>1, NotMoreStep DEF Unqueue, map
<1>5. CASE Intend(a)
  BY <1>5, <1>b, NotMoreStep DEF Intend, map
<1>6. CASE Signal(a)
  BY <1>6, <1>b, NotMoreRest DEF Signal, map
<1>7. CASE Forget(a)
  <2>1. \A id \in Ids : st'[id] \in Active => st[id] \in Active
    BY <1>7 DEF Forget, Active, Absent, TypeOK
  <2> QED
    BY <1>7, <1>b, <2>1, NotMoreStep DEF Forget
<1>8. CASE Erase(a)
  BY <1>8, <1>b, NotMoreRest DEF Erase, map
<1>9. CASE Count(a)
  BY <1>9, <1>b, NotMoreRest, NotMoreStep DEF Count, map
<1>10. CASE Select(a)
  <2>1. HasRoom /\ st' = st
    BY <1>10 DEF Select, At, Room, LimitInv, RoomKept, map
  <2> QED
    BY <1>10, <1>b, <2>1, NotMoreRest, NotMoreGoto DEF Select
<1>11. CASE Take(a)
  <2>1. Room(f)
    BY <1>11 DEF Take, At, Room
  <2> QED
    BY <1>11, <1>b, <2>1, NotMoreStep DEF Take, map
<1>12. CASE Move(a)
  <2> DEFINE d == f.id
  <2>1. d \in Ids /\ f.pc = "move"
    BY <1>0, <1>12 DEF Move, At, Nameless
  <2>2. CASE Goto(a, Continue(a, FALSE)) /\ UNCHANGED st
    BY <1>b, <2>2, ContinueRoom, NotMoreGoto
  <2>3. CASE /\ st' = [st EXCEPT ![d] = f.to] /\ Step(a, "copy")
    <3>1. CASE f.to \notin Active
      <4>1. \A id \in Ids : st'[id] \in Active => st[id] \in Active
        BY <2>1, <2>3, <3>1 DEF TypeOK
      <4> QED
        BY <1>b, <2>3, <4>1, NotMoreStep
    <3>2. CASE f.to \in Active
      <4>1. f.to = "Starting"
        BY <1>0, <2>1, <3>2 DEF Target, Active, Absent
      <4>2. HasRoom
        BY <2>1, <4>1 DEF LimitInv, RoomKept, Room
      <4> DEFINE g == [f EXCEPT !.pc = "copy"]
      <4>3. g.pc = "copy" /\ act' = [act EXCEPT ![a] = g]
        BY <1>0, <2>3 DEF Frames, Step
      <4> HIDE DEF g
      <4>4. /\ OneBusy' /\ act'[a] = g
            /\ \A b \in Actors : b # a => act'[b] = act[b] /\ b \notin Busy
        BY <1>b, <4>3, BusyStep DEF LimitInv
      <4>5. Cardinality(ActiveIds') <= Cardinality(ActiveIds) + 1
        <5>1. ActiveIds' \subseteq ActiveIds \cup {d}
          BY <2>1, <2>3 DEF ActiveIds, TypeOK
        <5>2. /\ IsFiniteSet(ActiveIds \cup {d})
              /\ \/ Cardinality(ActiveIds \cup {d}) = Cardinality(ActiveIds)
                 \/ Cardinality(ActiveIds \cup {d}) = Cardinality(ActiveIds) + 1
          BY ActiveFinite, FS_AddElement
        <5>3. Cardinality(ActiveIds') <= Cardinality(ActiveIds \cup {d})
          BY <5>1, <5>2, FS_Subset
        <5> QED
          BY <5>2, <5>3, ActiveFinite, ActiveFiniteNext
      <4>6. LimitRespected'
        BY <4>2, <4>5, ActiveFinite, ActiveFiniteNext, ConfigAssumption
           DEF HasRoom, LimitRespected
      <4>7. RoomKept'
        BY <4>3, <4>4 DEF RoomKept, Room, Busy
      <4> QED
        BY <4>4, <4>6, <4>7 DEF LimitInv
    <3> QED
      BY <3>1, <3>2
  <2> QED
    BY <1>12, <2>2, <2>3 DEF Move
<1>13. CASE Copy(a)
  <2>1. st' = st /\ f.pc = "copy"
    BY <1>13 DEF Copy, At, map
  <2>2. CASE Goto(a, Continue(a, TRUE))
    BY <1>b, <2>1, <2>2, ContinueRoom, NotMoreGoto
  <2>3. CASE Goto(a, [f EXCEPT !.pc = "store", !.snap = st[f.id]])
    <3> DEFINE g == [f EXCEPT !.pc = "store", !.snap = st[f.id]]
    <3>1. g.pc = "store"
      BY <1>0 DEF Frames
    <3>2. ~Room(g)
      BY <3>1 DEF Room
    <3> QED
      BY <1>b, <2>1, <2>3, <3>2, NotMoreGoto
  <2> QED
    BY <1>13, <2>2, <2>3 DEF Copy
<1>14. CASE Store(a)
  <2>1. st' = st
    BY <1>14 DEF Store, map
  <2>2. CASE Goto(a, Continue(a, TRUE))
    BY <1>b, <2>1, <2>2, ContinueRoom, NotMoreGoto
  <2>3. CASE Goto(a, Continue(a, FALSE))
    BY <1>b, <2>1, <2>3, ContinueRoom, NotMoreGoto
  <2> QED
    BY <1>14, <2>2, <2>3 DEF Store
<1>15. ASSUME NEW r \in Runs, Launch(a, r) PROVE LimitInv'
  <2> DEFINE g == [f EXCEPT !.pc = "attach", !.run = r]
             h == Frame("spawned", "run", f.id, Absent)
  <2>1. /\ r # a /\ r \in Actors /\ st' = st
        /\ act' = [act EXCEPT ![a] = g, ![r] = h]
    BY <1>15 DEF Launch, At, NextFree, Free, Actors
  <2>2. g.pc = "attach" /\ h.pc = "spawned"
    BY <1>0 DEF Frame, Frames
  <2> HIDE DEF g, h
  <2>3. /\ act'[a] = g /\ act'[r] = h
        /\ \A b \in Actors : b # a /\ b # r => act'[b] = act[b] /\ b \notin Busy
    BY <1>b, <2>1 DEF TypeOK, LimitInv, OneBusy
  <2>4. \A b \in Busy' : b = a
    BY <2>2, <2>3 DEF Busy
  <2>5. \A b \in Actors : ~Room(act'[b])
    BY <2>2, <2>3 DEF Room, Busy
  <2> QED
    BY <2>1, <2>4, <2>5 DEF LimitInv, OneBusy, RoomKept, LimitRespected, ActiveIds
<1>16. CASE Attach(a)
  BY <1>16, <1>b, NotMoreRest DEF Attach
<1> QED
  BY <1>1, <1>2, <1>3, <1>4, <1>5, <1>6, <1>7, <1>8, <1>9, <1>10, <1>11, <1>12,
     <1>13, <1>14, <1>15, <1>16 DEF Segment

\* Every step of a task keeps the invariant.
LEMMA TaskLimit ==
  ASSUME Workers = 1, TypeOK, LimitInv, NEW r \in Runs, Task(r)
  PROVE  LimitInv'
<1> r \in Actors
  BY DEF Actors
<1> DEFINE f == act[r]
<1>t. ~Room(Transfer(f.id))
  BY DEF Transfer, Frame, Room
<1>m. ASSUME NEW op, NEW to, to # "Starting" PROVE ~Room(Frame("move", op, f.id, to))
  BY <1>m DEF Frame, Room
<1>1. CASE RunBegin(r)
  <2>1. Busy = {} /\ st' = st
    BY <1>1, RunsAlone DEF RunBegin, Resumes, map
  <2>2. CASE Goto(r, Transfer(f.id))
    BY <1>t, <2>1, <2>2, NotMoreGoto
  <2>3. CASE Goto(r, Frame("move", "orphan", f.id, "Failed"))
    BY <1>m, <2>1, <2>3, NotMoreGoto
  <2>4. CASE Goto(r, Rest(r))
    BY <2>1, <2>4, NotMoreRest
  <2> QED
    BY <1>1, <2>2, <2>3, <2>4 DEF RunBegin
<1>2. CASE Progress(r)
  <2> DEFINE g == [Frame("report", "run", f.id,
                         IF st[f.id] = "Starting" THEN "Downloading" ELSE Absent)
                     EXCEPT !.snap = st'[f.id]]
  <2>1. Busy = {} /\ act' = [act EXCEPT ![r] = g]
    BY <1>2, RunsAlone DEF Progress, Resumes, Goto
  <2>2. \A id \in Ids : st'[id] \in Active => st[id] \in Active
    BY <1>2 DEF Progress, TypeOK, Active
  <2>3. ~Room(g)
    BY DEF Frame, Room
  <2> HIDE DEF g
  <2> QED
    BY <2>1, <2>2, <2>3, NotMore
<1>3. CASE Report(r)
  BY <1>3, <1>t, NotMoreGoto DEF Report, At, Busy, map
<1>4. CASE FinishOk(r)
  BY <1>4, <1>m, RunsAlone, NotMoreGoto DEF FinishOk, Resumes, map
<1>5. CASE FinishErr(r)
  <2>1. PICK to \in {"Failed", "Paused", "Cancelled"} :
           Goto(r, Frame("move", "end", f.id, to))
    BY <1>5 DEF FinishErr, Stopped
  <2> QED
    BY <1>5, <1>m, <2>1, RunsAlone, NotMoreGoto DEF FinishErr, Resumes, map
<1>6. CASE Abort(r)
  <2>1. /\ act' = [act EXCEPT ![r] = Rest(r)] /\ st' = st
    BY <1>6 DEF Abort, Goto, map
  <2>2. Rest(r).pc \in {"idle", "done"}
    BY DEF Rest, Frame
  <2>3. \A b \in Actors : b = r \/ act'[b] = act[b]
    BY <2>1 DEF TypeOK
  <2>4. Busy' \subseteq Busy
    BY <2>1, <2>2, <2>3 DEF Busy, TypeOK
  <2>5. \A b \in Actors : Room(act'[b]) => Room(act[b])
    BY <2>1, <2>2, <2>3 DEF Room, TypeOK
  <2> QED
    BY <2>1, <2>4, <2>5
       DEF LimitInv, OneBusy, RoomKept, HasRoom, LimitRespected, ActiveIds
<1> QED
  BY <1>1, <1>2, <1>3, <1>4, <1>5, <1>6 DEF Task

\* A restart leaves no download active.
LEMMA ReopenLimit ==
  ASSUME Reopen
  PROVE  LimitInv'
<1>1. \A a \in Actors : act'[a].pc \in {"idle", "done"}
  BY DEF Reopen, Rest, Frame
<1>2. ActiveIds' = {}
  BY ConfigAssumption DEF Reopen, Recovered, ActiveIds, Active
<1>3. Cardinality(ActiveIds') = 0
  BY <1>2, FS_EmptySet
<1> QED
  BY <1>1, <1>3, ConfigAssumption
     DEF LimitInv, OneBusy, Busy, RoomKept, Room, LimitRespected

\* LimitInv is inductive.
LEMMA NextLimit ==
  ASSUME Workers = 1
  PROVE  TypeOK /\ SlotInv /\ LimitInv /\ [Next]_vars => LimitInv'
<1> SUFFICES ASSUME TypeOK, SlotInv, LimitInv, [Next]_vars PROVE LimitInv'
  OBVIOUS
<1>1. CASE Next
  BY <1>1, CallLimit, SegmentLimit, TaskLimit, ReopenLimit DEF Next
<1>2. CASE UNCHANGED vars
  BY <1>2 DEF vars, LimitInv, OneBusy, Busy, RoomKept, HasRoom, LimitRespected, ActiveIds
<1> QED
  BY <1>1, <1>2

\* On one thread the downloads in a slot never outnumber the limit, whatever
\* is called, crashes or fails to be written in between.
THEOREM LimitHolds ==
  ASSUME Workers = 1
  PROVE  Spec => []LimitRespected
<1>1. Init => TypeOK /\ SlotInv /\ LimitInv
  BY InitType, InitSlot, InitLimit
<1>2. TypeOK /\ SlotInv /\ LimitInv /\ [Next]_vars => (TypeOK /\ SlotInv /\ LimitInv)'
  BY NextType, NextSlot, NextLimit
<1>3. LimitInv => LimitRespected
  BY DEF LimitInv
<1> QED
  BY <1>1, <1>2, <1>3, PTL DEF Spec

(***************************************************************************)
(* A pause is not taken for a cancellation.  The transfer only learns that *)
(* it was signalled; whether it was paused is decided by the intents when  *)
(* it ends.  So a signal of a pause must find its intent still there.      *)
(***************************************************************************)

\* Only a task that may still look at it has a permit; the Notify in the map
\* of a task that is not over is the one of that download's task; a permit a
\* pause gave comes with the intent, and so does one it is about to give.
Heard == \A r \in Runs : permit[r] # {} => Listening(r)
Owned == \A id \in Ids, r \in Runs : cancel[id] = r /\ Listening(r) => act[r].id = id
Meant == \A r \in Runs : "pause" \in permit[r] => act[r].id \in intents
Meaning(f) == f.pc = "signal" /\ f.op = "pause" => f.id \in intents
PauseInv == Heard /\ Owned /\ Meant /\ \A a \in Actors : Meaning(act[a])

\* An actor moves on, and if it is a task that listens it keeps its download.
LEMMA PauseStep ==
  ASSUME TypeOK, PauseInv, NEW a \in Actors, NEW g, act' = [act EXCEPT ![a] = g],
         a \in Runs /\ g.pc \in {"spawned", "transfer", "report"} =>
            Listening(a) /\ g.id = act[a].id,
         a \in Runs /\ Listening(a) =>
            g.pc \in {"spawned", "transfer", "report"} \/ permit'[a] = {},
         \A r \in Runs : permit'[r] = permit[r] \/ permit'[r] = {},
         \A id \in Ids : cancel'[id] = cancel[id] \/ cancel'[id] = NoRun,
         intents \subseteq intents',
         g.pc = "signal" /\ g.op = "pause" => g.id \in intents'
  PROVE  PauseInv'
<1>1. act'[a] = g /\ \A b \in Actors : b # a => act'[b] = act[b]
  BY DEF TypeOK
<1>2. \A r \in Runs : Listening(r)' => Listening(r) /\ act'[r].id = act[r].id
  BY <1>1 DEF Listening, Actors
<1>3. \A r \in Runs : permit'[r] # {} => Listening(r)'
  BY <1>1 DEF PauseInv, Heard, Listening, Actors
<1>4. Heard'
  BY <1>3 DEF Heard
<1>5. Owned'
  BY <1>2, ActorsAssumption DEF PauseInv, Owned
<1>6. Meant'
  BY <1>2, <1>3 DEF PauseInv, Meant
<1>7. \A b \in Actors : Meaning(act[b])'
  BY <1>1 DEF PauseInv, Meaning
<1> QED
  BY <1>4, <1>5, <1>6, <1>7 DEF PauseInv

\* The same for an actor that is no listening task before or after.
LEMMA PauseGoto ==
  ASSUME TypeOK, PauseInv, NEW a \in Actors, NEW g, Goto(a, g),
         act[a].pc \notin {"spawned", "transfer", "report"},
         g.pc \notin {"spawned", "transfer", "report"},
         permit' = permit, intents \subseteq intents',
         \A id \in Ids : cancel'[id] = cancel[id] \/ cancel'[id] = NoRun,
         g.pc = "signal" /\ g.op = "pause" => g.id \in intents'
  PROVE  PauseInv'
<1>1. act' = [act EXCEPT ![a] = g] /\ \A r \in Runs : permit'[r] = permit[r]
  BY DEF Goto
<1>2. ~Listening(a)
  BY DEF Listening
<1> QED
  BY <1>1, <1>2, PauseStep

LEMMA PauseCounter ==
  ASSUME TypeOK, PauseInv, NEW a \in Actors, NEW pc, Step(a, pc),
         act[a].pc \notin {"spawned", "transfer", "report"},
         pc \notin {"spawned", "transfer", "report"},
         permit' = permit, intents \subseteq intents',
         \A id \in Ids : cancel'[id] = cancel[id] \/ cancel'[id] = NoRun,
         pc = "signal" => act[a].id \in intents'
  PROVE  PauseInv'
<1> DEFINE g == [act[a] EXCEPT !.pc = pc]
<1>1. g.pc = pc /\ g.id = act[a].id /\ Goto(a, g)
  BY DEF TypeOK, Frames, Step, Goto
<1> HIDE DEF g
<1> QED
  BY <1>1, PauseGoto

\* The program counter of what follows a transition.
LEMMA ContinuePc ==
  ASSUME TypeOK, NEW a \in Actors, NEW ok \in BOOLEAN
  PROVE  Continue(a, ok).pc \in {"launch", "push", "count", "idle", "done"}
<1>1. [act[a] EXCEPT !.pc = "launch", !.snap = Absent].pc = "launch"
  BY DEF TypeOK, Frames
<1>2. /\ Frame("push", "requeue", act[a].id, Absent).pc = "push"
      /\ Loop.pc = "count" /\ Rest(a).pc \in {"idle", "done"}
  BY DEF Frame, Loop, Rest
<1> QED
  BY <1>1, <1>2 DEF Continue

\* The frames of an actor at rest.
LEMMA RestPc ==
  Loop.pc = "count" /\ \A a : Rest(a).pc \in {"idle", "done"}
BY DEF Frame, Loop, Rest

\* Every API call keeps the invariant.  remove() signals too, but not as a pause.
LEMMA CallPauseInv ==
  ASSUME TypeOK, PauseInv, NEW c \in Callers, Call(c)
  PROVE  PauseInv'
<1> c \in Actors /\ c \notin Runs
  BY ActorsAssumption DEF Actors
<1>f. ASSUME NEW pc, NEW op, NEW id, NEW to, Goto(c, Frame(pc, op, id, to)), At(c, "idle"),
             pc \in {"insert", "capacity", "intend", "move", "signal", "unqueue"},
             op # "pause" \/ pc # "signal",
             permit' = permit, intents' = intents, cancel' = cancel
      PROVE  PauseInv'
  <2>1. Frame(pc, op, id, to).pc = pc /\ Frame(pc, op, id, to).op = op
    BY DEF Frame
  <2> QED
    BY <1>f, <2>1, PauseGoto DEF At
<1> USE DEF map, signals
<1>1. ASSUME NEW id \in Ids, CallEnqueue(c, id) PROVE PauseInv'
  BY <1>1, <1>f DEF CallEnqueue, Calls
<1>2. ASSUME NEW id \in Ids, CallStart(c, id) PROVE PauseInv'
  BY <1>2, <1>f DEF CallStart, Reads, Calls
<1>3. ASSUME NEW id \in Ids, CallPause(c, id) PROVE PauseInv'
  BY <1>3, <1>f DEF CallPause, Reads, Calls
<1>4. ASSUME NEW id \in Ids, CallResume(c, id) \/ CallRetry(c, id) PROVE PauseInv'
  BY <1>4, <1>f DEF CallResume, CallRetry, Reads, Calls
<1>5. ASSUME NEW id \in Ids, CallCancelActive(c, id) PROVE PauseInv'
  BY <1>5, <1>f DEF CallCancelActive, Reads, Calls
<1>6. ASSUME NEW id \in Ids, CallCancelWaiting(c, id) PROVE PauseInv'
  BY <1>6, <1>f DEF CallCancelWaiting, Reads, Calls
<1>7. ASSUME NEW id \in Ids, CallRemove(c, id) PROVE PauseInv'
  <2> DEFINE g == Frame("unqueue", "remove", id, Absent)
  <2>1. act' = [act EXCEPT ![c] = g] /\ intents' = intents /\ cancel' = cancel
    BY <1>7 DEF CallRemove, Goto
  <2>2. g.pc = "unqueue"
    BY DEF Frame
  <2> HIDE DEF g
  <2>3. act'[c] = g /\ \A b \in Actors : b # c => act'[b] = act[b]
    BY <2>1 DEF TypeOK
  <2>4. \A r \in Runs : /\ act'[r] = act[r]
                        /\ permit'[r] = permit[r] \/ Listening(r)
                        /\ "pause" \in permit'[r] => "pause" \in permit[r]
    BY <1>7, <2>3 DEF CallRemove, Notify, Actors
  <2> QED
    BY <2>1, <2>2, <2>3, <2>4 DEF PauseInv, Heard, Owned, Meant, Meaning, Listening
<1>8. CASE CallShutdown(c)
  <2>1. UNCHANGED <<act, permit, cancel, intents>>
    BY <1>8 DEF CallShutdown
  <2> QED
    BY <2>1 DEF PauseInv, Heard, Owned, Meant, Meaning, Listening
<1> QED
  BY <1>1, <1>2, <1>3, <1>4, <1>5, <1>6, <1>7, <1>8 DEF Call

\* Every segment keeps the invariant.
LEMMA SegmentPause ==
  ASSUME TypeOK, PauseInv, NEW a \in Actors, Segment(a)
  PROVE  PauseInv'
<1> DEFINE f == act[a]
<1>0. f \in Frames /\ (f.pc \notin Nameless => f.id \in Ids)
  BY FrameParts DEF TypeOK
<1> USE RestPc DEF map, signals
<1>1. CASE Insert(a)
  <2>1. \A id \in Ids : cancel'[id] = cancel[id] \/ cancel'[id] = NoRun
    BY <1>1 DEF Insert, TypeOK
  <2> QED
    BY <1>1, <2>1, PauseCounter DEF Insert, At
<1>2. CASE Push(a)
  BY <1>2, PauseGoto DEF Push, At
<1>3. CASE Capacity(a)
  BY <1>3, PauseGoto, PauseCounter DEF Capacity, At
<1>4. CASE Unqueue(a)
  BY <1>4, PauseCounter DEF Unqueue, At
<1>5. CASE Intend(a)
  BY <1>5, PauseCounter DEF Intend, At
<1>6. CASE Signal(a)
  <2>1. /\ act' = [act EXCEPT ![a] = Rest(a)] /\ f.pc = "signal"
        /\ intents' = intents /\ cancel' = cancel
    BY <1>6 DEF Signal, At, Goto
  <2>2. act'[a] = Rest(a) /\ \A b \in Actors : b # a => act'[b] = act[b]
    BY <2>1 DEF TypeOK
  <2>3. \A r \in Runs : Listening(r) <=> Listening(r)'
    BY <2>1, <2>2 DEF Listening, Actors
  <2>4. \A r \in Runs : Listening(r) => act'[r] = act[r]
    BY <2>1, <2>2 DEF Listening, Actors
  <2>5. \A r \in Runs :
          \/ permit'[r] = permit[r]
          \/ /\ Listening(r) /\ cancel[f.id] = r
             /\ "pause" \in permit'[r] => "pause" \in permit[r] \/ f.op = "pause"
    BY <1>6 DEF Signal, Notify
  <2>6. Heard' /\ Owned'
    BY <2>1, <2>3, <2>4, <2>5 DEF PauseInv, Heard, Owned
  <2>7. Meant'
    <3> SUFFICES ASSUME NEW r \in Runs, "pause" \in permit'[r] PROVE act'[r].id \in intents
      BY <2>1 DEF Meant
    <3>1. Listening(r)
      BY <2>5 DEF PauseInv, Heard
    <3>2. CASE "pause" \in permit[r]
      BY <2>4, <3>1, <3>2 DEF PauseInv, Meant
    <3>3. CASE cancel[f.id] = r /\ f.op = "pause"
      <4>1. f.id \in Ids
        BY <1>0, <2>1 DEF Nameless
      <4>2. act[r].id = f.id /\ f.id \in intents
        BY <2>1, <3>1, <3>3, <4>1 DEF PauseInv, Owned, Meaning
      <4> QED
        BY <2>4, <3>1, <4>2
    <3> QED
      BY <2>5, <3>2, <3>3
  <2>8. \A b \in Actors : Meaning(act[b])'
    BY <2>1, <2>2 DEF PauseInv, Meaning
  <2> QED
    BY <2>6, <2>7, <2>8 DEF PauseInv
<1>7. CASE Forget(a)
  <2>1. \A id \in Ids : cancel'[id] = cancel[id] \/ cancel'[id] = NoRun
    BY <1>7 DEF Forget, TypeOK
  <2> QED
    BY <1>7, <2>1, PauseCounter DEF Forget, At
<1>8. CASE Erase(a)
  BY <1>8, PauseGoto DEF Erase, At
<1>9. CASE Count(a)
  BY <1>9, PauseGoto, PauseCounter DEF Count, At
<1>10. CASE Select(a)
  <2>1. \A id \in Ids : Frame("take", "loop", id, "Starting").pc = "take"
    BY DEF Frame
  <2> QED
    BY <1>10, <2>1, PauseGoto DEF Select, At
<1>11. CASE Take(a)
  BY <1>11, PauseCounter DEF Take, At
<1>12. CASE Move(a)
  <2>1. CASE Step(a, "copy")
    BY <1>12, <2>1, PauseCounter DEF Move, At
  <2>2. CASE Goto(a, Continue(a, FALSE))
    BY <1>12, <2>2, ContinuePc, PauseGoto DEF Move, At
  <2> QED
    BY <1>12, <2>1, <2>2 DEF Move
<1>13. CASE Copy(a)
  <2>1. CASE Goto(a, Continue(a, TRUE))
    BY <1>13, <2>1, ContinuePc, PauseGoto DEF Copy, At
  <2>2. CASE Goto(a, [f EXCEPT !.pc = "store", !.snap = st[f.id]])
    <3>1. [f EXCEPT !.pc = "store", !.snap = st[f.id]].pc = "store"
      BY <1>0 DEF Frames
    <3> QED
      BY <1>13, <2>2, <3>1, PauseGoto DEF Copy, At
  <2> QED
    BY <1>13, <2>1, <2>2 DEF Copy
<1>14. CASE Store(a)
  <2>1. CASE Goto(a, Continue(a, TRUE))
    BY <1>14, <2>1, ContinuePc, PauseGoto DEF Store, At
  <2>2. CASE Goto(a, Continue(a, FALSE))
    BY <1>14, <2>2, ContinuePc, PauseGoto DEF Store, At
  <2> QED
    BY <1>14, <2>1, <2>2 DEF Store
<1>15. ASSUME NEW r \in Runs, Launch(a, r) PROVE PauseInv'
  <2> DEFINE g == [f EXCEPT !.pc = "attach", !.run = r]
             h == Frame("spawned", "run", f.id, Absent)
  <2>1. /\ r # a /\ r \in Actors /\ act[r].pc = "done" /\ f.pc = "launch"
        /\ \A id \in Ids : cancel[id] # r
        /\ act' = [act EXCEPT ![a] = g, ![r] = h]
        /\ permit' = permit /\ intents' = intents
    BY <1>15 DEF Launch, At, NextFree, Free, Actors
  <2>2. g.pc = "attach" /\ h.pc = "spawned" /\ h.id = f.id
    BY <1>0 DEF Frame, Frames
  <2> HIDE DEF g, h
  <2>3. /\ act'[a] = g /\ act'[r] = h
        /\ \A b \in Actors : b # a /\ b # r => act'[b] = act[b]
    BY <2>1 DEF TypeOK
  <2>4. \A q \in Runs : Listening(q) => q # a /\ q # r /\ act'[q] = act[q]
    BY <2>1, <2>3 DEF Listening, Actors
  <2>5. \A q \in Runs : Listening(q)' => Listening(q) \/ q = r
    BY <2>1, <2>2, <2>3 DEF Listening, Actors
  <2>6. \A id \in Ids : cancel'[id] = cancel[id] \/ (id = f.id /\ cancel'[id] = r)
    BY <1>15 DEF Launch, TypeOK
  <2>a. \A q \in Runs : permit[q] # {} => Listening(q)' /\ act'[q] = act[q]
    BY <2>4 DEF PauseInv, Heard, Listening
  <2>b. permit' = permit /\ intents' = intents
    BY <2>1
  <2>7. Heard' /\ Meant'
    BY <2>a, <2>b DEF PauseInv, Heard, Meant
  <2>8. Owned'
    <3> SUFFICES ASSUME NEW id \in Ids, NEW q \in Runs, cancel'[id] = q, Listening(q)'
                 PROVE  act'[q].id = id
      BY DEF Owned
    <3>1. CASE q = r
      BY <2>1, <2>2, <2>3, <2>6, <3>1
    <3>2. CASE q # r
      BY <2>4, <2>5, <2>6, <3>2 DEF PauseInv, Owned
    <3> QED
      BY <3>1, <3>2
  <2>9. ASSUME NEW b \in Actors PROVE Meaning(act[b])'
    <3>1. CASE b = a \/ b = r
      BY <2>2, <2>3, <3>1 DEF Meaning
    <3>2. CASE b # a /\ b # r
      <4>1. act'[b] = act[b] /\ Meaning(act[b])
        BY <2>3, <3>2 DEF PauseInv
      <4> QED
        BY <2>b, <4>1 DEF Meaning
    <3> QED
      BY <3>1, <3>2
  <2> QED
    BY <2>7, <2>8, <2>9 DEF PauseInv
<1>16. CASE Attach(a)
  BY <1>16, PauseGoto DEF Attach, At
<1> QED
  BY <1>1, <1>2, <1>3, <1>4, <1>5, <1>6, <1>7, <1>8, <1>9, <1>10, <1>11, <1>12,
     <1>13, <1>14, <1>15, <1>16 DEF Segment

\* Every step of a task keeps the invariant.  Only a transfer that fails takes
\* its intent out; nobody is about to signal it then, and no other task has its
\* download.
LEMMA TaskPause ==
  ASSUME Workers = 1, TypeOK, SlotInv, PauseInv, NEW r \in Runs, Task(r)
  PROVE  PauseInv'
<1> r \in Actors
  BY DEF Actors
<1> DEFINE f == act[r]
<1>0. f \in Frames /\ (f.pc \notin Nameless => f.id \in Ids)
  BY FrameParts DEF TypeOK
<1> USE RestPc DEF map, signals
<1>t. Transfer(f.id).pc = "transfer" /\ Transfer(f.id).id = f.id
  BY DEF Transfer, Frame
<1>m. \A op, id, to : Frame("move", op, id, to).pc = "move"
  BY DEF Frame
<1>c. ASSUME permit' = [permit EXCEPT ![r] = {}]
      PROVE  permit'[r] = {} /\ \A q \in Runs : permit'[q] = permit[q] \/ permit'[q] = {}
  BY <1>c DEF TypeOK
<1>1. CASE RunBegin(r)
  <2>1. Listening(r) /\ intents' = intents /\ cancel' = cancel
    BY <1>1 DEF RunBegin, Resumes, At, Listening
  <2>2. CASE Goto(r, Transfer(f.id)) /\ UNCHANGED permit
    BY <1>t, <2>1, <2>2, PauseStep DEF Goto
  <2>3. CASE permit' = [permit EXCEPT ![r] = {}]
             /\ Goto(r, Frame("move", "orphan", f.id, "Failed"))
    BY <1>c, <1>m, <2>1, <2>3, PauseStep DEF Goto
  <2>4. CASE permit' = [permit EXCEPT ![r] = {}] /\ Goto(r, Rest(r))
    BY <1>c, <2>1, <2>4, PauseStep DEF Goto
  <2> QED
    BY <1>1, <2>2, <2>3, <2>4 DEF RunBegin
<1>2. CASE Progress(r)
  <2> DEFINE g == [Frame("report", "run", f.id,
                         IF st[f.id] = "Starting" THEN "Downloading" ELSE Absent)
                     EXCEPT !.snap = st'[f.id]]
  <2>1. /\ Listening(r) /\ intents' = intents /\ cancel' = cancel /\ permit' = permit
        /\ act' = [act EXCEPT ![r] = g]
    BY <1>2 DEF Progress, Resumes, At, Listening, Goto
  <2>2. g.pc = "report" /\ g.id = f.id
    BY DEF Frame
  <2> HIDE DEF g
  <2> QED
    BY <2>1, <2>2, PauseStep
<1>3. CASE Report(r)
  <2>1. Listening(r)
    BY <1>3 DEF Report, At, Listening
  <2> QED
    BY <1>3, <1>t, <2>1, PauseStep DEF Report, Goto
<1>4. CASE FinishOk(r)
  BY <1>4, <1>c, <1>m, PauseStep DEF FinishOk, Goto
<1>5. CASE FinishErr(r)
  <2>1. PICK g : act' = [act EXCEPT ![r] = g] /\ g.pc = "move"
    BY <1>5, <1>m DEF FinishErr, Goto
  <2>2. /\ Busy = {} /\ f.pc = "transfer" /\ f.id \in Ids
        /\ permit' = [permit EXCEPT ![r] = {}]
        /\ intents' = intents \ {f.id} /\ cancel' = cancel
    BY <1>0, <1>5, RunsAlone DEF FinishErr, Resumes, At, Consumed, Nameless
  <2>3. act'[r] = g /\ \A b \in Actors : b # r => act'[b] = act[b]
    BY <2>1 DEF TypeOK
  <2>4. \A q \in Runs : Listening(q)' => Listening(q) /\ q # r /\ act'[q] = act[q]
    BY <2>1, <2>3 DEF Listening, Actors
  <2>5. \A q \in Runs : permit'[q] # {} =>
          /\ permit'[q] = permit[q] /\ q # r
          /\ Listening(q)' /\ act'[q] = act[q]
    BY <2>2, <2>3 DEF TypeOK, PauseInv, Heard, Listening, Actors
  <2>6. \A q \in Runs : permit'[q] # {} => act[q].id # f.id
    <3> SUFFICES ASSUME NEW q \in Runs, permit'[q] # {}, act[q].id = f.id PROVE FALSE
      OBVIOUS
    <3>1. Holds(q, f.id) /\ Holds(r, f.id) /\ q # r /\ q \in Actors
      BY <2>2, <2>5 DEF Holds, Holding, Listening, Actors
    <3> QED
      BY <2>2, <3>1 DEF SlotInv, OneHolder
  <2>7. Heard' /\ Owned'
    BY <2>2, <2>4, <2>5 DEF PauseInv, Heard, Owned
  <2>8. Meant'
    BY <2>2, <2>5, <2>6 DEF PauseInv, Meant
  <2>9. \A b \in Actors : Meaning(act[b])'
    BY <2>1, <2>2, <2>3 DEF Meaning, Busy
  <2> QED
    BY <2>7, <2>8, <2>9 DEF PauseInv
<1>6. CASE Abort(r)
  BY <1>6, <1>c, PauseStep DEF Abort, Goto
<1> QED
  BY <1>1, <1>2, <1>3, <1>4, <1>5, <1>6 DEF Task

\* PauseInv holds at first and after a restart, when nobody has been signalled.
LEMMA InitPause == Init => PauseInv
<1> SUFFICES ASSUME Init PROVE PauseInv
  OBVIOUS
<1>1. \A a \in Actors : act[a].pc \in {"idle", "done"}
  BY RestPc DEF Init
<1> QED
  BY <1>1, ActorsAssumption DEF Init, PauseInv, Heard, Owned, Meant, Meaning

LEMMA ReopenPause == ASSUME Reopen PROVE PauseInv'
<1>1. \A a \in Actors : act'[a].pc \in {"idle", "done"}
  BY RestPc DEF Reopen
<1> QED
  BY <1>1, ActorsAssumption DEF Reopen, PauseInv, Heard, Owned, Meant, Meaning

\* PauseInv is inductive.
LEMMA NextPause ==
  ASSUME Workers = 1
  PROVE  TypeOK /\ SlotInv /\ PauseInv /\ [Next]_vars => PauseInv'
<1> SUFFICES ASSUME TypeOK, SlotInv, PauseInv, [Next]_vars PROVE PauseInv'
  OBVIOUS
<1>1. CASE Next
  BY <1>1, CallPauseInv, SegmentPause, TaskPause, ReopenPause DEF Next
<1>2. CASE UNCHANGED vars
  BY <1>2 DEF vars, PauseInv, Heard, Owned, Meant, Meaning, Listening
<1> QED
  BY <1>1, <1>2

\* A step that settles a transfer as Cancelled is the end of a transfer that
\* somebody else than a pause has signalled.
LEMMA SettlesMeant ==
  ASSUME TypeOK, PauseInv, Next, NEW r \in Runs, SettlesAs(r, "Cancelled")
  PROVE  permit[r] # {"pause"}
<1>1. r \in Actors /\ act[r].pc = "transfer" /\ act'[r].pc = "move" /\ act'[r].to = "Cancelled"
  BY DEF SettlesAs, Actors
<1>2. ASSUME NEW b \in Actors, b # r, NEW g, Goto(b, g) PROVE FALSE
  BY <1>1, <1>2 DEF Goto, TypeOK
<1>3. ASSUME NEW b \in Actors, b # r, NEW pc, Step(b, pc) PROVE FALSE
  BY <1>1, <1>3 DEF Step, TypeOK
<1>4. ASSUME NEW c \in Callers, Call(c) PROVE FALSE
  <2>1. c # r /\ c \in Actors
    BY ActorsAssumption DEF Actors
  <2> QED
    BY <1>1, <1>2, <1>4, <2>1 DEF Call, CallEnqueue, CallStart, CallPause, CallResume,
       CallRetry, CallCancelActive, CallCancelWaiting, CallRemove, CallShutdown, Reads
<1>5. ASSUME NEW a \in Actors, Segment(a) PROVE FALSE
  <2>1. CASE \E q \in Runs : Launch(a, q)
    <3>1. PICK q \in Runs : Launch(a, q)
      BY <2>1
    <3>2. act[a].pc = "launch" /\ act[q].pc = "done"
      BY <3>1 DEF Launch, At, NextFree, Free
    <3>3. act'[r] = act[r]
      BY <1>1, <3>1, <3>2 DEF Launch, TypeOK
    <3> QED
      BY <1>1, <3>3
  <2>2. CASE ~(\E q \in Runs : Launch(a, q))
    <3>1. a # r
      BY <1>1, <1>5, <2>2 DEF Segment, Insert, Push, Capacity, Unqueue, Intend, Signal,
         Forget, Erase, Count, Select, Take, Move, Copy, Store, Attach, At
    <3> QED
      BY <1>2, <1>3, <1>5, <2>2, <3>1 DEF Segment, Insert, Push, Capacity, Unqueue, Intend,
         Signal, Forget, Erase, Count, Select, Take, Move, Copy, Store, Attach
  <2> QED
    BY <2>1, <2>2
<1>6. ASSUME NEW q \in Runs, Task(q) PROVE permit[r] # {"pause"}
  <2>1. CASE q # r
    <3>1. q \in Actors
      BY DEF Actors
    <3> QED
      BY <1>2, <1>6, <2>1, <3>1
         DEF Task, RunBegin, Progress, Report, FinishOk, FinishErr, Abort
  <2>2. CASE q = r
    <3>1. ASSUME NEW g, Goto(r, g) PROVE act'[r] = g
      BY <1>1, <3>1 DEF Goto, TypeOK
    <3>2. \A op, id, to : Frame("move", op, id, to).to = to
      BY DEF Frame
    <3>3. Transfer(act[r].id).pc = "transfer" /\ Rest(r).pc \in {"idle", "done"}
      BY RestPc DEF Transfer, Frame
    <3>4. ~RunBegin(r) /\ ~Report(r)
      BY <1>1 DEF RunBegin, Report, Resumes, At
    <3>5. ~Progress(r)
      <4>1. SUFFICES ASSUME Progress(r) PROVE FALSE
        OBVIOUS
      <4>2. act'[r].pc = "report"
        BY <1>1, <4>1 DEF Progress, Goto, TypeOK, Frame
      <4> QED
        BY <1>1, <4>2
    <3>6. ~FinishOk(r)
      BY <1>1, <3>1, <3>2 DEF FinishOk
    <3>7. ~Abort(r)
      BY <1>1, <3>1, <3>3 DEF Abort
    <3>8. FinishErr(r)
      BY <1>6, <2>2, <3>4, <3>5, <3>6, <3>7 DEF Task
    <3>9. act'[r].to = Stopped(r)
      BY <1>1, <3>1, <3>2, <3>8 DEF FinishErr
    <3>10. act[r].id \notin intents
      BY <1>1, <3>9 DEF Stopped
    <3> QED
      BY <3>10 DEF PauseInv, Meant
  <2> QED
    BY <2>1, <2>2
<1>7. CASE Reopen
  <2>1. act'[r] = Rest(r)
    BY <1>1, <1>7 DEF Reopen
  <2> QED
    BY <1>1, <2>1, RestPc
<1> QED
  BY <1>4, <1>5, <1>6, <1>7 DEF Next

\* On one thread a transfer that was only ever paused never ends up Cancelled,
\* which could not be resumed, whatever is called around it.
THEOREM PauseKept ==
  ASSUME Workers = 1
  PROVE  Spec => PauseNeverCancels
<1>1. Init => TypeOK /\ SlotInv /\ PauseInv
  BY InitType, InitSlot, InitPause
<1>2. TypeOK /\ SlotInv /\ PauseInv /\ [Next]_vars => (TypeOK /\ SlotInv /\ PauseInv)'
  BY NextType, NextSlot, NextPause
<1>3. TypeOK /\ SlotInv /\ PauseInv /\ [Next]_vars =>
        [\A r \in Runs : SettlesAs(r, "Cancelled") => permit[r] # {"pause"}]_vars
  BY SettlesMeant
<1> QED
  BY <1>1, <1>2, <1>3, PTL DEF Spec, PauseNeverCancels


(***************************************************************************)
(* Rows and events.  The state, its row and its event change in different  *)
(* steps; on one thread nobody else runs in between, so the row and the    *)
(* event settle on the state before anybody looks.                         *)
(***************************************************************************)

\* What is known of a download at rest.  No event says again after a restart
\* what the row says.
Spoken(id) == told[id] = st[id] \/ (Restarts /\ told[id] = Absent)
Agrees(id) == db[id] = st[id] /\ (st[id] # Absent => Spoken(id))

\* An actor that has still to write the row or to publish the event.
Owes(f, id) ==
  /\ f.id = id
  /\ f.pc \in {"insert", "copy", "store", "report", "erase"} \/ (f.pc = "push" /\ f.op = "enqueue")

\* Where an actor is about to move a download.
Deciding == {"capacity", "unqueue", "take", "move"}

\* What such an actor carries is the state of the download; a cancel without a
\* transfer has found none.
Honest(f) ==
  /\ f.pc = "insert" => f.op = "enqueue" /\ db[f.id] = "Queued"
  /\ f.pc = "push" /\ f.op = "enqueue" => st[f.id] = "Queued" /\ db[f.id] = "Queued"
  /\ f.pc \in {"copy", "store"} => st[f.id] = f.to /\ f.to # Absent
  /\ f.pc = "store" => f.snap = f.to
  /\ f.pc = "report" => /\ st[f.id] # Absent /\ f.snap = st[f.id]
                        /\ IF f.to = Absent THEN Spoken(f.id) ELSE st[f.id] = f.to
  /\ f.pc = "erase" => st[f.id] = Absent
  /\ f.pc \in Deciding /\ f.to = "Cancelled" /\ f.op \notin {"end", "orphan"}
       => st[f.id] \notin Active

\* A slot that is held has not been cancelled from outside.
HeldActive ==
  \A a \in Actors, id \in Ids : Holds(a, id) => st[id] \in Active \cup {Absent}
Told == \A id \in Ids : Agrees(id) \/ \E a \in Actors : Owes(act[a], id)
RecordInv == OneBusy /\ HeldActive /\ Told /\ \A a \in Actors : Honest(act[a])

\* When nobody is busy every row and event agrees.
LEMMA NobodyOwes ==
  ASSUME TypeOK, RecordInv, Busy = {}
  PROVE  \A id \in Ids : Agrees(id)
BY DEF RecordInv, Told, Owes, Busy

\* Nor does anybody but the busy actor owe anything.
LEMMA OnlyBusyOwes ==
  ASSUME TypeOK, RecordInv, NEW a \in Busy, NEW id \in Ids, ~Owes(act[a], id)
  PROVE  Agrees(id)
BY DEF RecordInv, OneBusy, Told, Owes, Busy

\* An actor changes what is recorded of the download d, and nothing else.
LEMMA RecordStep ==
  ASSUME TypeOK, RecordInv, NEW a \in Actors, NEW g, act' = [act EXCEPT ![a] = g],
         a \in Busy \/ Busy = {}, NEW d, a \in Busy => act[a].id = d,
         \A id \in Ids : id # d => st'[id] = st[id] /\ db'[id] = db[id] /\ told'[id] = told[id],
         d \in Ids => (Agrees(d)' \/ Owes(act[a], d)'),
         Honest(act[a])',
         \A id \in Ids : Holding(g, id) => st'[id] \in Active \cup {Absent},
         \A b \in Actors : b # a /\ d \in Ids /\ Holds(b, d) => st'[d] \in Active \cup {Absent}
  PROVE  RecordInv'
<1>1. /\ OneBusy' /\ act'[a] = g
      /\ \A b \in Actors : b # a => act'[b] = act[b] /\ b \notin Busy
  BY BusyStep DEF RecordInv
<1>2. HeldActive'
  BY <1>1 DEF RecordInv, HeldActive, Holds
<1>3. Told'
  <2> SUFFICES ASSUME NEW id \in Ids, id # d PROVE Agrees(id)'
    BY DEF Told
  <2>1. Agrees(id)
    BY <1>1 DEF RecordInv, Told, Owes, Busy
  <2> QED
    BY <2>1 DEF Spoken, Agrees
<1>4. \A b \in Actors : Honest(act[b])'
  BY <1>1 DEF Spoken, Honest, Busy, Deciding
<1> QED
  BY <1>1, <1>2, <1>3, <1>4 DEF RecordInv

\* The program counters at which an actor owes nothing and claims nothing.
Plain == {"idle", "done", "spawned", "transfer", "intend", "signal", "forget",
          "count", "select", "launch", "attach"}

\* An actor that owes nothing moves on to a frame in which it owes nothing.
LEMMA RecordGoto ==
  ASSUME TypeOK, RecordInv, NEW a \in Actors, NEW g, Goto(a, g),
         a \in Busy \/ Busy = {}, UNCHANGED <<st, db, told>>,
         \A id \in Ids : ~Owes(act[a], id),
         \/ g.pc \in Plain \cup Deciding
         \/ g.pc = "push" /\ g.op # "enqueue",
         g.pc \in Deciding =>
            g.to # "Cancelled" \/ g.op \in {"end", "orphan"} \/ st[g.id] \notin Active,
         \A id \in Ids : Holding(g, id) => Holds(a, id)
  PROVE  RecordInv'
<1>d. PICK d : d = act[a].id
  OBVIOUS
<1>1. act' = [act EXCEPT ![a] = g] /\ act'[a] = g
  BY DEF Goto, TypeOK
<1>a. \A id \in Ids : Agrees(id)
  <2>1. CASE Busy = {}
    BY <2>1, NobodyOwes
  <2>2. CASE a \in Busy
    BY <2>2, OnlyBusyOwes
  <2> QED
    BY <2>1, <2>2
<1>2. d \in Ids => Agrees(d)'
  BY <1>a DEF Spoken, Agrees
<1>3. Honest(act[a])'
  BY <1>1 DEF Spoken, Honest, Plain, Deciding
<1>4. \A id \in Ids : st'[id] = st[id] /\ db'[id] = db[id] /\ told'[id] = told[id]
  OBVIOUS
<1>5. \A b \in Actors, id \in Ids : Holds(b, id) => st'[id] \in Active \cup {Absent}
  BY DEF RecordInv, HeldActive
<1>6. a \in Busy => act[a].id = d
  BY <1>d
<1>7. \A id \in Ids : Holding(g, id) => st'[id] \in Active \cup {Absent}
  BY <1>5
<1> QED
  BY <1>1, <1>2, <1>3, <1>4, <1>5, <1>6, <1>7, RecordStep

\* The frames in which an actor has nothing to do with a download.
LEMMA IdleHolds ==
  ASSUME NEW g, g = Loop \/ \E b : g = Rest(b)
  PROVE  g.pc \in {"count", "idle", "done"} /\ \A id : ~Holding(g, id)
BY DEF Loop, Rest, Frame, Holding

LEMMA RecordIdle ==
  ASSUME TypeOK, RecordInv, NEW a \in Actors, NEW g, Goto(a, g),
         g = Loop \/ \E b : g = Rest(b),
         a \in Busy \/ Busy = {}, UNCHANGED <<st, db, told>>,
         \A id \in Ids : ~Owes(act[a], id)
  PROVE  RecordInv'
<1>1. g.pc \in {"count", "idle", "done"} /\ \A id : ~Holding(g, id)
  BY IdleHolds
<1>2. g.pc \in Plain /\ g.pc \notin Deciding
  BY <1>1 DEF Plain, Deciding
<1> QED
  BY <1>1, <1>2, RecordGoto

\* An actor that only moves its program counter on, and holds nothing then.
LEMMA RecordCounter ==
  ASSUME TypeOK, SlotInv, RecordInv, NEW a \in Busy, NEW pc, Step(a, pc),
         UNCHANGED <<st, db, told>>, \A id \in Ids : ~Owes(act[a], id),
         pc \in {"signal", "forget", "select"}
           \/ (pc \in {"unqueue", "move"} /\ act[a].pc \in {"capacity", "unqueue", "take"})
  PROVE  RecordInv'
<1> DEFINE g == [act[a] EXCEPT !.pc = pc]
<1> a \in Actors
  BY DEF Busy
<1>1. g.pc = pc /\ g.id = act[a].id /\ g.op = act[a].op /\ g.to = act[a].to /\ Goto(a, g)
  BY DEF TypeOK, Frames, Step, Goto
<1> HIDE DEF g
<1>2. \A id \in Ids : ~Holding(g, id)
  <2>1. pc = "move" => act[a].op \notin {"end", "orphan"}
    BY DEF SlotInv, Targets, Target
  <2> QED
    BY <1>1, <2>1 DEF Holding
<1>3. Honest(act[a])
  BY DEF RecordInv
<1>4. g.pc \in Deciding =>
        g.to # "Cancelled" \/ g.op \in {"end", "orphan"} \/ st[g.id] \notin Active
  BY <1>1, <1>3 DEF Spoken, Honest, Deciding
<1>5. g.pc \in Plain \cup Deciding
  BY <1>1 DEF Plain, Deciding
<1> QED
  BY <1>1, <1>2, <1>4, <1>5, RecordGoto

\* Every API call keeps the invariant; only enqueue writes a row, of a download
\* nobody has heard of.
LEMMA CallRecord ==
  ASSUME Workers = 1, TypeOK, SlotInv, RecordInv, NEW c \in Callers, Call(c)
  PROVE  RecordInv'
<1> c \in Actors
  BY DEF Actors
<1>f. ASSUME NEW pc, NEW op, NEW id, NEW to, Goto(c, Frame(pc, op, id, to)), At(c, "idle"), MayRun,
             pc \in {"capacity", "intend", "signal", "unqueue", "move"}, op \notin {"end", "orphan"},
             to # "Cancelled" \/ st[id] \notin Active, UNCHANGED <<st, db, told>>
      PROVE  RecordInv'
  <2> DEFINE g == Frame(pc, op, id, to)
  <2>1. g.pc = pc /\ g.op = op /\ g.to = to /\ g.id = id
    BY DEF Frame
  <2> HIDE DEF g
  <2>2. \A i \in Ids : ~Holding(g, i) /\ ~Owes(act[c], i)
    BY <1>f, <2>1 DEF Holding, Owes, At
  <2>3. Goto(c, g) /\ Busy = {}
    BY <1>f, RunsAlone DEF g
  <2>4. g.pc \in Plain \cup Deciding
    BY <1>f, <2>1 DEF Plain, Deciding
  <2> QED
    BY <1>f, <2>1, <2>2, <2>3, <2>4, RecordGoto
<1> USE DEF map, disk, signals
<1>1. ASSUME NEW id \in Ids, CallEnqueue(c, id) PROVE RecordInv'
  <2> DEFINE g == Frame("insert", "enqueue", id, Absent)
  <2>1. g.pc = "insert" /\ g.op = "enqueue" /\ g.id = id
    BY DEF Frame
  <2>2. /\ act' = [act EXCEPT ![c] = g] /\ db' = [db EXCEPT ![id] = "Queued"]
        /\ st' = st /\ told' = told /\ Busy = {} /\ created[id] = 0
    BY <1>1, RunsAlone DEF CallEnqueue, Calls, EnqueuedRow, Goto
  <2> HIDE DEF g
  <2>3. act'[c] = g /\ db'[id] = "Queued" /\ \A i \in Ids : i # id => db'[i] = db[i]
    BY <2>2 DEF TypeOK
  <2>4. Honest(act[c])' /\ Owes(act[c], id)'
    BY <2>1, <2>3 DEF Spoken, Honest, Deciding, Owes
  <2>5. \A i \in Ids : ~Holding(g, i)
    BY <2>1 DEF Holding
  <2>6. \A b \in Actors : ~Holds(b, id)
    BY <2>2 DEF SlotInv, Uncreated
  <2> QED
    BY <2>2, <2>3, <2>4, <2>5, <2>6, RecordStep
<1>2. ASSUME NEW id \in Ids, CallStart(c, id) PROVE RecordInv'
  BY <1>2, <1>f DEF CallStart, Reads, Calls
<1>3. ASSUME NEW id \in Ids, CallPause(c, id) PROVE RecordInv'
  BY <1>3, <1>f DEF CallPause, Reads, Calls, Absent
<1>4. ASSUME NEW id \in Ids, CallResume(c, id) \/ CallRetry(c, id) PROVE RecordInv'
  BY <1>4, <1>f DEF CallResume, CallRetry, Reads, Calls
<1>5. ASSUME NEW id \in Ids, CallCancelActive(c, id) PROVE RecordInv'
  BY <1>5, <1>f DEF CallCancelActive, Reads, Calls, Absent
<1>6. ASSUME NEW id \in Ids, CallCancelWaiting(c, id) PROVE RecordInv'
  <2>1. st[id] \notin Active
    BY <1>6 DEF CallCancelWaiting, Reads, Active
  <2> QED
    BY <1>6, <1>f, <2>1 DEF CallCancelWaiting, Reads, Calls
<1>7. ASSUME NEW id \in Ids, CallRemove(c, id) PROVE RecordInv'
  BY <1>7, <1>f DEF CallRemove, Calls, Absent
<1>8. CASE CallShutdown(c)
  <2>1. UNCHANGED <<st, db, told, act>>
    BY <1>8 DEF CallShutdown
  <2> QED
    BY <2>1 DEF Spoken, RecordInv, OneBusy, Busy, HeldActive, Holds, Told, Agrees, Owes, Honest
<1> QED
  BY <1>1, <1>2, <1>3, <1>4, <1>5, <1>6, <1>7, <1>8 DEF Call

\* What follows a transition owes nothing, and holds what it has held.
LEMMA ContinueRecord ==
  ASSUME TypeOK, NEW a \in Actors, NEW ok \in BOOLEAN, act[a].pc \in {"move", "copy", "store"},
         act[a].id \in Ids, ok => act[a].pc # "move"
  PROVE  LET g == Continue(a, ok)
         IN  /\ g.pc \in Plain \/ (g.pc = "push" /\ g.op = "requeue")
             /\ \A id \in Ids : Holding(g, id) => Holds(a, id)
<1> DEFINE f == act[a]
<1>1. CASE ok /\ f.to = "Starting"
  <2> DEFINE g == [f EXCEPT !.pc = "launch", !.snap = Absent]
  <2>1. g.pc = "launch" /\ g.id = f.id /\ g.to = f.to
    BY DEF TypeOK, Frames
  <2>2. Continue(a, ok) = g
    BY <1>1 DEF Continue
  <2> HIDE DEF g
  <2> QED
    BY <1>1, <2>1, <2>2 DEF Plain, Holding, Holds
<1>2. CASE ok /\ f.to = "Queued"
  <2> DEFINE g == Frame("push", "requeue", f.id, Absent)
  <2>1. g.pc = "push" /\ g.op = "requeue"
    BY DEF Frame
  <2>2. Continue(a, ok) = g
    BY <1>2 DEF Continue
  <2> HIDE DEF g
  <2> QED
    BY <2>1, <2>2 DEF Holding
<1>3. CASE ~(ok /\ f.to \in {"Starting", "Queued"})
  <2>1. Continue(a, ok) = Loop \/ \E b : Continue(a, ok) = Rest(b)
    BY <1>3 DEF Continue
  <2> QED
    BY <2>1, IdleHolds DEF Plain
<1> QED
  BY <1>1, <1>2, <1>3

\* A transition that is not in the table: nothing has changed.  The end of a
\* transfer is announced all the same, but only a removed download is not in its
\* slot then.
LEMMA MoveFails ==
  ASSUME TypeOK, SlotInv, RecordInv, NEW a \in Actors, At(a, "move"), act[a].id \in Ids,
         ~CanTransition(st[act[a].id], act[a].to), told' = Announce(a, FALSE),
         Goto(a, Continue(a, FALSE)), UNCHANGED <<st, db>>
  PROVE  RecordInv'
<1>d. PICK d \in Ids : d = act[a].id
  OBVIOUS
<1> DEFINE f == act[a]  g == Continue(a, FALSE)
<1>1. a \in Busy /\ \A id \in Ids : ~Owes(f, id)
  BY DEF At, Busy, Owes
<1>2. /\ g.pc \in Plain \/ (g.pc = "push" /\ g.op = "requeue")
      /\ \A id \in Ids : Holding(g, id) => Holds(a, id)
  BY ContinueRecord DEF At
<1>3. Agrees(d)
  BY <1>1, OnlyBusyOwes
<1>4. CASE f.op # "end"
  <2>1. told' = told
    BY <1>4 DEF Announce
  <2>2. g.pc \notin Deciding /\ (g.pc \in Plain \/ (g.pc = "push" /\ g.op # "enqueue"))
    BY <1>2 DEF Plain, Deciding
  <2> HIDE DEF g
  <2>3. Goto(a, g)
    BY DEF g
  <2> QED
    BY <1>1, <1>2, <2>1, <2>2, <2>3, RecordGoto
<1>5. CASE f.op = "end"
  <2>1. Holds(a, d)
    BY <1>5, <1>d DEF At, Holds, Holding
  <2>2. st[d] = Absent
    <3>1. f.to \in {"Completed", "Paused", "Failed", "Cancelled"}
      BY <1>5 DEF SlotInv, Targets, Target, At
    <3>2. st[d] \in Active \cup {Absent}
      BY <2>1 DEF RecordInv, HeldActive
    <3> QED
      BY <1>d, <3>1, <3>2 DEF CanTransition, NextStates, Active, States
  <2>3. g.pc \in {"count", "idle", "done"} /\ \A id : ~Holding(g, id)
    BY <1>5, IdleHolds DEF Continue
  <2>4. \A id \in Ids : id # d => told'[id] = told[id]
    BY <1>d, <1>5 DEF Announce, TypeOK
  <2> HIDE DEF g
  <2>5. act' = [act EXCEPT ![a] = g] /\ act'[a] = g
    BY DEF Goto, TypeOK, g
  <2>6. Agrees(d)'
    BY <1>3, <2>2 DEF Spoken, Agrees
  <2>7. Honest(act[a])'
    BY <2>3, <2>5 DEF Spoken, Honest, Deciding
  <2>8. \A b \in Actors : Holds(b, d) => st'[d] \in Active \cup {Absent}
    BY DEF RecordInv, HeldActive
  <2>9. \A id \in Ids : id # d => st'[id] = st[id] /\ db'[id] = db[id] /\ told'[id] = told[id]
    BY <2>4
  <2> QED
    BY <1>1, <1>d, <2>3, <2>5, <2>6, <2>7, <2>8, <2>9, RecordStep
<1> QED
  BY <1>4, <1>5

\* A transition in the table: if it leaves a slot, it is the holder's own.
LEMMA MoveRecord ==
  ASSUME TypeOK, SlotInv, RecordInv, NEW a \in Actors, At(a, "move"), act[a].id \in Ids,
         CanTransition(st[act[a].id], act[a].to), told' = told, db' = db,
         st' = [st EXCEPT ![act[a].id] = act[a].to], Step(a, "copy")
  PROVE  RecordInv'
<1>d. PICK d \in Ids : d = act[a].id
  OBVIOUS
<1> DEFINE f == act[a]  g == [f EXCEPT !.pc = "copy"]
<1>1. /\ g.pc = "copy" /\ g.id = d /\ g.to = f.to /\ act' = [act EXCEPT ![a] = g]
      /\ a \in Busy /\ f.pc = "move"
  BY <1>d DEF TypeOK, Frames, Step, At, Busy
<1> HIDE DEF g
<1>2. act'[a] = g /\ st'[d] = f.to /\ f.to # Absent /\ \A id \in Ids : id # d => st'[id] = st[id]
  BY <1>1, <1>d DEF TypeOK, CanTransition, NextStates, States, Absent
<1>3. ASSUME NEW b \in Actors, b # a, Holds(b, d) PROVE FALSE
  <2>1. st[d] \in Active
    BY <1>3, <1>d DEF RecordInv, HeldActive, CanTransition
  <2>2. f.op \notin {"end", "orphan"}
    BY <1>1, <1>3, <1>d DEF SlotInv, OneHolder, Holds, Holding
  <2>3. f.to = "Cancelled"
    BY <1>1, <1>d, <2>1, <2>2
       DEF SlotInv, Targets, Target, CanTransition, NextStates, Active, States, Absent
  <2>4. Honest(f)
    BY DEF RecordInv
  <2> QED
    BY <1>1, <1>d, <2>1, <2>2, <2>3, <2>4 DEF Spoken, Honest, Deciding
<1>4. \A id \in Ids : Holding(g, id) => st'[id] \in Active \cup {Absent}
  BY <1>1, <1>2 DEF Holding, Active
<1>5. Owes(act[a], d)' /\ Honest(act[a])'
  BY <1>1, <1>2 DEF Spoken, Deciding, Owes, Honest
<1> QED
  BY <1>1, <1>2, <1>3, <1>4, <1>5, <1>d, RecordStep

\* Every segment keeps the invariant, if its writes succeed.
LEMMA SegmentRecord ==
  ASSUME ~SaveFails, TypeOK, SlotInv, RecordInv, NEW a \in Actors, Segment(a)
  PROVE  RecordInv'
<1> DEFINE f == act[a]
<1>0. f \in Frames /\ (f.pc \notin Nameless => f.id \in Ids) /\ Honest(f)
  BY FrameParts DEF TypeOK, RecordInv
<1>b. a \in Busy
  BY SegmentBusy
<1>o. f.pc \notin {"insert", "push", "copy", "store", "report", "erase"} =>
        \A id \in Ids : ~Owes(f, id)
  BY DEF Owes
<1>h. \A b \in Actors, id \in Ids : Holds(b, id) => st[id] \in Active \cup {Absent}
  BY DEF RecordInv, HeldActive
<1> USE DEF map, disk, signals
<1>1. CASE Insert(a)
  <2>d. PICK d \in Ids : d = f.id
    BY <1>0, <1>1 DEF Insert, At, Nameless
  <2> DEFINE g == [f EXCEPT !.pc = "push"]
  <2>1. /\ g.pc = "push" /\ g.id = d /\ g.op = f.op /\ act' = [act EXCEPT ![a] = g]
        /\ f.pc = "insert" /\ db' = db /\ told' = told
    BY <1>0, <1>1, <2>d DEF Frames, Insert, At, Step
  <2> HIDE DEF g
  <2>2. act'[a] = g /\ st'[d] = "Queued" /\ \A id \in Ids : id # d => st'[id] = st[id]
    BY <1>1, <2>1, <2>d DEF Insert, TypeOK
  <2>3. Owes(act[a], d)' /\ Honest(act[a])'
    BY <1>0, <2>1, <2>2, <2>d DEF Spoken, Deciding, Owes, Honest
  <2>4. \A b \in Actors : ~Holds(b, d)
    BY <2>1, <2>d DEF SlotInv, InsertFresh, Inserting
  <2>5. \A id \in Ids : ~Holding(g, id)
    BY <2>1 DEF Holding
  <2> QED
    BY <1>b, <2>d, <2>1, <2>2, <2>3, <2>4, <2>5, RecordStep
<1>2. CASE Push(a)
  <2>d. PICK d \in Ids : d = f.id
    BY <1>0, <1>2 DEF Push, At, Nameless
  <2>1. /\ act' = [act EXCEPT ![a] = Loop] /\ act'[a] = Loop /\ f.pc = "push"
        /\ st' = st /\ db' = db
    BY <1>2 DEF Push, Goto, At, TypeOK
  <2>2. Loop.pc = "count" /\ \A id : ~Holding(Loop, id)
    BY DEF Loop, Frame, Holding
  <2>3. CASE f.op = "enqueue"
    <3>1. told'[d] = "Queued" /\ \A id \in Ids : id # d => told'[id] = told[id]
      BY <1>2, <2>3, <2>d DEF Push, TypeOK
    <3>2. Agrees(d)'
      BY <1>0, <2>1, <2>3, <2>d, <3>1 DEF Spoken, Honest, Agrees
    <3>3. Honest(act[a])'
      BY <2>1, <2>2 DEF Spoken, Honest, Deciding
    <3>4. \A id \in Ids : id # d => st'[id] = st[id] /\ db'[id] = db[id] /\ told'[id] = told[id]
      BY <2>1, <3>1
    <3>5. \A b \in Actors : Holds(b, d) => st'[d] \in Active \cup {Absent}
      BY <1>h, <2>1
    <3> QED
      BY <1>b, <2>d, <2>1, <2>2, <3>2, <3>3, <3>4, <3>5, RecordStep
  <2>4. CASE f.op # "enqueue"
    <3>1. told' = told /\ \A id \in Ids : ~Owes(f, id)
      BY <1>2, <2>1, <2>4 DEF Push, Owes
    <3> QED
      BY <1>b, <2>1, <3>1, RecordIdle DEF Goto
  <2> QED
    BY <2>3, <2>4
<1>3. CASE Capacity(a)
  BY <1>3, <1>b, <1>o, RecordIdle, RecordCounter DEF Capacity, At
<1>4. CASE Unqueue(a)
  BY <1>4, <1>b, <1>o, RecordCounter DEF Unqueue, At
<1>5. CASE Intend(a)
  BY <1>5, <1>b, <1>o, RecordCounter DEF Intend, At
<1>6. CASE Signal(a)
  BY <1>6, <1>b, <1>o, RecordIdle DEF Signal, At
<1>7. CASE Forget(a)
  <2>d. PICK d \in Ids : d = f.id
    BY <1>0, <1>7 DEF Forget, At, Nameless
  <2> DEFINE g == [f EXCEPT !.pc = "erase"]
  <2>1. /\ g.pc = "erase" /\ g.id = d /\ act' = [act EXCEPT ![a] = g]
        /\ db' = db /\ told' = told
    BY <1>0, <1>7, <2>d DEF Frames, Forget, Step
  <2> HIDE DEF g
  <2>2. act'[a] = g /\ st'[d] = Absent /\ \A id \in Ids : id # d => st'[id] = st[id]
    BY <1>7, <2>1, <2>d DEF Forget, TypeOK
  <2>3. Owes(act[a], d)' /\ Honest(act[a])'
    BY <2>1, <2>2, <2>d DEF Spoken, Owes, Honest, Deciding
  <2>4. \A id \in Ids : ~Holding(g, id)
    BY <2>1 DEF Holding
  <2> QED
    BY <1>b, <2>d, <2>1, <2>2, <2>3, <2>4, RecordStep
<1>8. CASE Erase(a)
  <2>d. PICK d \in Ids : d = f.id
    BY <1>0, <1>8 DEF Erase, At, Nameless
  <2>1. /\ act' = [act EXCEPT ![a] = Loop] /\ act'[a] = Loop /\ f.pc = "erase"
        /\ st' = st /\ told' = told /\ db' = [db EXCEPT ![d] = Absent]
    BY <1>8, <2>d DEF Erase, Goto, At, TypeOK
  <2>2. Loop.pc = "count" /\ \A id : ~Holding(Loop, id)
    BY DEF Loop, Frame, Holding
  <2>3. Agrees(d)' /\ \A id \in Ids : id # d => db'[id] = db[id]
    BY <1>0, <2>1, <2>d DEF Spoken, Honest, Agrees, TypeOK
  <2>4. Honest(act[a])'
    BY <2>1, <2>2 DEF Spoken, Honest, Deciding
  <2>5. \A b \in Actors : Holds(b, d) => st'[d] \in Active \cup {Absent}
    BY <1>h, <2>1
  <2> QED
    BY <1>b, <2>d, <2>1, <2>2, <2>3, <2>4, <2>5, RecordStep
<1>9. CASE Count(a)
  BY <1>9, <1>b, <1>o, RecordIdle, RecordCounter DEF Count, At
<1>10. CASE Select(a)
  <2>1. CASE Goto(a, Rest(a))
    BY <1>10, <1>b, <1>o, <2>1, RecordIdle DEF Select, At
  <2>2. CASE \E id \in Ids : Goto(a, Frame("take", "loop", id, "Starting"))
    <3>1. PICK g : Goto(a, g) /\ g.pc = "take" /\ g.to = "Starting"
      BY <2>2 DEF Frame
    <3>2. \A id \in Ids : ~Holding(g, id)
      BY <3>1 DEF Holding
    <3>3. g.pc \in Plain \cup Deciding
      BY <3>1 DEF Deciding
    <3> QED
      BY <1>10, <1>b, <1>o, <3>1, <3>2, <3>3, RecordGoto DEF Select, At
  <2> QED
    BY <1>10, <2>1, <2>2 DEF Select
<1>11. CASE Take(a)
  BY <1>11, <1>b, <1>o, RecordCounter DEF Take, At
<1>12. CASE Move(a)
  BY <1>0, <1>12, MoveFails, MoveRecord DEF Move, At, Nameless
<1>13. CASE Copy(a)
  <2>d. PICK d \in Ids : d = f.id
    BY <1>0, <1>13 DEF Copy, At, Nameless
  <2> DEFINE g == [f EXCEPT !.pc = "store", !.snap = st[f.id]]
  <2>1. f.pc = "copy" /\ st[d] = f.to /\ f.to # Absent
    BY <1>0, <1>13, <2>d DEF Spoken, Copy, At, Honest
  <2>2. /\ g.pc = "store" /\ g.id = d /\ g.to = f.to /\ g.snap = st[d]
        /\ act' = [act EXCEPT ![a] = g]
        /\ st' = st /\ db' = db /\ told' = told
    BY <1>0, <1>13, <2>1, <2>d DEF Frames, Copy, Goto
  <2> HIDE DEF g
  <2>3. act'[a] = g
    BY <2>2 DEF TypeOK
  <2>4. Owes(act[a], d)' /\ Honest(act[a])'
    BY <2>1, <2>2, <2>3 DEF Spoken, Owes, Honest, Deciding
  <2>5. \A id \in Ids : Holding(g, id) => Holds(a, id)
    BY <2>1, <2>2, <2>d DEF Holding, Holds
  <2>6. \A id \in Ids : Holding(g, id) => st'[id] \in Active \cup {Absent}
    BY <1>h, <2>2, <2>5
  <2>7. \A b \in Actors : Holds(b, d) => st'[d] \in Active \cup {Absent}
    BY <1>h, <2>2
  <2> QED
    BY <1>b, <2>d, <2>2, <2>4, <2>6, <2>7, RecordStep
<1>14. CASE Store(a)
  <2>d. PICK d \in Ids : d = f.id
    BY <1>0, <1>14 DEF Store, At, Nameless
  <2> DEFINE g == Continue(a, TRUE)
  <2>1. /\ g.pc \in Plain \/ (g.pc = "push" /\ g.op = "requeue")
        /\ \A id \in Ids : Holding(g, id) => Holds(a, id)
    BY <1>14, <2>d, ContinueRecord DEF Store, At
  <2>2. /\ f.pc = "store" /\ st[d] = f.to /\ f.snap = f.to /\ st' = st
        /\ act' = [act EXCEPT ![a] = g]
        /\ db' = [db EXCEPT ![d] = f.snap] /\ told' = [told EXCEPT ![d] = f.to]
    BY <1>0, <1>14, <2>d DEF Spoken, Store, At, Honest, Announce, Goto
  <2> HIDE DEF g
  <2>3. /\ act'[a] = g /\ db'[d] = f.to /\ told'[d] = f.to
        /\ \A id \in Ids : id # d => db'[id] = db[id] /\ told'[id] = told[id]
    BY <2>2, <2>d DEF TypeOK
  <2>4. Agrees(d)'
    BY <2>2, <2>3 DEF Spoken, Agrees
  <2>5. Honest(act[a])'
    BY <2>1, <2>3 DEF Spoken, Honest, Plain, Deciding
  <2>6. \A id \in Ids : Holding(g, id) => st'[id] \in Active \cup {Absent}
    BY <1>h, <2>1, <2>2
  <2>7. \A b \in Actors : Holds(b, d) => st'[d] \in Active \cup {Absent}
    BY <1>h, <2>2
  <2>8. \A id \in Ids : id # d => st'[id] = st[id] /\ db'[id] = db[id] /\ told'[id] = told[id]
    BY <2>2, <2>3
  <2>9. act' = [act EXCEPT ![a] = g] /\ (a \in Busy => act[a].id = d)
    BY <2>2, <2>d
  <2> QED
    BY <1>b, <2>4, <2>5, <2>6, <2>7, <2>8, <2>9, RecordStep
<1>15. ASSUME NEW r \in Runs, Launch(a, r) PROVE RecordInv'
  <2> DEFINE g == [f EXCEPT !.pc = "attach", !.run = r]
             h == Frame("spawned", "run", f.id, Absent)
  <2>1. /\ r # a /\ r \in Actors /\ act[r].pc = "done" /\ f.pc = "launch" /\ f.id \in Ids
        /\ act' = [act EXCEPT ![a] = g, ![r] = h]
        /\ st' = st /\ db' = db /\ told' = told
    BY <1>0, <1>15 DEF Launch, At, NextFree, Free, Actors, Nameless
  <2>2. g.pc = "attach" /\ h.pc = "spawned" /\ h.id = f.id
    BY <1>0 DEF Frame, Frames
  <2>3. Holds(a, f.id)
    BY <1>0, <2>1 DEF Holds, Holding, Target, SlotInv, Targets
  <2> HIDE DEF g, h
  <2>4. /\ act'[a] = g /\ act'[r] = h
        /\ \A b \in Actors : b # a /\ b # r => act'[b] = act[b] /\ b \notin Busy
    BY <1>b, <2>1 DEF TypeOK, RecordInv, OneBusy
  <2>5. OneBusy'
    BY <2>2, <2>4 DEF OneBusy, Busy
  <2>6. HeldActive'
    <3> SUFFICES ASSUME NEW b \in Actors, NEW id \in Ids, Holding(act'[b], id)
                 PROVE  st[id] \in Active \cup {Absent}
      BY <2>1 DEF HeldActive, Holds
    <3>1. CASE b = a
      BY <2>2, <2>4, <3>1 DEF Holding
    <3>2. CASE b = r
      BY <1>h, <2>2, <2>3, <2>4, <3>2 DEF Holding
    <3>3. CASE b # a /\ b # r
      BY <1>h, <2>4, <3>3 DEF Holds
    <3> QED
      BY <3>1, <3>2, <3>3
  <2>7. Told'
    <3>1. \A id \in Ids : Agrees(id)
      BY <1>b, <1>o, <2>1, OnlyBusyOwes
    <3> QED
      BY <2>1, <3>1 DEF Spoken, Told, Agrees
  <2>8. \A b \in Actors : Honest(act[b])'
    BY <2>2, <2>4 DEF Spoken, Honest, Deciding, Busy
  <2> QED
    BY <2>5, <2>6, <2>7, <2>8 DEF RecordInv
<1>16. CASE Attach(a)
  BY <1>16, <1>b, <1>o, RecordIdle DEF Attach, At
<1> QED
  BY <1>1, <1>2, <1>3, <1>4, <1>5, <1>6, <1>7, <1>8, <1>9, <1>10, <1>11, <1>12,
     <1>13, <1>14, <1>15, <1>16 DEF Segment

\* Every step of a task keeps the invariant; only a progress report writes.
LEMMA TaskRecord ==
  ASSUME Workers = 1, ~SaveFails, TypeOK, SlotInv, RecordInv, NEW r \in Runs, Task(r)
  PROVE  RecordInv'
<1> r \in Actors
  BY DEF Actors
<1> DEFINE f == act[r]
<1>0. f \in Frames /\ (f.pc \notin Nameless => f.id \in Ids) /\ Honest(f)
  BY FrameParts DEF TypeOK, RecordInv
<1>h. \A b \in Actors, id \in Ids : Holds(b, id) => st[id] \in Active \cup {Absent}
  BY DEF RecordInv, HeldActive
<1>t. Transfer(f.id).pc = "transfer" /\ Transfer(f.id).id = f.id
  BY DEF Transfer, Frame
<1> USE DEF map, disk, signals
<1>g. ASSUME NEW g, Goto(r, g), Busy = {}, UNCHANGED <<st, db, told>>,
             f.pc \in {"spawned", "transfer"}, f.id \in Ids,
             \/ g = Transfer(f.id)
             \/ \E op \in {"end", "orphan"} : \E to : g = Frame("move", op, f.id, to)
      PROVE  RecordInv'
  <2>1. /\ g.pc \in Plain \cup Deciding /\ g.id = f.id
        /\ g.pc \in Deciding => g.op \in {"end", "orphan"}
    BY <1>g, <1>t DEF Frame, Plain, Deciding
  <2>2. \A id \in Ids : Holding(g, id) => Holds(r, id)
    BY <1>g, <2>1 DEF Holding, Holds
  <2>3. \A id \in Ids : ~Owes(f, id)
    BY <1>g DEF Owes
  <2> QED
    BY <1>g, <2>1, <2>2, <2>3, RecordGoto
<1>1. CASE RunBegin(r)
  <2>1. Busy = {} /\ st' = st /\ db' = db /\ told' = told /\ f.pc = "spawned" /\ f.id \in Ids
    BY <1>0, <1>1, RunsAlone DEF RunBegin, Resumes, At, Nameless
  <2>2. CASE Goto(r, Rest(r))
    BY <2>1, <2>2, RecordIdle DEF Owes
  <2>3. CASE Goto(r, Transfer(f.id)) \/ Goto(r, Frame("move", "orphan", f.id, "Failed"))
    BY <1>g, <2>1, <2>3
  <2> QED
    BY <1>1, <2>2, <2>3 DEF RunBegin
<1>2. CASE Progress(r)
  <2>d. PICK d \in Ids : d = f.id
    BY <1>0, <1>2 DEF Progress, Resumes, At, Nameless
  <2> DEFINE g == [Frame("report", "run", f.id,
                         IF st[f.id] = "Starting" THEN "Downloading" ELSE Absent)
                     EXCEPT !.snap = st'[f.id]]
  <2>1. /\ Busy = {} /\ act' = [act EXCEPT ![r] = g] /\ f.pc = "transfer" /\ st[d] # Absent
        /\ db' = db /\ told' = told
        /\ st' = IF st[d] = "Starting" THEN [st EXCEPT ![d] = "Downloading"] ELSE st
    BY <1>2, <2>d, RunsAlone DEF Progress, Resumes, At, Goto
  <2>2. /\ g.pc = "report" /\ g.id = d /\ g.snap = st'[d]
        /\ g.to = IF st[d] = "Starting" THEN "Downloading" ELSE Absent
    BY <2>d DEF Frame
  <2> HIDE DEF g
  <2>3. /\ act'[r] = g /\ \A id \in Ids : id # d => st'[id] = st[id]
        /\ st'[d] = IF st[d] = "Starting" THEN "Downloading" ELSE st[d]
    BY <2>1 DEF TypeOK
  <2>4. Agrees(d)
    BY <2>1, NobodyOwes
  <2>5. Owes(act[r], d)' /\ Honest(act[r])'
    BY <2>1, <2>2, <2>3, <2>4 DEF Spoken, Owes, Honest, Deciding, Agrees, Absent
  <2>6. \A b \in Actors : Holds(b, d) => st'[d] \in Active \cup {Absent}
    BY <1>h, <2>3 DEF Active
  <2>7. \A id \in Ids : Holding(g, id) => st'[id] \in Active \cup {Absent}
    BY <2>1, <2>2, <2>6, <2>d DEF Holding, Holds
  <2>8. /\ \A id \in Ids : id # d => st'[id] = st[id] /\ db'[id] = db[id] /\ told'[id] = told[id]
        /\ r \in Busy => f.id = d
    BY <2>1, <2>3, <2>d
  <2> QED
    BY <2>1, <2>5, <2>6, <2>7, <2>8, RecordStep
<1>3. CASE Report(r)
  <2>d. PICK d \in Ids : d = f.id
    BY <1>0, <1>3 DEF Report, At, Nameless
  <2> DEFINE g == Transfer(f.id)
  <2>1. /\ f.pc = "report" /\ r \in Busy /\ act' = [act EXCEPT ![r] = g]
        /\ st' = st /\ db' = [db EXCEPT ![d] = f.snap]
        /\ told' = IF f.to = Absent THEN told ELSE [told EXCEPT ![d] = f.to]
    BY <1>3, <2>d DEF Report, At, Goto, Busy
  <2>2. g.pc = "transfer" /\ g.id = d
    BY <1>t, <2>d
  <2> HIDE DEF g
  <2>3. /\ act'[r] = g /\ db'[d] = f.snap
        /\ told'[d] = IF f.to = Absent THEN told[d] ELSE f.to
        /\ \A id \in Ids : id # d => db'[id] = db[id] /\ told'[id] = told[id]
    BY <2>1 DEF TypeOK
  <2>4. Agrees(d)'
    BY <1>0, <2>1, <2>3, <2>d DEF Spoken, Honest, Agrees
  <2>5. Honest(act[r])'
    BY <2>2, <2>3 DEF Spoken, Honest, Deciding
  <2>6. \A b \in Actors : Holds(b, d) => st'[d] \in Active \cup {Absent}
    BY <1>h, <2>1
  <2>7. \A id \in Ids : Holding(g, id) => st'[id] \in Active \cup {Absent}
    BY <1>h, <2>1, <2>2, <2>d DEF Holding, Holds
  <2>8. /\ \A id \in Ids : id # d => st'[id] = st[id] /\ db'[id] = db[id] /\ told'[id] = told[id]
        /\ r \in Busy => f.id = d
    BY <2>1, <2>3, <2>d
  <2> QED
    BY <2>1, <2>4, <2>5, <2>6, <2>7, <2>8, RecordStep
<1>4. CASE FinishOk(r)
  <2>1. Busy = {} /\ st' = st /\ db' = db /\ told' = told /\ f.pc = "transfer" /\ f.id \in Ids
    BY <1>0, <1>4, RunsAlone DEF FinishOk, Resumes, At, Nameless
  <2> QED
    BY <1>4, <1>g, <2>1 DEF FinishOk
<1>5. CASE FinishErr(r)
  <2>1. Busy = {} /\ st' = st /\ db' = db /\ told' = told /\ f.pc = "transfer" /\ f.id \in Ids
    BY <1>0, <1>5, RunsAlone DEF FinishErr, Resumes, At, Nameless
  <2>2. PICK to : Goto(r, Frame("move", "end", f.id, to))
    BY <1>5 DEF FinishErr
  <2> QED
    BY <1>g, <2>1, <2>2
<1>6. CASE Abort(r)
  <2>1. /\ act' = [act EXCEPT ![r] = Rest(r)] /\ st' = st /\ db' = db /\ told' = told
        /\ f.pc \in {"spawned", "transfer"}
    BY <1>6 DEF Abort, Goto
  <2>2. Rest(r).pc \in {"idle", "done"} /\ \A id : ~Holding(Rest(r), id)
    BY RestPc DEF Holding
  <2>3. act'[r] = Rest(r) /\ \A b \in Actors : b # r => act'[b] = act[b]
    BY <2>1 DEF TypeOK
  <2>4. OneBusy' /\ HeldActive'
    BY <2>1, <2>2, <2>3 DEF RecordInv, OneBusy, Busy, HeldActive, Holds
  <2>5. Told'
    <3> SUFFICES ASSUME NEW id \in Ids PROVE Agrees(id)' \/ \E b \in Actors : Owes(act[b], id)'
      BY DEF Told
    <3>1. CASE Agrees(id)
      BY <2>1, <3>1 DEF Spoken, Agrees
    <3>2. CASE \E b \in Actors : Owes(act[b], id)
      <4>1. PICK b \in Actors : Owes(act[b], id)
        BY <3>2
      <4>2. b # r
        BY <2>1, <4>1 DEF Owes
      <4> QED
        BY <2>3, <4>1, <4>2 DEF Owes
    <3> QED
      BY <3>1, <3>2 DEF RecordInv, Told
  <2>6. \A b \in Actors : Honest(act[b])'
    BY <2>1, <2>2, <2>3 DEF Spoken, RecordInv, Honest, Deciding
  <2> QED
    BY <2>4, <2>5, <2>6 DEF RecordInv
<1> QED
  BY <1>1, <1>2, <1>3, <1>4, <1>5, <1>6 DEF Task

\* At any time, a crash included, the last event is the one of the row, or there
\* was none.
Kept == \A id \in Ids : db[id] # Absent => told[id] \in {db[id], Absent}

\* After a restart the map is the rows, and the events are those of the rows.
LEMMA ReopenRecord ==
  ASSUME TypeOK, Kept, Reopen
  PROVE  RecordInv'
<1>1. /\ \A a \in Actors : act'[a].pc \in {"idle", "done"}
      /\ Restarts /\ st' = db'
      /\ \A id \in Ids : /\ st'[id] = Recovered(db[id])
                         /\ told'[id] = IF db[id] \in Active THEN st'[id] ELSE told[id]
  BY RestPc DEF Reopen
<1>2. \A id \in Ids : Agrees(id)'
  BY <1>1 DEF Agrees, Spoken, Kept, Recovered
<1> QED
  BY <1>1, <1>2 DEF RecordInv, OneBusy, Busy, HeldActive, Holds, Holding, Told, Honest, Deciding

\* RecordInv is inductive while nothing fails to be written.
LEMMA NextRecord ==
  ASSUME Workers = 1, ~SaveFails, Restarts => Kept
  PROVE  TypeOK /\ SlotInv /\ RecordInv /\ [Next]_vars => RecordInv'
<1> SUFFICES ASSUME TypeOK, SlotInv, RecordInv, [Next]_vars PROVE RecordInv'
  OBVIOUS
<1>0. Reopen => Restarts
  BY DEF Reopen
<1>1. CASE Next
  BY <1>0, <1>1, CallRecord, SegmentRecord, TaskRecord, ReopenRecord DEF Next
<1>2. CASE UNCHANGED vars
  BY <1>2 DEF Spoken, vars, RecordInv, OneBusy, Busy, HeldActive, Holds, Told, Agrees, Owes, Honest
<1> QED
  BY <1>1, <1>2

\* A new manager has no downloads and no rows.
LEMMA InitRecord == Init => RecordInv
<1> SUFFICES ASSUME Init PROVE RecordInv
  OBVIOUS
<1>1. \A a \in Actors : act[a].pc \in {"idle", "done"}
  BY RestPc DEF Init
<1>2. \A id \in Ids : Agrees(id)
  BY DEF Spoken, Init, Agrees
<1> QED
  BY <1>1, <1>2 DEF Spoken, RecordInv, OneBusy, Busy, HeldActive, Holds, Holding, Told, Honest, Deciding

\* On one thread, with writes that succeed and until the process ends, the row
\* and the last event of each download agree with the map whenever the manager
\* is at rest, whatever was called, reported and signalled before.
THEOREM RecordsSettle ==
  ASSUME Workers = 1, ~SaveFails, ~Restarts
  PROVE  Spec => []RecordsAgree
<1>1. Init => TypeOK /\ SlotInv /\ RecordInv
  BY InitType, InitSlot, InitRecord
<1>2. TypeOK /\ SlotInv /\ RecordInv /\ [Next]_vars => (TypeOK /\ SlotInv /\ RecordInv)'
  BY NextType, NextSlot, NextRecord
<1>3. TypeOK /\ RecordInv => RecordsAgree
  BY NobodyOwes DEF RecordsAgree, Resting, Agrees, Spoken
<1> QED
  BY <1>1, <1>2, <1>3, PTL DEF Spec

(***************************************************************************)
(* A restart brings back what was announced.  The row is written before    *)
(* the event of the same change, so a crash between them loses the event   *)
(* and not the change; on one thread no later change overtakes it.         *)
(***************************************************************************)

\* A step keeps the row and the event of every download but d, whose new event
\* is that of its new row.
LEMMA KeptStep ==
  ASSUME Kept, NEW d, \A id \in Ids : id # d => db'[id] = db[id] /\ told'[id] = told[id],
         d \in Ids /\ db'[d] # Absent => told'[d] \in {db'[d], Absent}
  PROVE  Kept'
BY DEF Kept

\* Every segment keeps the invariant.
LEMMA SegmentKept ==
  ASSUME ~SaveFails, TypeOK, SlotInv, RecordInv, Kept, NEW a \in Actors, Segment(a)
  PROVE  Kept'
<1> DEFINE f == act[a]
<1>0. f \in Frames /\ (f.pc \notin Nameless => f.id \in Ids) /\ Honest(f)
  BY FrameParts DEF TypeOK, RecordInv
<1>b. a \in Busy
  BY SegmentBusy
<1> USE DEF disk
<1>1. CASE Push(a)
  <2>d. PICK d \in Ids : d = f.id
    BY <1>0, <1>1 DEF Push, At, Nameless
  <2>1. f.op = "enqueue" => db[d] = "Queued"
    BY <1>0, <1>1, <2>d DEF Push, At, Honest
  <2>2. db' = db /\ told' = IF f.op = "enqueue" THEN [told EXCEPT ![d] = "Queued"] ELSE told
    BY <1>1, <2>d DEF Push
  <2> QED
    BY <2>1, <2>2, KeptStep DEF TypeOK, Kept
<1>2. CASE Erase(a)
  <2>1. told' = told /\ db' = [db EXCEPT ![f.id] = Absent]
    BY <1>2 DEF Erase
  <2> QED
    BY <2>1 DEF TypeOK, Kept
<1>3. CASE Move(a)
  <2>d. PICK d \in Ids : d = f.id
    BY <1>0, <1>3 DEF Move, At, Nameless
  <2>1. CASE told' = told /\ db' = db
    BY <2>1 DEF Kept
  <2>2. CASE ~CanTransition(st[d], f.to) /\ told' = Announce(a, FALSE) /\ db' = db
    <3>1. CASE f.op = "end"
      <4>1. f.pc = "move" /\ Holds(a, d)
        BY <1>3, <2>d, <3>1 DEF Move, At, Holds, Holding
      <4>2. st[d] \in Active \cup {Absent} /\ f.to \in {"Completed", "Paused", "Failed", "Cancelled"}
        BY <3>1, <4>1 DEF RecordInv, HeldActive, SlotInv, Targets, Target
      <4>3. st[d] = Absent
        BY <2>2, <4>2 DEF CanTransition, NextStates, States, Active, Absent
      <4>4. Agrees(d)
        BY <1>b, <4>1, OnlyBusyOwes DEF Owes
      <4>5. db[d] = Absent /\ told' = [told EXCEPT ![d] = f.to]
        BY <2>2, <2>d, <3>1, <4>3, <4>4 DEF Agrees, Announce
      <4> QED
        BY <2>2, <4>5 DEF Kept, TypeOK
    <3>2. CASE f.op # "end"
      BY <2>2, <3>2 DEF Announce, Kept
    <3> QED
      BY <3>1, <3>2
  <2> QED
    BY <1>3, <2>d, <2>1, <2>2 DEF Move
<1>4. CASE Copy(a)
  <2>d. PICK d \in Ids : d = f.id
    BY <1>0, <1>4 DEF Copy, At, Nameless
  <2>1. st[d] # Absent
    BY <1>0, <1>4, <2>d DEF Copy, At, Honest
  <2>2. UNCHANGED <<db, told>>
    BY <1>4, <2>d, <2>1 DEF Copy
  <2> QED
    BY <2>2 DEF Kept
<1>5. CASE Store(a)
  <2>d. PICK d \in Ids : d = f.id
    BY <1>0, <1>5 DEF Store, At, Nameless
  <2>1. /\ f.snap = f.to /\ db' = [db EXCEPT ![d] = f.snap] /\ told' = [told EXCEPT ![d] = f.to]
    BY <1>0, <1>5, <2>d DEF Store, At, Honest, Announce
  <2> QED
    BY <2>1 DEF Kept, TypeOK
<1>6. CASE UNCHANGED <<db, told>>
  BY <1>6 DEF Kept
<1>7. Insert(a) \/ Capacity(a) \/ Unqueue(a) => UNCHANGED <<db, told>>
  BY DEF Insert, Capacity, Unqueue
<1>8. Intend(a) \/ Signal(a) \/ Forget(a) => UNCHANGED <<db, told>>
  BY DEF Intend, Signal, Forget
<1>9. Count(a) \/ Select(a) => UNCHANGED <<db, told>>
  BY DEF Count, Select
<1>10. Take(a) \/ Attach(a) => UNCHANGED <<db, told>>
  BY DEF Take, Attach
<1>11. \A r \in Runs : Launch(a, r) => UNCHANGED <<db, told>>
  BY DEF Launch
<1> QED
  BY <1>1, <1>2, <1>3, <1>4, <1>5, <1>6, <1>7, <1>8, <1>9, <1>10, <1>11 DEF Segment

\* Every step of a task keeps the invariant.
LEMMA TaskKept ==
  ASSUME ~SaveFails, TypeOK, RecordInv, Kept, NEW r \in Runs, Task(r)
  PROVE  Kept'
<1> r \in Actors
  BY DEF Actors
<1> DEFINE f == act[r]
<1> USE DEF disk
<1>1. CASE Report(r)
  <2>d. PICK d \in Ids : d = f.id
    <3>1. f.pc \notin Nameless
      BY <1>1 DEF Report, At, Nameless
    <3> QED
      BY <3>1, FrameParts DEF TypeOK
  <2>1. /\ f.snap = st[d] /\ IF f.to = Absent THEN Spoken(d) ELSE st[d] = f.to
    BY <1>1, <2>d DEF Report, At, RecordInv, Honest
  <2>2. /\ db' = [db EXCEPT ![d] = f.snap]
        /\ told' = IF f.to = Absent THEN told ELSE [told EXCEPT ![d] = f.to]
    BY <1>1, <2>d DEF Report
  <2> QED
    BY <2>1, <2>2 DEF Spoken, Kept, TypeOK
<1>2. CASE ~Report(r)
  <2>1. UNCHANGED <<db, told>>
    BY <1>2 DEF Task, RunBegin, Progress, FinishOk, FinishErr, Abort
  <2> QED
    BY <2>1 DEF Kept
<1> QED
  BY <1>1, <1>2

\* Kept is inductive with what is known of rows and events.
LEMMA NextKept ==
  ASSUME ~SaveFails
  PROVE  TypeOK /\ SlotInv /\ DurInv /\ RecordInv /\ Kept /\ [Next]_vars => Kept'
<1> SUFFICES ASSUME TypeOK, SlotInv, DurInv, RecordInv, Kept, [Next]_vars PROVE Kept'
  OBVIOUS
<1> USE DEF disk
<1>1. ASSUME NEW c \in Callers, Call(c) PROVE Kept'
  <2>1. ASSUME NEW id \in Ids, CallEnqueue(c, id) PROVE Kept'
    <3>1. created[id] = 0 /\ told' = told /\ db' = [db EXCEPT ![id] = "Queued"]
      BY <2>1 DEF CallEnqueue, EnqueuedRow
    <3>2. told[id] = Absent
      BY <3>1 DEF DurInv, Unheard
    <3> QED
      BY <3>1, <3>2 DEF Kept, TypeOK
  <2>2. CASE ~\E id \in Ids : CallEnqueue(c, id)
    <3>1. UNCHANGED <<db, told>>
      BY <1>1, <2>2 DEF Call, CallStart, CallPause, CallResume, CallRetry, CallCancelActive,
         CallCancelWaiting, CallRemove, CallShutdown, Reads
    <3> QED
      BY <3>1 DEF Kept
  <2> QED
    BY <2>1, <2>2
<1>2. CASE Reopen
  <2>1. \A id \in Ids : /\ db'[id] = Recovered(db[id])
                        /\ told'[id] = IF db[id] \in Active THEN db'[id] ELSE told[id]
    BY <1>2 DEF Reopen
  <2> QED
    BY <2>1 DEF Kept, Recovered
<1>3. CASE UNCHANGED vars
  BY <1>3 DEF vars, Kept
<1> QED
  BY <1>1, <1>2, <1>3, SegmentKept, TaskKept DEF Next

\* With one thread and writes that succeed, what the manager holds, the rows and
\* the events are always as the invariants say.
LEMMA RowsHold ==
  ASSUME Workers = 1, ~SaveFails
  PROVE  Spec => [](TypeOK /\ SlotInv /\ DurInv /\ RecordInv /\ Kept)
<1>1. Init => TypeOK /\ SlotInv /\ DurInv /\ RecordInv /\ Kept
  <2>1. Init => Kept
    BY DEF Init, Kept
  <2> QED
    BY <2>1, InitType, InitSlot, InitDurable, InitRecord
<1>2. /\ TypeOK /\ SlotInv /\ DurInv /\ RecordInv /\ Kept /\ [Next]_vars
      => (TypeOK /\ SlotInv /\ DurInv /\ RecordInv /\ Kept)'
  BY NextType, NextSlot, NextDurable, NextRecord, NextKept
<1> QED
  BY <1>1, <1>2, PTL DEF Spec

\* A terminal state that was announced for a download the manager holds is the one
\* in its row: a crash at any point and a restart bring it back.
THEOREM AnnouncedKept ==
  ASSUME Workers = 1, ~SaveFails
  PROVE  Spec => []AnnouncedSurvives
<1>1. DurInv /\ Kept => AnnouncedSurvives
  BY DEF DurInv, AcceptedIsDurable, Kept, AnnouncedSurvives, Terminal, Absent
<1> QED
  BY <1>1, RowsHold, PTL

(***************************************************************************)
(* Transfers beyond the limit.  remove() and the cancel of a transfer give *)
(* a slot back, or promise to, before the transfer has stopped; a transfer *)
(* nobody has signalled still has its slot, and its Notify is in the map.  *)
(***************************************************************************)

Unsignalled(r) == Listening(r) /\ permit[r] = {}
Slotted == \A r \in Runs : Unsignalled(r) =>
             st[act[r].id] \in Active /\ cancel[act[r].id] = r

\* remove() has signalled the transfer before it takes the download away.
Removing(f) == f.pc \in {"unqueue", "forget"} /\ f.op = "remove"
Signalled == \A a \in Actors, r \in Runs :
               Removing(act[a]) /\ Listening(r) /\ act[r].id = act[a].id => permit[r] # {}

\* Only remove() takes a download out of the map; a cancel from outside has found
\* no transfer; who has room for a download means to start it, and who is about
\* to spawn its task has made it Starting.
Careful(f) ==
  /\ f.pc \in {"capacity", "take"} => f.to = "Starting" /\ f.op # "remove"
  /\ f.pc = "forget" => f.op = "remove"
  /\ f.pc \in {"unqueue", "move"} /\ f.to = "Cancelled" /\ f.op \notin {"end", "orphan"}
       => st[f.id] \notin Active
  /\ f.pc \in {"copy", "store", "launch"} /\ f.to = "Starting" => st[f.id] = "Starting"
StopInv == Slotted /\ Signalled /\ \A a \in Actors : Careful(act[a])

\* An actor moves on while nobody else is busy.
LEMMA StopStep ==
  ASSUME TypeOK, LimitInv, StopInv, NEW a \in Actors, NEW g, act' = [act EXCEPT ![a] = g],
         a \in Busy \/ Busy = {},
         \A r \in Runs : r # a /\ Listening(r) /\ permit'[r] = {} =>
            st'[act[r].id] \in Active /\ cancel'[act[r].id] = r,
         a \in Runs /\ g.pc \in {"spawned", "transfer", "report"} /\ permit'[a] = {} =>
            st'[g.id] \in Active /\ cancel'[g.id] = a,
         \A r \in Runs : Removing(g) /\ r # a /\ Listening(r) /\ act[r].id = g.id => permit'[r] # {},
         Careful(act[a])'
  PROVE  StopInv'
<1>1. /\ act'[a] = g
      /\ \A b \in Actors : b # a => act'[b] = act[b] /\ b \notin Busy
  BY BusyStep DEF LimitInv
<1>2. \A r \in Runs : r \in Actors
  BY DEF Actors
<1>3. \A r \in Runs : r # a => (Listening(r)' <=> Listening(r)) /\ act'[r] = act[r]
  BY <1>1, <1>2 DEF Listening
<1>4. Slotted'
  <2> SUFFICES ASSUME NEW r \in Runs, Listening(r)', permit'[r] = {}
               PROVE  st'[act'[r].id] \in Active /\ cancel'[act'[r].id] = r
    BY DEF Slotted, Unsignalled
  <2>1. CASE r # a
    BY <1>3, <2>1
  <2>2. CASE r = a
    BY <1>1, <2>2 DEF Listening
  <2> QED
    BY <2>1, <2>2
<1>5. \A b \in Actors : b # a => ~Removing(act'[b])
  BY <1>1 DEF Removing, Busy
<1>6. Signalled'
  <2> SUFFICES ASSUME NEW r \in Runs, Removing(g), Listening(r)', act'[r].id = g.id
               PROVE  permit'[r] # {}
    BY <1>1, <1>5 DEF Signalled
  <2>1. r # a
    BY <1>1 DEF Removing, Listening
  <2> QED
    BY <1>3, <2>1
<1>7. \A b \in Actors : b # a => Careful(act[b])'
  BY <1>1 DEF Careful, Busy
<1> QED
  BY <1>4, <1>6, <1>7 DEF StopInv

\* The same when the map does not change and no permit is taken, for an actor
\* that is no listening task and after which nothing is claimed.
Aloof(f) ==
  /\ f.pc \notin {"spawned", "transfer", "report", "forget"}
  /\ f.pc \in {"capacity", "take"} => f.to = "Starting" /\ f.op # "remove"
  /\ f.pc = "unqueue" => f.op # "remove"
  /\ f.pc \in {"unqueue", "move"} => f.to # "Cancelled" \/ f.op \in {"end", "orphan"}
  /\ f.pc \in {"copy", "store", "launch"} => f.to # "Starting"

LEMMA StopGoto ==
  ASSUME TypeOK, LimitInv, StopInv, NEW a \in Actors, NEW g, Goto(a, g), Aloof(g),
         a \in Busy \/ Busy = {}, st' = st, cancel' = cancel,
         \A r \in Runs : r # a /\ permit'[r] = {} => permit[r] = {}
  PROVE  StopInv'
<1>1. act' = [act EXCEPT ![a] = g] /\ act'[a] = g
  BY DEF Goto, TypeOK
<1>2. Careful(act[a])' /\ ~Removing(g)
  BY <1>1 DEF Aloof, Careful, Removing
<1>3. \A r \in Runs : r # a /\ Listening(r) /\ permit'[r] = {} =>
         st'[act[r].id] \in Active /\ cancel'[act[r].id] = r
  BY DEF StopInv, Slotted, Unsignalled
<1>4. ~(g.pc \in {"spawned", "transfer", "report"})
  BY DEF Aloof
<1> QED
  BY <1>1, <1>2, <1>3, <1>4, StopStep

\* An actor that only moves its program counter, and the map stays.
LEMMA StopCounter ==
  ASSUME TypeOK, LimitInv, StopInv, NEW a \in Busy, NEW pc, Step(a, pc),
         pc \notin {"spawned", "transfer", "report"},
         st' = st, cancel' = cancel, permit' = permit,
         \A g : g.pc = pc /\ g.op = act[a].op /\ g.to = act[a].to /\ g.id = act[a].id =>
            Careful(g) /\ (Removing(g) => Removing(act[a]))
  PROVE  StopInv'
<1> a \in Actors
  BY DEF Busy
<1> DEFINE g == [act[a] EXCEPT !.pc = pc]
<1>1. /\ g.pc = pc /\ g.op = act[a].op /\ g.to = act[a].to /\ g.id = act[a].id
      /\ act' = [act EXCEPT ![a] = g] /\ act'[a] = g
  BY DEF TypeOK, Frames, Step
<1> HIDE DEF g
<1>2. Careful(g) /\ (Removing(g) => Removing(act[a]))
  BY <1>1
<1>3. Careful(act[a])'
  BY <1>1, <1>2 DEF Careful
<1>4. \A r \in Runs : r # a /\ Listening(r) /\ permit'[r] = {} =>
         st'[act[r].id] \in Active /\ cancel'[act[r].id] = r
  BY DEF StopInv, Slotted, Unsignalled
<1>5. \A r \in Runs : Removing(g) /\ r # a /\ Listening(r) /\ act[r].id = g.id => permit'[r] # {}
  BY <1>1, <1>2 DEF StopInv, Signalled
<1> QED
  BY <1>1, <1>3, <1>4, <1>5, StopStep

LEMMA RestAloof == Aloof(Loop) /\ \A a : Aloof(Rest(a))
BY RestPc DEF Aloof

\* What follows a transition: a download that is about to be spawned is Starting.
LEMMA StopContinue ==
  ASSUME TypeOK, LimitInv, StopInv, NEW a \in Busy, NEW ok \in BOOLEAN,
         Goto(a, Continue(a, ok)), act[a].pc \in {"copy", "store", "move"},
         act[a].pc = "move" => ~ok, st' = st, cancel' = cancel, permit' = permit
  PROVE  StopInv'
<1> a \in Actors
  BY DEF Busy
<1> DEFINE f == act[a]
<1>1. CASE ok /\ f.to = "Starting"
  <2> DEFINE g == [f EXCEPT !.pc = "launch", !.snap = Absent]
  <2>1. /\ g.pc = "launch" /\ g.to = f.to /\ g.id = f.id
        /\ act' = [act EXCEPT ![a] = g] /\ act'[a] = g
    BY <1>1 DEF Continue, Goto, TypeOK, Frames
  <2> HIDE DEF g
  <2>2. Careful(act[a])' /\ ~Removing(g)
    BY <1>1, <2>1 DEF StopInv, Careful, Removing
  <2>3. \A r \in Runs : r # a /\ Listening(r) /\ permit'[r] = {} =>
           st'[act[r].id] \in Active /\ cancel'[act[r].id] = r
    BY DEF StopInv, Slotted, Unsignalled
  <2> QED
    BY <2>1, <2>2, <2>3, StopStep
<1>2. CASE ~(ok /\ f.to = "Starting")
  <2>1. Aloof(Continue(a, ok))
    <3>1. Frame("push", "requeue", f.id, Absent).pc = "push"
      BY DEF Frame
    <3>2. Aloof(Frame("push", "requeue", f.id, Absent))
      BY <3>1 DEF Aloof
    <3> QED
      BY <1>2, <3>2, RestAloof DEF Continue
  <2> QED
    BY <2>1, StopGoto
<1> QED
  BY <1>1, <1>2

\* Every API call keeps the invariant.
LEMMA CallStop ==
  ASSUME Workers = 1, TypeOK, LimitInv, StopInv, NEW c \in Callers, Call(c)
  PROVE  StopInv'
<1> c \in Actors /\ c \notin Runs
  BY ActorsAssumption DEF Actors
<1> USE DEF map, signals
<1>1. CASE CallShutdown(c)
  BY <1>1 DEF CallShutdown, StopInv, Slotted, Unsignalled, Signalled, Listening, Careful
<1>2. ASSUME NEW id \in Ids, CallRemove(c, id) PROVE StopInv'
  <2> DEFINE g == Frame("unqueue", "remove", id, Absent)
  <2>1. /\ act' = [act EXCEPT ![c] = g] /\ Busy = {} /\ st' = st /\ cancel' = cancel
    BY <1>2, RunsAlone DEF CallRemove, Calls, Goto
  <2>2. g.pc = "unqueue" /\ g.op = "remove" /\ g.id = id /\ g.to = Absent
    BY DEF Frame
  <2> HIDE DEF g
  <2>3. \A r \in Runs : permit'[r] = IF st[id] # Absent /\ cancel[id] = r /\ Listening(r)
                                     THEN permit[r] \cup {"remove"} ELSE permit[r]
    BY <1>2 DEF CallRemove, Notify
  <2>4. \A r \in Runs : Listening(r) /\ permit'[r] = {} =>
           st'[act[r].id] \in Active /\ cancel'[act[r].id] = r
    BY <2>1, <2>3 DEF StopInv, Slotted, Unsignalled
  <2>5. \A r \in Runs : Listening(r) /\ act[r].id = g.id => permit'[r] # {}
    BY <2>2, <2>3 DEF StopInv, Slotted, Unsignalled, Active, Absent
  <2>6. Careful(act[c])'
    <3>1. act'[c] = g
      BY <2>1 DEF TypeOK
    <3> QED
      BY <2>2, <3>1 DEF Careful, Absent
  <2> QED
    BY <2>1, <2>4, <2>5, <2>6, StopStep
<1>3. ASSUME NEW id \in Ids, CallCancelWaiting(c, id) PROVE StopInv'
  <2> DEFINE g == Frame("unqueue", "cancel", id, "Cancelled")
  <2>1. /\ act' = [act EXCEPT ![c] = g] /\ Busy = {} /\ st' = st /\ cancel' = cancel
        /\ permit' = permit /\ st[id] \notin Active
    BY <1>3, RunsAlone DEF CallCancelWaiting, Reads, Calls, Goto, Active
  <2>2. g.pc = "unqueue" /\ g.op = "cancel" /\ g.id = id
    BY DEF Frame
  <2> HIDE DEF g
  <2>3. \A r \in Runs : Listening(r) /\ permit'[r] = {} =>
           st'[act[r].id] \in Active /\ cancel'[act[r].id] = r
    BY <2>1 DEF StopInv, Slotted, Unsignalled
  <2>4. Careful(act[c])'
    <3>1. act'[c] = g
      BY <2>1 DEF TypeOK
    <3> QED
      BY <2>1, <2>2, <3>1 DEF Careful
  <2> QED
    BY <2>1, <2>2, <2>3, <2>4, StopStep DEF Removing
<1>4. ASSUME NEW id \in Ids,
             \/ CallEnqueue(c, id) \/ CallStart(c, id) \/ CallPause(c, id)
             \/ CallResume(c, id) \/ CallRetry(c, id) \/ CallCancelActive(c, id)
      PROVE  StopInv'
  <2>1. Busy = {} /\ st' = st /\ cancel' = cancel /\ permit' = permit
    BY <1>4, RunsAlone DEF CallEnqueue, CallStart, CallPause, CallResume, CallRetry,
       CallCancelActive, Reads, Calls
  <2>2. PICK g : Goto(c, g) /\ Aloof(g)
    <3>1. \A op : /\ \A pc \in {"insert", "intend", "signal"} : \A to :
                        Aloof(Frame(pc, op, id, to))
                  /\ Aloof(Frame("move", op, id, "Queued"))
                  /\ op # "remove" => Aloof(Frame("capacity", op, id, "Starting"))
      BY DEF Frame, Aloof
    <3> QED
      BY <1>4, <3>1 DEF CallEnqueue, CallStart, CallPause, CallResume, CallRetry,
         CallCancelActive, Reads
  <2> QED
    BY <2>1, <2>2, StopGoto
<1> QED
  BY <1>1, <1>2, <1>3, <1>4 DEF Call

\* Every segment keeps the invariant.
LEMMA SegmentStop ==
  ASSUME TypeOK, SlotInv, LimitInv, StopInv, NEW a \in Actors, Segment(a)
  PROVE  StopInv'
<1> DEFINE f == act[a]
<1>0. /\ f \in Frames /\ (f.pc \notin Nameless => f.id \in Ids)
      /\ Target(f) /\ Careful(f)
  BY FrameParts DEF TypeOK, SlotInv, Targets, StopInv
<1>b. a \in Busy
  BY SegmentBusy
<1>s. \A r \in Runs : Listening(r) /\ permit[r] = {} =>
        st[act[r].id] \in Active /\ cancel[act[r].id] = r
  BY DEF StopInv, Slotted, Unsignalled
<1>h. \A r \in Runs : Listening(r) => r \in Actors /\ r # a /\ Holds(r, act[r].id)
  BY SegmentBusy DEF Listening, Holds, Holding, Actors
<1>i. \A r \in Runs : Listening(r) => act[r].id \in Ids
  <2> SUFFICES ASSUME NEW r \in Runs, Listening(r) PROVE act[r].id \in Ids
    OBVIOUS
  <2>1. r \in Actors /\ act[r].pc \notin Nameless
    BY DEF Actors, Listening, Nameless
  <2> QED
    BY <2>1, FrameParts DEF TypeOK
<1> USE RestAloof DEF map, signals
<1>1. CASE Insert(a)
  <2>d. PICK d \in Ids : d = f.id
    BY <1>0, <1>1 DEF Insert, At, Nameless
  <2> DEFINE g == [f EXCEPT !.pc = "push"]
  <2>1. /\ g.pc = "push" /\ act' = [act EXCEPT ![a] = g] /\ f.pc = "insert" /\ permit' = permit
        /\ st' = [st EXCEPT ![d] = "Queued"] /\ cancel' = [cancel EXCEPT ![d] = NoRun]
    BY <1>0, <1>1, <2>d DEF Insert, At, Step, Frames
  <2> HIDE DEF g
  <2>2. \A id \in Ids : id # d => st'[id] = st[id] /\ cancel'[id] = cancel[id]
    BY <2>1 DEF TypeOK
  <2>3. \A r \in Runs : Listening(r) => act[r].id # d
    BY <1>h, <2>d, <2>1 DEF SlotInv, InsertFresh, Inserting
  <2>4. \A r \in Runs : r # a /\ Listening(r) /\ permit'[r] = {} =>
           st'[act[r].id] \in Active /\ cancel'[act[r].id] = r
    BY <1>s, <1>i, <2>1, <2>2, <2>3
  <2>5. Careful(act[a])' /\ ~Removing(g)
    BY <2>1 DEF Careful, Removing, TypeOK
  <2> QED
    BY <1>b, <2>1, <2>4, <2>5, StopStep
<1>2. CASE Push(a)
  BY <1>2, <1>b, StopGoto DEF Push
<1>3. CASE Capacity(a)
  <2>1. f.pc = "capacity" /\ st' = st /\ cancel' = cancel /\ permit' = permit
    BY <1>3 DEF Capacity, At
  <2>2. CASE Goto(a, Rest(a))
    BY <1>b, <2>1, <2>2, StopGoto
  <2>3. CASE Step(a, "unqueue")
    <3> DEFINE g == [f EXCEPT !.pc = "unqueue"]
    <3>1. g.pc = "unqueue" /\ g.op = f.op /\ g.to = f.to /\ Goto(a, g)
      BY <1>0, <2>3 DEF Step, Goto, Frames
    <3> HIDE DEF g
    <3>2. Aloof(g)
      BY <1>0, <2>1, <3>1 DEF Aloof, Careful
    <3> QED
      BY <1>b, <2>1, <3>1, <3>2, StopGoto
  <2> QED
    BY <1>3, <2>2, <2>3 DEF Capacity
<1>4. CASE Unqueue(a)
  <2>1. /\ f.pc = "unqueue" /\ st' = st /\ cancel' = cancel /\ permit' = permit
        /\ Step(a, IF f.op = "remove" THEN "forget" ELSE "move")
    BY <1>4 DEF Unqueue, At
  <2>2. \A g : /\ g.pc = IF f.op = "remove" THEN "forget" ELSE "move"
               /\ g.op = f.op /\ g.to = f.to /\ g.id = f.id
               => Careful(g) /\ (Removing(g) => Removing(f))
    BY <1>0, <2>1 DEF Careful, Removing
  <2> QED
    BY <1>b, <2>1, <2>2, StopCounter
<1>5. CASE Intend(a)
  <2>1. \A g : g.pc = "signal" => Careful(g) /\ ~Removing(g)
    BY DEF Careful, Removing
  <2> QED
    BY <1>5, <1>b, <2>1, StopCounter DEF Intend
<1>6. CASE Signal(a)
  <2>1. \A r \in Runs : permit'[r] = {} => permit[r] = {}
    BY <1>6 DEF Signal, Notify
  <2> QED
    BY <1>6, <1>b, <2>1, StopGoto DEF Signal
<1>7. CASE Forget(a)
  <2>d. PICK d \in Ids : d = f.id
    BY <1>0, <1>7 DEF Forget, At, Nameless
  <2> DEFINE g == [f EXCEPT !.pc = "erase"]
  <2>1. /\ g.pc = "erase" /\ act' = [act EXCEPT ![a] = g] /\ f.pc = "forget" /\ permit' = permit
        /\ st' = [st EXCEPT ![d] = Absent] /\ cancel' = [cancel EXCEPT ![d] = NoRun]
    BY <1>0, <1>7, <2>d DEF Forget, At, Step, Frames
  <2> HIDE DEF g
  <2>2. \A id \in Ids : id # d => st'[id] = st[id] /\ cancel'[id] = cancel[id]
    BY <2>1 DEF TypeOK
  <2>3. \A r \in Runs : Listening(r) /\ permit[r] = {} => act[r].id # d
    BY <1>0, <2>d, <2>1 DEF Careful, Removing, StopInv, Signalled
  <2>4. \A r \in Runs : r # a /\ Listening(r) /\ permit'[r] = {} =>
           st'[act[r].id] \in Active /\ cancel'[act[r].id] = r
    BY <1>s, <1>i, <2>1, <2>2, <2>3
  <2>5. Careful(act[a])' /\ ~Removing(g)
    BY <2>1 DEF Careful, Removing, TypeOK
  <2> QED
    BY <1>b, <2>1, <2>4, <2>5, StopStep
<1>8. CASE Erase(a)
  BY <1>8, <1>b, StopGoto DEF Erase
<1>9. CASE Count(a)
  <2>1. \A g : g.pc = "select" => Careful(g) /\ ~Removing(g)
    BY DEF Careful, Removing
  <2>2. CASE HasRoom
    BY <1>9, <1>b, <2>1, <2>2, StopCounter DEF Count
  <2>3. CASE ~HasRoom
    BY <1>9, <1>b, <2>3, StopGoto DEF Count
  <2> QED
    BY <2>2, <2>3
<1>10. CASE Select(a)
  <2>1. \A id : Aloof(Frame("take", "loop", id, "Starting"))
    BY DEF Frame, Aloof
  <2> QED
    BY <1>10, <1>b, <2>1, StopGoto DEF Select
<1>11. CASE Take(a)
  <2>1. f.pc = "take" /\ f.to = "Starting"
    BY <1>0, <1>11 DEF Take, At, Careful
  <2>2. \A g : g.pc = "move" /\ g.to = f.to => Careful(g) /\ ~Removing(g)
    BY <2>1 DEF Careful, Removing
  <2> QED
    BY <1>11, <1>b, <2>2, StopCounter DEF Take
<1>12. CASE Move(a)
  <2>d. PICK d \in Ids : d = f.id
    BY <1>0, <1>12 DEF Move, At, Nameless
  <2>0. f.pc = "move" /\ cancel' = cancel /\ permit' = permit
    BY <1>12 DEF Move, At
  <2>1. CASE Goto(a, Continue(a, FALSE)) /\ UNCHANGED st
    BY <1>b, <2>0, <2>1, StopContinue
  <2>2. CASE CanTransition(st[d], f.to) /\ st' = [st EXCEPT ![d] = f.to] /\ Step(a, "copy")
    <3> DEFINE g == [f EXCEPT !.pc = "copy"]
    <3>1. /\ g.pc = "copy" /\ g.id = d /\ g.to = f.to /\ act' = [act EXCEPT ![a] = g]
          /\ act'[a] = g
      BY <1>0, <2>d, <2>2 DEF Step, Frames, TypeOK
    <3> HIDE DEF g
    <3>2. st'[d] = f.to /\ \A id \in Ids : id # d => st'[id] = st[id]
      BY <2>2 DEF TypeOK
    <3>3. ASSUME NEW r \in Runs, Listening(r), permit[r] = {} PROVE act[r].id # d
      <4> SUFFICES ASSUME act[r].id = d PROVE FALSE
        OBVIOUS
      <4>1. st[d] \in Active
        BY <1>s, <3>3
      <4>2. ~Holds(a, d)
        BY <1>h, <3>3 DEF SlotInv, OneHolder
      <4>3. f.op \notin {"end", "orphan"}
        BY <2>0, <2>d, <4>2 DEF Holds, Holding
      <4>4. f.to \in {"Queued", "Starting", Absent}
        BY <1>0, <2>0, <2>d, <4>1, <4>3 DEF Target, Careful
      <4> QED
        BY <2>2, <4>1, <4>4 DEF CanTransition, NextStates, Active, States, Absent
    <3>4. \A r \in Runs : r # a /\ Listening(r) /\ permit'[r] = {} =>
             st'[act[r].id] \in Active /\ cancel'[act[r].id] = r
      BY <1>s, <1>i, <2>0, <3>2, <3>3
    <3>5. Careful(act[a])' /\ ~Removing(g)
      BY <3>1, <3>2 DEF Careful, Removing
    <3> QED
      BY <1>b, <3>1, <3>4, <3>5, StopStep
  <2> QED
    BY <1>12, <2>d, <2>1, <2>2 DEF Move
<1>13. CASE Copy(a)
  <2>1. f.pc = "copy" /\ st' = st /\ cancel' = cancel /\ permit' = permit
    BY <1>13 DEF Copy, At
  <2>2. CASE Goto(a, Continue(a, TRUE))
    BY <1>b, <2>1, <2>2, StopContinue
  <2>3. CASE Goto(a, [f EXCEPT !.pc = "store", !.snap = st[f.id]])
    <3> DEFINE g == [f EXCEPT !.pc = "store", !.snap = st[f.id]]
    <3>1. /\ g.pc = "store" /\ g.id = f.id /\ g.to = f.to /\ act' = [act EXCEPT ![a] = g]
          /\ act'[a] = g
      BY <1>0, <2>3 DEF Frames, Goto, TypeOK
    <3> HIDE DEF g
    <3>2. Careful(act[a])' /\ ~Removing(g)
      BY <1>0, <2>1, <3>1 DEF Careful, Removing
    <3> QED
      BY <1>b, <1>s, <2>1, <3>1, <3>2, StopStep
  <2> QED
    BY <1>13, <2>2, <2>3 DEF Copy
<1>14. CASE Store(a)
  <2>1. /\ f.pc = "store" /\ st' = st /\ cancel' = cancel /\ permit' = permit
        /\ \E ok \in BOOLEAN : Goto(a, Continue(a, ok))
    BY <1>14 DEF Store, At
  <2> QED
    BY <1>b, <2>1, StopContinue
<1>15. ASSUME NEW r \in Runs, Launch(a, r) PROVE StopInv'
  <2>d. PICK d \in Ids : d = f.id
    BY <1>0, <1>15 DEF Launch, At, Nameless
  <2> DEFINE g == [f EXCEPT !.pc = "attach", !.run = r]
             h == Frame("spawned", "run", d, Absent)
  <2>1. /\ r # a /\ r \in Actors /\ act' = [act EXCEPT ![a] = g, ![r] = h]
        /\ st' = st /\ permit' = permit /\ f.pc = "launch" /\ act[r].pc = "done"
        /\ st[d] = "Starting"
    BY <1>0, <1>15, <2>d DEF Launch, At, NextFree, Free, Actors, Target, Careful
  <2>2. g.pc = "attach" /\ h.pc = "spawned" /\ h.id = d
    BY <1>0 DEF Frame, Frames
  <2> HIDE DEF g, h
  <2>3. /\ act'[a] = g /\ act'[r] = h
        /\ \A b \in Actors : b # a /\ b # r => act'[b] = act[b] /\ b \notin Busy
    BY <1>b, <2>1 DEF TypeOK, LimitInv, OneBusy
  <2>4. cancel'[d] = r /\ \A id \in Ids : id # d => cancel'[id] = cancel[id]
    BY <1>15, <2>d, <2>1 DEF Launch, TypeOK, Absent
  <2>5. Holds(a, d)
    BY <1>0, <2>d, <2>1 DEF Holds, Holding, Target
  <2>6. \A q \in Runs : Listening(q) => q # r /\ act[q].id # d
    BY <1>h, <2>1, <2>5 DEF SlotInv, OneHolder, Listening
  <2>7. Slotted'
    <3> SUFFICES ASSUME NEW q \in Runs, Listening(q)', permit[q] = {}
                 PROVE  st[act'[q].id] \in Active /\ cancel'[act'[q].id] = q
      BY <2>1 DEF Slotted, Unsignalled
    <3>1. CASE q = r
      BY <2>1, <2>2, <2>3, <2>4, <3>1 DEF Active
    <3>2. CASE q # r
      <4>1. Listening(q) /\ act'[q] = act[q]
        BY <2>2, <2>3, <3>2 DEF Listening, Actors
      <4> QED
        BY <1>s, <1>i, <2>4, <2>6, <4>1
    <3> QED
      BY <3>1, <3>2
  <2>8. Signalled'
    BY <2>2, <2>3 DEF Signalled, Removing, Busy
  <2>9. \A b \in Actors : Careful(act[b])'
    BY <2>2, <2>3 DEF Careful, Busy
  <2> QED
    BY <2>7, <2>8, <2>9 DEF StopInv
<1>16. CASE Attach(a)
  BY <1>16, <1>b, StopGoto DEF Attach
<1> QED
  BY <1>1, <1>2, <1>3, <1>4, <1>5, <1>6, <1>7, <1>8, <1>9, <1>10, <1>11, <1>12,
     <1>13, <1>14, <1>15, <1>16 DEF Segment

\* Every step of a task keeps the invariant: it stays in its slot until it has
\* read its signal.
LEMMA TaskStop ==
  ASSUME Workers = 1, TypeOK, LimitInv, StopInv, NEW r \in Runs, Task(r)
  PROVE  StopInv'
<1> r \in Actors
  BY DEF Actors
<1> DEFINE f == act[r]
<1>s. \A q \in Runs : Listening(q) /\ permit[q] = {} =>
        st[act[q].id] \in Active /\ cancel[act[q].id] = q
  BY DEF StopInv, Slotted, Unsignalled
<1> USE RestAloof DEF map, signals
<1>t. ASSUME NEW g, Goto(r, g), g.pc \in {"transfer", "report"}, g.id = f.id, Listening(r),
             r \in Busy \/ Busy = {}, cancel' = cancel, permit' = permit,
             \A id \in Ids : st[id] \in Active => st'[id] \in Active
      PROVE  StopInv'
  <2>1. act' = [act EXCEPT ![r] = g] /\ act'[r] = g
    BY <1>t DEF Goto, TypeOK
  <2>2. \A q \in Runs : Listening(q) => act[q].id \in Ids
    <3> SUFFICES ASSUME NEW q \in Runs, Listening(q) PROVE act[q].id \in Ids
      OBVIOUS
    <3>1. q \in Actors /\ act[q].pc \notin Nameless
      BY DEF Actors, Listening, Nameless
    <3> QED
      BY <3>1, FrameParts DEF TypeOK
  <2>3. \A q \in Runs : Listening(q) /\ permit'[q] = {} =>
           st'[act[q].id] \in Active /\ cancel'[act[q].id] = q
    BY <1>s, <1>t, <2>2
  <2>4. Careful(act[r])' /\ ~Removing(g)
    BY <1>t, <2>1 DEF Careful, Removing
  <2> QED
    BY <1>t, <2>1, <2>3, <2>4, StopStep
<1>a. ASSUME NEW g, Goto(r, g), Aloof(g), Busy = {}, st' = st, cancel' = cancel,
             permit' = [permit EXCEPT ![r] = {}]
      PROVE  StopInv'
  <2>1. \A q \in Runs : q # r => permit'[q] = permit[q]
    BY <1>a DEF TypeOK
  <2> QED
    BY <1>a, <2>1, StopGoto
<1>m. \A op \in {"end", "orphan"} : \A to : Aloof(Frame("move", op, f.id, to))
  BY DEF Frame, Aloof
<1>i. Transfer(f.id).pc = "transfer" /\ Transfer(f.id).id = f.id
  BY DEF Transfer, Frame
<1>1. CASE RunBegin(r)
  <2>1. Busy = {} /\ st' = st /\ cancel' = cancel /\ Listening(r)
    BY <1>1, RunsAlone DEF RunBegin, Resumes, At, Listening
  <2>2. CASE Goto(r, Transfer(f.id)) /\ UNCHANGED permit
    BY <1>i, <1>t, <2>1, <2>2
  <2>3. CASE /\ Goto(r, IF st[f.id] \in Active
                        THEN Frame("move", "orphan", f.id, "Failed") ELSE Rest(r))
             /\ permit' = [permit EXCEPT ![r] = {}]
    BY <1>a, <1>m, <2>1, <2>3
  <2> QED
    BY <1>1, <2>2, <2>3 DEF RunBegin
<1>2. CASE Progress(r)
  <2> DEFINE g == [Frame("report", "run", f.id, IF st[f.id] = "Starting" THEN "Downloading" ELSE Absent)
                     EXCEPT !.snap = st'[f.id]]
  <2>1. /\ Busy = {} /\ Goto(r, g) /\ cancel' = cancel /\ permit' = permit /\ Listening(r)
        /\ \A id \in Ids : st[id] \in Active => st'[id] \in Active
    BY <1>2, RunsAlone DEF Progress, Resumes, At, Listening, TypeOK, Active
  <2>2. g.pc = "report" /\ g.id = f.id
    BY DEF Frame
  <2> HIDE DEF g
  <2> QED
    BY <1>t, <2>1, <2>2
<1>3. CASE Report(r)
  BY <1>3, <1>i, <1>t DEF Report, At, Busy, Listening
<1>4. CASE FinishOk(r) \/ FinishErr(r)
  <2>1. Busy = {} /\ st' = st /\ cancel' = cancel /\ permit' = [permit EXCEPT ![r] = {}]
    BY <1>4, RunsAlone DEF FinishOk, FinishErr, Resumes
  <2>2. PICK g : Goto(r, g) /\ Aloof(g)
    BY <1>4, <1>m DEF FinishOk, FinishErr
  <2> QED
    BY <1>a, <2>1, <2>2
<1>5. CASE Abort(r)
  <2>1. /\ act' = [act EXCEPT ![r] = Rest(r)] /\ st' = st /\ cancel' = cancel
        /\ permit' = [permit EXCEPT ![r] = {}]
    BY <1>5 DEF Abort, Goto
  <2>2. act'[r].pc \in {"idle", "done"} /\ \A b \in Actors : b # r => act'[b] = act[b]
    BY <2>1, RestPc DEF TypeOK
  <2>3. \A q \in Runs : Listening(q)' =>
           Listening(q) /\ act'[q] = act[q] /\ permit'[q] = permit[q]
    BY <2>1, <2>2 DEF Listening, Actors, TypeOK
  <2>4. Slotted'
    BY <1>s, <2>1, <2>3 DEF Slotted, Unsignalled
  <2>5. Signalled'
    BY <2>2, <2>3 DEF StopInv, Signalled, Removing
  <2>6. \A b \in Actors : Careful(act[b])'
    BY <2>1, <2>2 DEF StopInv, Careful
  <2> QED
    BY <2>4, <2>5, <2>6 DEF StopInv
<1> QED
  BY <1>1, <1>2, <1>3, <1>4, <1>5 DEF Task

\* When nobody is in the middle of anything nothing is claimed.
LEMMA RestingStop ==
  ASSUME \A a \in Actors : act[a].pc \in {"idle", "done"}
  PROVE  StopInv
BY DEF StopInv, Slotted, Unsignalled, Listening, Signalled, Removing, Careful, Actors

LEMMA ReopenStop == ASSUME Reopen PROVE StopInv'
<1>1. \A a \in Actors : act'[a].pc \in {"idle", "done"}
  BY RestPc DEF Reopen
<1> QED
  BY <1>1 DEF StopInv, Slotted, Unsignalled, Listening, Signalled, Removing, Careful, Actors

\* StopInv is inductive.
LEMMA NextStop ==
  ASSUME Workers = 1
  PROVE  TypeOK /\ SlotInv /\ LimitInv /\ StopInv /\ [Next]_vars => StopInv'
<1> SUFFICES ASSUME TypeOK, SlotInv, LimitInv, StopInv, [Next]_vars PROVE StopInv'
  OBVIOUS
<1>1. CASE Next
  BY <1>1, CallStop, SegmentStop, TaskStop, ReopenStop DEF Next
<1>2. CASE UNCHANGED vars
  BY <1>2 DEF vars, StopInv, Slotted, Unsignalled, Listening, Signalled, Removing, Careful
<1> QED
  BY <1>1, <1>2

LEMMA InitStop == Init => StopInv
BY RestPc, RestingStop DEF Init

\* The transfers nobody has signalled have a slot each.
LEMMA StopLimit == TypeOK /\ LimitInv /\ StopInv => OnlyStoppingBeyond
<1> SUFFICES ASSUME TypeOK, LimitInv, StopInv PROVE OnlyStoppingBeyond
  OBVIOUS
<1> DEFINE R == {r \in Runs : Transferring(r) /\ permit[r] = {}}
           slot == [r \in R |-> act[r].id]
<1>1. \A r \in R : act[r].id \in ActiveIds /\ cancel[act[r].id] = r
  <2> SUFFICES ASSUME NEW r \in R PROVE act[r].id \in ActiveIds /\ cancel[act[r].id] = r
    OBVIOUS
  <2>1. Unsignalled(r)
    BY DEF Transferring, Unsignalled, Listening
  <2>2. act[r].id \in Ids
    <3>1. r \in Actors /\ act[r].pc \notin Nameless
      BY DEF Actors, Transferring, Nameless
    <3> QED
      BY <3>1, FrameParts DEF TypeOK
  <2> QED
    BY <2>1, <2>2 DEF StopInv, Slotted, ActiveIds
<1>2. slot \in Injection(R, ActiveIds)
  BY <1>1 DEF Injection, IsInjective
<1>3. IsFiniteSet(R) /\ Cardinality(R) \in Nat
  BY FS_Subset, FS_CardinalityType, ActorsAssumption
<1> HIDE DEF slot
<1>4. Cardinality(R) <= Cardinality(ActiveIds)
  BY <1>2, ActiveFinite, FS_Injection
<1> QED
  BY <1>3, <1>4, ActiveFinite, ConfigAssumption
     DEF LimitInv, LimitRespected, OnlyStoppingBeyond

\* On one thread the transfers that run beyond max_concurrent_downloads have all
\* been told to stop, whatever is removed, cancelled and started meanwhile.
THEOREM BeyondAreStopping ==
  ASSUME Workers = 1
  PROVE  Spec => []OnlyStoppingBeyond
<1>1. Init => TypeOK /\ SlotInv /\ LimitInv /\ StopInv
  BY InitType, InitSlot, InitLimit, InitStop
<1>2. /\ TypeOK /\ SlotInv /\ LimitInv /\ StopInv /\ [Next]_vars
      => (TypeOK /\ SlotInv /\ LimitInv /\ StopInv)'
  BY NextType, NextSlot, NextLimit, NextStop
<1> QED
  BY <1>1, <1>2, StopLimit, PTL DEF Spec


(***************************************************************************)
(* Pause intents.  An intent that outlived its transfer would turn a later *)
(* cancel into a pause; one whose transfer is not told to stop would be a  *)
(* pause that returned Ok and never happens.  On one thread, without       *)
(* shutdown, and with the backends in place, every intent of a transfer    *)
(* that still has its slot comes with its signal.                          *)
(***************************************************************************)

\* An intent is of a download that was in a slot and has not settled into a
\* state from which it could run again.
Intended == \A id \in intents : created[id] # 0 /\ st[id] \notin {"Queued", "Paused", "Failed"}

\* The call that is about to signal the pause of the download.
Pausing(f, id) == f.pc = "signal" /\ f.op = "pause" /\ f.id = id
Answered == \A r \in Runs : Unsignalled(r) /\ act[r].id \in intents =>
              \E a \in Actors : Pausing(act[a], act[r].id)

\* A pause has found a transfer; what is queued, settled so that it can be
\* resumed, spawned or created has no intent.
Minded(f) ==
  /\ f.pc = "intend" => f.op = "pause" /\ st[f.id] \in Active
  /\ f.pc \in {"unqueue", "move"} /\ f.to \in {"Paused", "Failed", "Queued"} => f.id \notin intents
  /\ f.pc \in {"copy", "store", "launch"} /\ f.to = "Starting" => f.id \notin intents
  /\ f.pc = "insert" => f.id \notin intents

Tasks == \A a \in Actors : act[a].pc \in {"spawned", "transfer", "report"} => a \in Runs
IntentInv ==
  detached = {} /\ Intended /\ Answered /\ Tasks /\ \A a \in Actors : Minded(act[a])

\* An actor moves on while nobody else is busy.
LEMMA IntentStep ==
  ASSUME TypeOK, LimitInv, IntentInv, NEW a \in Actors, NEW g, act' = [act EXCEPT ![a] = g],
         a \in Busy \/ Busy = {}, detached' = {}, Intended',
         \A r \in Runs : r # a /\ Listening(r) /\ permit'[r] = {} /\ act[r].id \in intents' =>
            Pausing(g, act[r].id),
         g.pc \in {"spawned", "transfer", "report"} =>
            a \in Runs /\ (permit'[a] = {} => g.id \notin intents'),
         Minded(act[a])'
  PROVE  IntentInv'
<1>1. /\ act'[a] = g
      /\ \A b \in Actors : b # a => act'[b] = act[b] /\ b \notin Busy
  BY BusyStep DEF LimitInv
<1>2. Answered'
  <2> SUFFICES ASSUME NEW r \in Runs, Listening(r)', permit'[r] = {}, act'[r].id \in intents'
               PROVE  \E b \in Actors : Pausing(act'[b], act'[r].id)
    BY DEF Answered, Unsignalled
  <2>1. CASE r # a
    <3>1. act'[r] = act[r] /\ Listening(r)
      BY <1>1, <2>1 DEF Listening, Actors
    <3> QED
      BY <1>1, <2>1, <3>1
  <2>2. CASE r = a
    BY <1>1, <2>2 DEF Listening
  <2> QED
    BY <2>1, <2>2
<1>3. Tasks'
  BY <1>1 DEF IntentInv, Tasks
<1>4. \A b \in Actors : Minded(act[b])'
  BY <1>1 DEF Minded, Busy
<1> QED
  BY <1>2, <1>3, <1>4 DEF IntentInv

\* Nobody but the call that signals leaves an unanswered intent behind.
LEMMA NoneUnanswered ==
  ASSUME TypeOK, LimitInv, IntentInv, NEW a \in Actors, a \in Busy \/ Busy = {},
         act[a].pc # "signal"
  PROVE  \A r \in Runs : Listening(r) /\ permit[r] = {} => act[r].id \notin intents
<1>1. \A b \in Actors, id \in Ids : ~Pausing(act[b], id)
  BY DEF Pausing, LimitInv, OneBusy, Busy
<1>2. \A r \in Runs : Listening(r) => act[r].id \in Ids
  <2> SUFFICES ASSUME NEW r \in Runs, Listening(r) PROVE act[r].id \in Ids
    OBVIOUS
  <2>1. r \in Actors /\ act[r].pc \notin Nameless
    BY DEF Actors, Listening, Nameless
  <2> QED
    BY <2>1, FrameParts DEF TypeOK
<1> QED
  BY <1>1, <1>2 DEF IntentInv, Answered, Unsignalled

\* The same when the map and the intents do not change and no permit is taken,
\* for an actor that is no task and that nothing is known of afterwards.
Mindless(f) ==
  /\ f.pc \notin {"spawned", "transfer", "report", "insert", "intend"}
  /\ f.pc \in {"unqueue", "move"} => f.to \notin {"Paused", "Failed", "Queued"}
  /\ f.pc \in {"copy", "store", "launch"} => f.to # "Starting"

LEMMA IntentGoto ==
  ASSUME TypeOK, LimitInv, IntentInv, NEW a \in Actors, NEW g, Goto(a, g), Mindless(g),
         a \in Busy \/ Busy = {}, act[a].pc # "signal",
         st' = st, created' = created, intents' = intents, detached' = detached,
         \A r \in Runs : r # a /\ permit'[r] = {} => permit[r] = {}
  PROVE  IntentInv'
<1>1. act' = [act EXCEPT ![a] = g] /\ act'[a] = g
  BY DEF Goto, TypeOK
<1>2. Minded(act[a])' /\ g.pc \notin {"spawned", "transfer", "report"}
  BY <1>1 DEF Mindless, Minded
<1>3. Intended' /\ detached' = {}
  BY DEF IntentInv, Intended
<1>4. \A r \in Runs : r # a /\ Listening(r) /\ permit'[r] = {} /\ act[r].id \in intents' =>
         Pausing(g, act[r].id)
  BY NoneUnanswered
<1> QED
  BY <1>1, <1>2, <1>3, <1>4, IntentStep

\* An actor that only moves its program counter.
LEMMA IntentCounter ==
  ASSUME TypeOK, LimitInv, IntentInv, NEW a \in Actors, NEW pc, Step(a, pc), a \in Busy,
         act[a].pc # "signal",
         \A g : g.pc = pc /\ g.op = act[a].op /\ g.to = act[a].to => Mindless(g),
         st' = st, created' = created, intents' = intents, detached' = detached, permit' = permit
  PROVE  IntentInv'
<1> DEFINE g == [act[a] EXCEPT !.pc = pc]
<1>1. g.pc = pc /\ g.op = act[a].op /\ g.to = act[a].to /\ Goto(a, g)
  BY DEF TypeOK, Frames, Step, Goto
<1> HIDE DEF g
<1>2. Mindless(g)
  BY <1>1
<1> QED
  BY <1>1, <1>2, IntentGoto

LEMMA RestMindless == Mindless(Loop) /\ \A a : Mindless(Rest(a))
BY RestPc DEF Mindless

\* What follows a transition: a download that is about to be spawned has no intent.
LEMMA IntentContinue ==
  ASSUME TypeOK, LimitInv, IntentInv, NEW a \in Busy, NEW ok \in BOOLEAN,
         Goto(a, Continue(a, ok)), act[a].pc \in {"copy", "store", "move"},
         act[a].pc = "move" => ~ok,
         st' = st, created' = created, intents' = intents, detached' = detached, permit' = permit
  PROVE  IntentInv'
<1> a \in Actors
  BY DEF Busy
<1> DEFINE f == act[a]
<1>1. CASE ok /\ f.to = "Starting"
  <2> DEFINE g == [f EXCEPT !.pc = "launch", !.snap = Absent]
  <2>1. /\ g.pc = "launch" /\ g.to = f.to /\ g.id = f.id
        /\ act' = [act EXCEPT ![a] = g] /\ act'[a] = g
    BY <1>1 DEF Continue, Goto, TypeOK, Frames
  <2> HIDE DEF g
  <2>2. Minded(act[a])'
    BY <1>1, <2>1 DEF IntentInv, Minded
  <2>3. Intended' /\ detached' = {}
    BY DEF IntentInv, Intended
  <2>4. \A r \in Runs : r # a /\ Listening(r) /\ permit'[r] = {} /\ act[r].id \in intents' =>
           Pausing(g, act[r].id)
    BY NoneUnanswered
  <2> QED
    BY <2>1, <2>2, <2>3, <2>4, IntentStep
<1>2. CASE ~(ok /\ f.to = "Starting")
  <2>1. Mindless(Continue(a, ok))
    <3>1. Mindless(Frame("push", "requeue", f.id, Absent))
      BY DEF Frame, Mindless
    <3> QED
      BY <1>2, <3>1, RestMindless DEF Continue
  <2> QED
    BY <2>1, IntentGoto
<1> QED
  BY <1>1, <1>2

\* Every API call keeps the invariant.
LEMMA CallIntent ==
  ASSUME Workers = 1, "shutdown" \notin Ops, TypeOK, LimitInv, IntentInv, NEW c \in Callers, Call(c)
  PROVE  IntentInv'
<1> c \in Actors
  BY DEF Actors
<1> USE DEF map, signals, disk
<1>0. /\ Busy = {} /\ act[c].pc = "idle" /\ ~CallShutdown(c)
      /\ st' = st /\ intents' = intents /\ detached' = detached
  BY RunsAlone DEF Call, CallEnqueue, CallStart, CallPause, CallResume, CallRetry,
     CallCancelActive, CallCancelWaiting, CallRemove, CallShutdown, Reads, Calls, At
<1>u. \A r \in Runs : Listening(r) /\ permit[r] = {} => act[r].id \notin intents
  BY <1>0, NoneUnanswered
<1>g. ASSUME NEW g, Goto(c, g), permit' = permit, created' = created \/ Intended',
             g.pc \notin {"spawned", "transfer", "report"}, Minded(g)
      PROVE  IntentInv'
  <2>1. act' = [act EXCEPT ![c] = g] /\ act'[c] = g
    BY <1>g DEF Goto, TypeOK
  <2>2. Minded(act[c])'
    BY <1>0, <1>g, <2>1 DEF Minded
  <2>3. Intended' /\ detached' = {}
    BY <1>0, <1>g DEF IntentInv, Intended
  <2> QED
    BY <1>0, <1>g, <1>u, <2>1, <2>2, <2>3, IntentStep
<1>1. ASSUME NEW id \in Ids, CallEnqueue(c, id) PROVE IntentInv'
  <2> DEFINE g == Frame("insert", "enqueue", id, Absent)
  <2>1. /\ Goto(c, g) /\ permit' = permit /\ created[id] = 0
        /\ created' = [created EXCEPT ![id] = Now]
    BY <1>1 DEF CallEnqueue
  <2>2. g.pc = "insert" /\ g.id = id
    BY DEF Frame
  <2> HIDE DEF g
  <2>3. id \notin intents /\ Minded(g)
    BY <2>1, <2>2 DEF IntentInv, Intended, Minded
  <2>4. Intended'
    BY <1>0, <2>1, <2>3 DEF IntentInv, Intended, TypeOK
  <2> QED
    BY <1>g, <2>1, <2>2, <2>3, <2>4
<1>2. ASSUME NEW id \in Ids, CallPause(c, id) PROVE IntentInv'
  <2> DEFINE g == Frame("intend", "pause", id, Absent)
  <2>1. Goto(c, g) /\ permit' = permit /\ created' = created /\ st[id] \in Active
    BY <1>2 DEF CallPause, Reads
  <2>2. g.pc = "intend" /\ g.op = "pause" /\ g.id = id
    BY DEF Frame
  <2> HIDE DEF g
  <2> QED
    BY <1>g, <2>1, <2>2 DEF Minded
<1>3. ASSUME NEW id \in Ids, CallResume(c, id) \/ CallRetry(c, id) PROVE IntentInv'
  <2> DEFINE g == Frame("move", "requeue", id, "Queued")
  <2>1. Goto(c, g) /\ permit' = permit /\ created' = created /\ st[id] \in {"Paused", "Failed"}
    BY <1>3 DEF CallResume, CallRetry, Reads
  <2>2. g.pc = "move" /\ g.id = id
    BY DEF Frame
  <2> HIDE DEF g
  <2>3. id \notin intents
    BY <2>1 DEF IntentInv, Intended
  <2> QED
    BY <1>g, <2>1, <2>2, <2>3 DEF Minded
<1>4. ASSUME NEW id \in Ids,
             CallStart(c, id) \/ CallCancelActive(c, id) \/ CallCancelWaiting(c, id) \/ CallRemove(c, id)
      PROVE  IntentInv'
  <2>1. /\ created' = created
        /\ \A r \in Runs : permit'[r] = {} => permit[r] = {}
    BY <1>4 DEF CallStart, CallCancelActive, CallCancelWaiting, CallRemove, Reads, Notify
  <2>2. PICK g : Goto(c, g) /\ Mindless(g)
    <3>1. \A op : /\ Mindless(Frame("capacity", op, id, "Starting"))
                  /\ Mindless(Frame("signal", op, id, Absent))
                  /\ Mindless(Frame("unqueue", op, id, "Cancelled"))
                  /\ Mindless(Frame("unqueue", op, id, Absent))
      BY DEF Frame, Mindless, Absent
    <3> QED
      BY <1>4, <3>1 DEF CallStart, CallCancelActive, CallCancelWaiting, CallRemove, Reads
  <2> QED
    BY <1>0, <2>1, <2>2, IntentGoto
<1> QED
  BY <1>0, <1>1, <1>2, <1>3, <1>4 DEF Call

\* Every segment keeps the invariant.  The signal of a pause finds the Notify of
\* every transfer of its download that nobody has signalled.
LEMMA SegmentIntent ==
  ASSUME TypeOK, SlotInv, LimitInv, StopInv, IntentInv, NEW a \in Actors, Segment(a)
  PROVE  IntentInv'
<1> DEFINE f == act[a]
<1>0. /\ f \in Frames /\ (f.pc \notin Nameless => f.id \in Ids)
      /\ Target(f) /\ Careful(f) /\ Minded(f)
  BY FrameParts DEF TypeOK, SlotInv, Targets, StopInv, IntentInv
<1>b. a \in Busy /\ f.pc \notin {"spawned", "transfer", "report"}
  BY SegmentBusy
<1>d. detached = {} /\ Intended
  BY DEF IntentInv
<1>u. f.pc # "signal" => \A r \in Runs : Listening(r) /\ permit[r] = {} => act[r].id \notin intents
  BY <1>b, NoneUnanswered
<1>i. \A r \in Runs : Listening(r) => r \in Actors /\ act[r].id \in Ids
  <2> SUFFICES ASSUME NEW r \in Runs, Listening(r) PROVE r \in Actors /\ act[r].id \in Ids
    OBVIOUS
  <2>1. r \in Actors /\ act[r].pc \notin Nameless
    BY DEF Actors, Listening, Nameless
  <2> QED
    BY <2>1, FrameParts DEF TypeOK
<1> USE RestMindless DEF map, signals, disk
<1>1. CASE Insert(a)
  <2>d. PICK d \in Ids : d = f.id
    BY <1>0, <1>1 DEF Insert, At, Nameless
  <2> DEFINE g == [f EXCEPT !.pc = "push"]
  <2>1. /\ g.pc = "push" /\ act' = [act EXCEPT ![a] = g] /\ act'[a] = g /\ f.pc = "insert"
        /\ permit' = permit /\ intents' = intents /\ detached' = detached /\ created' = created
        /\ st' = [st EXCEPT ![d] = "Queued"] /\ d \notin intents
    BY <1>0, <1>1, <2>d DEF Insert, At, Step, Frames, Minded, TypeOK
  <2> HIDE DEF g
  <2>2. Intended'
    BY <1>d, <2>1 DEF Intended, TypeOK
  <2>3. Minded(act[a])'
    BY <2>1 DEF Minded
  <2> QED
    BY <1>b, <1>d, <1>u, <2>1, <2>2, <2>3, IntentStep
<1>2. CASE Push(a)
  BY <1>2, <1>b, IntentGoto DEF Push, At
<1>3. CASE Capacity(a)
  <2>1. \A g : g.pc = "unqueue" /\ g.to = f.to => Mindless(g)
    BY <1>0, <1>3 DEF Capacity, At, Careful, Mindless
  <2>2. CASE HasRoom
    BY <1>3, <1>b, <2>1, <2>2, IntentCounter DEF Capacity, At
  <2>3. CASE ~HasRoom
    BY <1>3, <1>b, <2>3, IntentGoto DEF Capacity, At
  <2> QED
    BY <2>2, <2>3
<1>4. CASE Unqueue(a)
  <2> DEFINE pc == IF f.op = "remove" THEN "forget" ELSE "move"
             g == [f EXCEPT !.pc = pc]
  <2>1. /\ f.pc = "unqueue" /\ g.pc = pc /\ g.op = f.op /\ g.to = f.to /\ g.id = f.id
        /\ act' = [act EXCEPT ![a] = g] /\ act'[a] = g
        /\ st' = st /\ intents' = intents /\ detached' = detached /\ created' = created
        /\ permit' = permit
    BY <1>0, <1>4 DEF Unqueue, At, Step, Frames, TypeOK
  <2>p. pc \in {"forget", "move"}
    OBVIOUS
  <2> HIDE DEF g, pc
  <2>2. Minded(act[a])'
    BY <1>0, <2>1, <2>p DEF Minded
  <2>3. Intended'
    BY <1>d, <2>1 DEF Intended
  <2> QED
    BY <1>b, <1>d, <1>u, <2>1, <2>p, <2>2, <2>3, IntentStep
<1>5. CASE Intend(a)
  <2>d. PICK d \in Ids : d = f.id
    BY <1>0, <1>5 DEF Intend, At, Nameless
  <2> DEFINE g == [f EXCEPT !.pc = "signal"]
  <2>1. /\ g.pc = "signal" /\ g.op = f.op /\ g.id = d /\ act' = [act EXCEPT ![a] = g]
        /\ act'[a] = g /\ f.pc = "intend" /\ st' = st /\ created' = created
        /\ detached' = detached /\ permit' = permit /\ intents' = intents \cup {d}
    BY <1>0, <1>5, <2>d DEF Intend, At, Step, Frames, TypeOK
  <2> HIDE DEF g
  <2>2. f.op = "pause" /\ st[d] \in Active
    BY <1>0, <2>d, <2>1 DEF Minded
  <2>3. created[d] # 0
    BY <2>2 DEF SlotInv, Uncreated, Active, Absent
  <2>4. Intended'
    BY <1>d, <2>1, <2>2, <2>3 DEF Intended, Active
  <2>5. Minded(act[a])'
    BY <2>1 DEF Minded
  <2>6. \A r \in Runs : Listening(r) /\ permit'[r] = {} /\ act[r].id \in intents' =>
           Pausing(g, act[r].id)
    BY <1>u, <2>1, <2>2 DEF Pausing
  <2> QED
    BY <1>b, <1>d, <2>1, <2>4, <2>5, <2>6, IntentStep
<1>6. CASE Signal(a)
  <2>d. PICK d \in Ids : d = f.id
    BY <1>0, <1>6 DEF Signal, At, Nameless
  <2>1. /\ act' = [act EXCEPT ![a] = Rest(a)] /\ act'[a] = Rest(a) /\ f.pc = "signal"
        /\ st' = st /\ created' = created /\ detached' = detached /\ intents' = intents
    BY <1>6 DEF Signal, At, Goto, TypeOK
  <2>2. \A r \in Runs : permit'[r] = IF st[d] # Absent /\ cancel[d] = r /\ Listening(r)
                                     THEN permit[r] \cup {f.op} ELSE permit[r]
    BY <1>6, <2>d DEF Signal, Notify
  <2>3. ASSUME NEW r \in Runs, Listening(r), permit'[r] = {}, act[r].id \in intents
        PROVE  FALSE
    <3>1. Unsignalled(r)
      BY <2>2, <2>3 DEF Unsignalled
    <3>2. act[r].id # d
      BY <2>2, <2>3, <3>1 DEF StopInv, Slotted, Active, Absent
    <3>3. PICK b \in Actors : Pausing(act[b], act[r].id)
      BY <2>3, <3>1 DEF IntentInv, Answered
    <3>4. b = a
      BY <1>b, <3>3 DEF Pausing, Busy, LimitInv, OneBusy
    <3> QED
      BY <2>d, <3>2, <3>3, <3>4 DEF Pausing
  <2>4. Intended'
    BY <1>d, <2>1 DEF Intended
  <2>5. Rest(a).pc \in {"idle", "done"} /\ Minded(act[a])'
    BY <2>1, RestPc DEF Minded
  <2> QED
    BY <1>b, <1>d, <2>1, <2>3, <2>4, <2>5, IntentStep
<1>7. CASE Forget(a)
  <2>d. PICK d \in Ids : d = f.id
    BY <1>0, <1>7 DEF Forget, At, Nameless
  <2> DEFINE g == [f EXCEPT !.pc = "erase"]
  <2>1. /\ g.pc = "erase" /\ act' = [act EXCEPT ![a] = g] /\ act'[a] = g /\ f.pc = "forget"
        /\ permit' = permit /\ intents' = intents /\ detached' = detached /\ created' = created
        /\ st' = [st EXCEPT ![d] = Absent]
    BY <1>0, <1>7, <2>d DEF Forget, At, Step, Frames, TypeOK
  <2> HIDE DEF g
  <2>2. Intended'
    BY <1>d, <2>1 DEF Intended, TypeOK, Absent
  <2>3. Minded(act[a])'
    BY <2>1 DEF Minded
  <2> QED
    BY <1>b, <1>d, <1>u, <2>1, <2>2, <2>3, IntentStep
<1>8. CASE Erase(a)
  BY <1>8, <1>b, IntentGoto DEF Erase, At
<1>9. CASE Count(a)
  <2>1. \A g : g.pc = "select" => Mindless(g)
    BY DEF Mindless
  <2>2. CASE HasRoom
    BY <1>9, <1>b, <2>1, <2>2, IntentCounter DEF Count, At
  <2>3. CASE ~HasRoom
    BY <1>9, <1>b, <2>3, IntentGoto DEF Count, At
  <2> QED
    BY <2>2, <2>3
<1>10. CASE Select(a)
  <2>1. \A id : Mindless(Frame("take", "loop", id, "Starting"))
    BY DEF Frame, Mindless
  <2> QED
    BY <1>10, <1>b, <2>1, IntentGoto DEF Select, At
<1>11. CASE Take(a)
  <2>1. \A g : g.pc = "move" /\ g.to = f.to => Mindless(g)
    BY <1>0, <1>11 DEF Take, At, Careful, Mindless
  <2> QED
    BY <1>11, <1>b, <2>1, IntentCounter DEF Take, At
<1>12. CASE Move(a)
  <2>d. PICK d \in Ids : d = f.id
    BY <1>0, <1>12 DEF Move, At, Nameless
  <2>0. /\ f.pc = "move" /\ created' = created /\ intents' = intents /\ detached' = detached
        /\ permit' = permit
    BY <1>12 DEF Move, At
  <2>1. CASE Goto(a, Continue(a, FALSE)) /\ UNCHANGED st
    BY <1>b, <2>0, <2>1, IntentContinue
  <2>2. CASE CanTransition(st[d], f.to) /\ st' = [st EXCEPT ![d] = f.to] /\ Step(a, "copy")
    <3> DEFINE g == [f EXCEPT !.pc = "copy"]
    <3>1. /\ g.pc = "copy" /\ g.id = d /\ g.to = f.to /\ act' = [act EXCEPT ![a] = g]
          /\ act'[a] = g
      BY <1>0, <2>d, <2>2 DEF Step, Frames, TypeOK
    <3> HIDE DEF g
    <3>2. f.to \in {"Queued", "Paused", "Failed"} => d \notin intents
      BY <1>0, <2>0, <2>d DEF Minded
    <3>3. f.to = "Starting" => d \notin intents
      <4>1. f.to = "Starting" => st[d] = "Queued"
        BY <2>2 DEF CanTransition, NextStates, States, Absent, TypeOK
      <4> QED
        BY <1>d, <4>1 DEF Intended
    <3>4. Intended'
      BY <1>d, <2>0, <2>2, <3>2 DEF Intended, TypeOK
    <3>5. Minded(act[a])'
      BY <2>0, <3>1, <3>3 DEF Minded
    <3> QED
      BY <1>b, <1>d, <1>u, <2>0, <3>1, <3>4, <3>5, IntentStep
  <2> QED
    BY <1>12, <2>d, <2>1, <2>2 DEF Move
<1>13. CASE Copy(a)
  <2>1. /\ f.pc = "copy" /\ st' = st /\ created' = created /\ intents' = intents
        /\ detached' = detached /\ permit' = permit
    BY <1>13 DEF Copy, At
  <2>2. CASE Goto(a, Continue(a, TRUE))
    BY <1>b, <2>1, <2>2, IntentContinue
  <2>3. CASE Goto(a, [f EXCEPT !.pc = "store", !.snap = st[f.id]])
    <3> DEFINE g == [f EXCEPT !.pc = "store", !.snap = st[f.id]]
    <3>1. /\ g.pc = "store" /\ g.id = f.id /\ g.to = f.to /\ act' = [act EXCEPT ![a] = g]
          /\ act'[a] = g
      BY <1>0, <2>3 DEF Frames, Goto, TypeOK
    <3> HIDE DEF g
    <3>2. Minded(act[a])'
      BY <1>0, <2>1, <3>1 DEF Minded
    <3>3. Intended'
      BY <1>d, <2>1 DEF Intended
    <3> QED
      BY <1>b, <1>d, <1>u, <2>1, <3>1, <3>2, <3>3, IntentStep
  <2> QED
    BY <1>13, <2>2, <2>3 DEF Copy
<1>14. CASE Store(a)
  <2>1. /\ f.pc = "store" /\ st' = st /\ created' = created /\ intents' = intents
        /\ detached' = detached /\ permit' = permit
        /\ \E ok \in BOOLEAN : Goto(a, Continue(a, ok))
    BY <1>14 DEF Store, At
  <2> QED
    BY <1>b, <2>1, IntentContinue
<1>15. ASSUME NEW r \in Runs, Launch(a, r) PROVE IntentInv'
  <2>d. PICK d \in Ids : d = f.id
    BY <1>0, <1>15 DEF Launch, At, Nameless
  <2> DEFINE g == [f EXCEPT !.pc = "attach", !.run = r]
             h == Frame("spawned", "run", d, Absent)
  <2>1. /\ r # a /\ r \in Actors /\ act' = [act EXCEPT ![a] = g, ![r] = h]
        /\ st' = st /\ permit' = permit /\ f.pc = "launch" /\ act[r].pc = "done"
        /\ intents' = intents /\ created' = created /\ detached' = detached
    BY <1>15, <2>d DEF Launch, At, NextFree, Free, Actors
  <2>2. g.pc = "attach" /\ h.pc = "spawned" /\ h.id = d
    BY <1>0 DEF Frame, Frames
  <2> HIDE DEF g, h
  <2>3. /\ act'[a] = g /\ act'[r] = h
        /\ \A b \in Actors : b # a /\ b # r => act'[b] = act[b] /\ b \notin Busy
    BY <1>b, <2>1 DEF TypeOK, LimitInv, OneBusy
  <2>4. d \notin intents
    BY <1>0, <2>d, <2>1 DEF Minded, Target
  <2>5. Answered'
    <3> SUFFICES ASSUME NEW q \in Runs, Listening(q)', permit[q] = {}, act'[q].id \in intents
                 PROVE  FALSE
      BY <2>1 DEF Answered, Unsignalled
    <3>1. CASE q = r
      BY <2>2, <2>3, <2>4, <3>1
    <3>2. CASE q # r
      <4>1. Listening(q) /\ act'[q] = act[q]
        BY <2>2, <2>3, <3>2 DEF Listening, Actors
      <4> QED
        BY <1>u, <2>1, <4>1
    <3> QED
      BY <3>1, <3>2
  <2>6. Tasks'
    BY <2>2, <2>3 DEF IntentInv, Tasks
  <2>7. \A b \in Actors : Minded(act[b])'
    BY <2>2, <2>3 DEF Minded, Busy
  <2>8. Intended' /\ detached' = {}
    BY <1>d, <2>1 DEF Intended
  <2> QED
    BY <2>5, <2>6, <2>7, <2>8 DEF IntentInv
<1>16. CASE Attach(a)
  BY <1>16, <1>b, IntentGoto DEF Attach, At
<1> QED
  BY <1>1, <1>2, <1>3, <1>4, <1>5, <1>6, <1>7, <1>8, <1>9, <1>10, <1>11, <1>12,
     <1>13, <1>14, <1>15, <1>16 DEF Segment

\* Every step of a task keeps the invariant: a transfer that fails takes its
\* intent out before it settles.
LEMMA TaskIntent ==
  ASSUME Workers = 1, TypeOK, LimitInv, HeldInv, IntentInv, NEW r \in Runs, Task(r)
  PROVE  IntentInv'
<1> r \in Actors
  BY DEF Actors
<1> DEFINE f == act[r]
<1>a. ~Abort(r)
  BY DEF Abort, HeldInv
<1>0. /\ r \in Busy \/ Busy = {}
      /\ Listening(r) /\ f.pc # "signal"
      /\ created' = created /\ detached' = detached
  BY <1>a, RunsAlone DEF Task, RunBegin, Progress, Report, FinishOk, FinishErr, Resumes, At,
     Listening, Busy, map, disk
<1>1. Listening(r) /\ f.pc # "signal" /\ f.id \in Ids
  <2>1. f.pc \in {"spawned", "transfer", "report"}
    BY <1>a DEF Task, RunBegin, Progress, Report, FinishOk, FinishErr, Resumes, At
  <2> QED
    BY <2>1, FrameParts DEF Listening, Nameless, TypeOK
<1>u. \A q \in Runs : Listening(q) /\ permit[q] = {} => act[q].id \notin intents
  BY <1>0, <1>1, NoneUnanswered
<1>d. detached = {} /\ Intended
  BY DEF IntentInv
<1> USE RestMindless DEF map, signals, disk
<1>t. ASSUME NEW g, Goto(r, g), g.pc \in {"transfer", "report"}, g.id = f.id,
             permit' = permit, intents' = intents, Intended'
      PROVE  IntentInv'
  <2>1. act' = [act EXCEPT ![r] = g] /\ act'[r] = g
    BY <1>t DEF Goto, TypeOK
  <2>2. Minded(act[r])'
    BY <1>t, <2>1 DEF Minded
  <2> QED
    BY <1>0, <1>1, <1>d, <1>t, <1>u, <2>1, <2>2, IntentStep
<1>m. ASSUME NEW op, NEW to, Goto(r, Frame("move", op, f.id, to)), st' = st,
             permit' = [permit EXCEPT ![r] = {}],
             to \in {"Paused", "Failed", "Queued"} => f.id \notin intents',
             intents' \subseteq intents
      PROVE  IntentInv'
  <2> DEFINE g == Frame("move", op, f.id, to)
  <2>1. /\ act' = [act EXCEPT ![r] = g] /\ act'[r] = g
        /\ g.pc = "move" /\ g.id = f.id /\ g.to = to
    BY <1>m DEF Goto, TypeOK, Frame
  <2> HIDE DEF g
  <2>2. Minded(act[r])'
    BY <1>m, <2>1 DEF Minded
  <2>3. Intended'
    BY <1>0, <1>d, <1>m DEF Intended
  <2>4. \A q \in Runs : q # r => permit'[q] = permit[q]
    BY <1>m DEF TypeOK
  <2>5. \A q \in Runs : q # r /\ Listening(q) /\ permit'[q] = {} /\ act[q].id \in intents' =>
           Pausing(g, act[q].id)
    BY <1>m, <1>u, <2>4
  <2> QED
    BY <1>0, <1>d, <2>1, <2>2, <2>3, <2>5, IntentStep
<1>i. Transfer(f.id).pc = "transfer" /\ Transfer(f.id).id = f.id
  BY DEF Transfer, Frame
<1>2. CASE RunBegin(r)
  <2>1. st' = st /\ intents' = intents /\ Intended'
    BY <1>0, <1>2, <1>d DEF RunBegin, Intended
  <2>2. CASE Goto(r, Transfer(f.id)) /\ UNCHANGED permit
    BY <1>i, <1>t, <2>1, <2>2
  <2>3. CASE Goto(r, Rest(r)) /\ permit' = [permit EXCEPT ![r] = {}]
    <3>1. \A q \in Runs : q # r => permit'[q] = permit[q]
      BY <2>3 DEF TypeOK
    <3> QED
      BY <1>0, <1>1, <2>1, <2>3, <3>1, IntentGoto
  <2> QED
    BY <1>2, <1>d, <2>2, <2>3 DEF RunBegin
<1>3. CASE Progress(r)
  <2> DEFINE g == [Frame("report", "run", f.id, IF st[f.id] = "Starting" THEN "Downloading" ELSE Absent)
                     EXCEPT !.snap = st'[f.id]]
  <2>1. Goto(r, g) /\ permit' = permit /\ intents' = intents
    BY <1>3 DEF Progress
  <2>2. \A id \in Ids : st'[id] = st[id] \/ st'[id] = "Downloading"
    BY <1>3 DEF Progress, TypeOK
  <2>3. Intended'
    BY <1>0, <1>d, <2>1, <2>2 DEF Intended, TypeOK
  <2>4. g.pc = "report" /\ g.id = f.id
    BY DEF Frame
  <2> HIDE DEF g
  <2> QED
    BY <1>t, <2>1, <2>3, <2>4
<1>4. CASE Report(r)
  <2>1. Goto(r, Transfer(f.id)) /\ permit' = permit /\ intents' = intents /\ Intended'
    BY <1>0, <1>4, <1>d DEF Report, Intended
  <2> QED
    BY <1>i, <1>t, <2>1
<1>5. CASE FinishOk(r)
  BY <1>5, <1>m DEF FinishOk
<1>6. CASE FinishErr(r)
  <2>1. /\ st' = st /\ permit' = [permit EXCEPT ![r] = {}] /\ intents' = intents \ {f.id}
        /\ \E to : Goto(r, Frame("move", "end", f.id, to))
    BY <1>6 DEF FinishErr, Consumed
  <2> QED
    BY <1>m, <2>1
<1> QED
  BY <1>2, <1>3, <1>4, <1>5, <1>6, <1>a DEF Task

\* A restart forgets every intent.
LEMMA ReopenIntent ==
  ASSUME Detachable = {}, Reopen
  PROVE  IntentInv'
<1>1. /\ \A a \in Actors : act'[a].pc \in {"idle", "done"}
      /\ intents' = {} /\ detached' = {}
  BY RestPc DEF Reopen
<1> QED
  BY <1>1 DEF IntentInv, Intended, Answered, Unsignalled, Listening, Tasks, Minded, Actors

\* IntentInv is inductive.
LEMMA NextIntent ==
  ASSUME Workers = 1, "shutdown" \notin Ops, Detachable = {}
  PROVE  /\ TypeOK /\ SlotInv /\ LimitInv /\ StopInv /\ HeldInv /\ IntentInv /\ [Next]_vars
         => IntentInv'
<1> SUFFICES ASSUME TypeOK, SlotInv, LimitInv, StopInv, HeldInv, IntentInv, [Next]_vars
             PROVE  IntentInv'
  OBVIOUS
<1>1. CASE Next
  BY <1>1, CallIntent, SegmentIntent, TaskIntent, ReopenIntent DEF Next
<1>2. CASE UNCHANGED vars
  BY <1>2 DEF vars, IntentInv, Intended, Answered, Unsignalled, Listening, Tasks, Minded
<1> QED
  BY <1>1, <1>2

LEMMA InitIntent == Init => IntentInv
<1> SUFFICES ASSUME Init PROVE IntentInv
  OBVIOUS
<1>1. /\ \A a \in Actors : act[a].pc \in {"idle", "done"}
      /\ intents = {} /\ detached = {}
  BY RestPc DEF Init
<1> QED
  BY <1>1 DEF IntentInv, Intended, Answered, Unsignalled, Listening, Tasks, Minded, Actors

\* On one thread, whenever no call and no task is in the middle of its work, a
\* pause intent is that of a download that has not settled, and one that still
\* has its slot has a task that was told to stop: no intent outlives its
\* transfer and no accepted pause is forgotten.
THEOREM IntentsMeet ==
  ASSUME Workers = 1, ~SaveFails, "shutdown" \notin Ops, Detachable = {}
  PROVE  Spec => []IntentsAnswered
<1>1. Init => TypeOK /\ SlotInv /\ LimitInv /\ StopInv /\ HeldInv /\ IntentInv
  <2>1. Init => HeldInv
    BY DEF Init, HeldInv, SlotHasRun, Active, Absent
  <2> QED
    BY <2>1, InitType, InitSlot, InitLimit, InitStop, InitIntent
<1>2. /\ TypeOK /\ SlotInv /\ LimitInv /\ StopInv /\ HeldInv /\ IntentInv /\ [Next]_vars
      => (TypeOK /\ SlotInv /\ LimitInv /\ StopInv /\ HeldInv /\ IntentInv)'
  BY NextType, NextSlot, NextLimit, NextStop, NextHeld, NextIntent
<1>3. TypeOK /\ HeldInv /\ IntentInv => IntentsAnswered
  <2> SUFFICES ASSUME TypeOK, HeldInv, IntentInv, Resting, NEW id \in intents,
                      st[id] \in Active
               PROVE  \E r \in Runs : Holds(r, id) /\ permit[r] # {}
    BY DEF IntentsAnswered, IntentInv, Intended
  <2>1. id \in Ids
    BY DEF TypeOK
  <2>2. PICK r \in Actors : Holds(r, id)
    BY <2>1 DEF HeldInv, SlotHasRun
  <2>3. act[r].id = id /\ act[r].pc \in {"spawned", "transfer"}
    BY <2>2 DEF Holds, Holding, Resting, Busy
  <2>4. r \in Runs /\ Listening(r)
    BY <2>3 DEF IntentInv, Tasks, Listening
  <2>5. \A b \in Actors : ~Pausing(act[b], id)
    BY DEF Pausing, Resting, Busy
  <2>6. permit[r] # {}
    BY <2>3, <2>4, <2>5 DEF IntentInv, Answered, Unsignalled
  <2> QED
    BY <2>2, <2>4, <2>6
<1> QED
  BY <1>1, <1>2, <1>3, PTL DEF Spec

(***************************************************************************)
(* The manager implements Lifecycle: through every interleaving, refused   *)
(* write, removal and crash, a download is in a state of the table, it has *)
(* at most one transfer, and it leaves its slot when that one has ended.   *)
(***************************************************************************)

Of(id) == {r \in Runs : Transferring(r) /\ act[r].id = id}
Transfers == [id \in Ids |-> Cardinality(Of(id))]
Streams(f) == f.pc \in {"transfer", "report"}

\* What the invariants say of the number of transfers of a download.
LEMMA NoTransfer ==
  ASSUME NEW id \in Ids, Of(id) = {}
  PROVE  Transfers[id] = 0
BY FS_EmptySet DEF Transfers

LEMMA TransferHolds ==
  ASSUME NEW id \in Ids, NEW r \in Of(id)
  PROVE  r \in Actors /\ Holds(r, id)
BY DEF Of, Transferring, Holds, Holding, Actors

\* A download in any other state has no transfer.
LEMMA SettledHasNone ==
  ASSUME SlotInv, NEW id \in Ids, st[id] \notin Active \cup {"Cancelled", Absent}
  PROVE  Transfers[id] = 0
<1>1. Of(id) = {}
  BY TransferHolds DEF SlotInv, HeldState
<1> QED
  BY <1>1, NoTransfer

\* Nor has one whose slot is held by an actor that does not transfer.
LEMMA HeldHasNone ==
  ASSUME SlotInv, NEW id \in Ids, NEW a \in Actors, Holds(a, id), ~Streams(act[a])
  PROVE  Of(id) = {} /\ Transfers[id] = 0
<1>1. ASSUME NEW r \in Of(id) PROVE FALSE
  <2>1. r = a
    BY TransferHolds DEF SlotInv, OneHolder
  <2> QED
    BY <2>1 DEF Of, Transferring, Streams
<1> QED
  BY <1>1, NoTransfer

LEMMA StreamsAlone ==
  ASSUME SlotInv, NEW r \in Runs, Streams(act[r]), act[r].id \in Ids
  PROVE  Of(act[r].id) = {r} /\ Transfers[act[r].id] = 1
<1>1. r \in Of(act[r].id)
  BY DEF Of, Transferring, Streams
<1>2. ASSUME NEW q \in Of(act[r].id) PROVE q = r
  BY <1>1, TransferHolds DEF SlotInv, OneHolder
<1>3. Of(act[r].id) = {r}
  BY <1>1, <1>2
<1> QED
  BY <1>3, FS_Singleton DEF Transfers

\* How a step changes that number.
LEMMA SameTransfers ==
  ASSUME TypeOK, NEW a \in Actors, NEW g, act' = [act EXCEPT ![a] = g],
         ~Streams(g), a \in Runs => ~Streams(act[a])
  PROVE  Transfers' = Transfers
<1>1. \A r \in Runs : r \in Actors
  BY DEF Actors
<1>2. \A b \in Actors : act'[b] = IF b = a THEN g ELSE act[b]
  BY DEF TypeOK
<1>3. ASSUME NEW id \in Ids PROVE Of(id)' = Of(id)
  BY <1>1, <1>2 DEF Of, Transferring, Streams
<1> QED
  BY <1>3 DEF Transfers

LEMMA StillStreams ==
  ASSUME TypeOK, NEW r \in Runs, NEW g, act' = [act EXCEPT ![r] = g],
         Streams(g), Streams(act[r]), g.id = act[r].id
  PROVE  Transfers' = Transfers
<1>1. \A b \in Actors : act'[b] = IF b = r THEN g ELSE act[b]
  BY DEF TypeOK, Actors
<1>2. ASSUME NEW id \in Ids PROVE Of(id)' = Of(id)
  BY <1>1 DEF Of, Transferring, Streams, Actors
<1> QED
  BY <1>2 DEF Transfers

LEMMA TransferBegins ==
  ASSUME TypeOK, NEW r \in Runs, NEW g, act' = [act EXCEPT ![r] = g],
         Streams(g), g.id \in Ids, ~Streams(act[r]), Of(g.id) = {}
  PROVE  Transfers' = [Transfers EXCEPT ![g.id] = 1]
<1>1. \A b \in Actors : act'[b] = IF b = r THEN g ELSE act[b]
  BY DEF TypeOK, Actors
<1>2. Of(g.id)' = {r}
  BY <1>1 DEF Of, Transferring, Streams, Actors
<1>3. ASSUME NEW id \in Ids, id # g.id PROVE Of(id)' = Of(id)
  BY <1>1, <1>3 DEF Of, Transferring, Streams, Actors
<1> QED
  BY <1>2, <1>3, FS_Singleton DEF Transfers

LEMMA TransferEnds ==
  ASSUME TypeOK, SlotInv, NEW r \in Runs, NEW g, act' = [act EXCEPT ![r] = g],
         ~Streams(g), Streams(act[r]), act[r].id \in Ids
  PROVE  Transfers' = [Transfers EXCEPT ![act[r].id] = 0]
<1> DEFINE d == act[r].id
<1>1. \A b \in Actors : act'[b] = IF b = r THEN g ELSE act[b]
  BY DEF TypeOK, Actors
<1>2. PICK e \in Ids : e = d
  OBVIOUS
<1>3. Of(e)' = {}
  BY <1>1, <1>2, StreamsAlone DEF Of, Transferring, Streams, Actors
<1>4. ASSUME NEW id \in Ids, id # e PROVE Of(id)' = Of(id)
  BY <1>1, <1>2, <1>4 DEF Of, Transferring, Streams, Actors
<1>5. Transfers' = [Transfers EXCEPT ![e] = 0]
  BY <1>3, <1>4, FS_EmptySet DEF Transfers
<1> QED
  BY <1>2, <1>5

\* Lifecycle sees nothing of a step that changes neither.
LEMMA Unseen ==
  ASSUME st' = st, Transfers' = Transfers
  PROVE  [Promise!Next]_(Promise!vars)
BY DEF Promise!vars, Transfers, Of

LEMMA UnseenGoto ==
  ASSUME TypeOK, NEW a \in Actors, NEW g, Goto(a, g), st' = st, ~Streams(g), ~Streams(act[a])
  PROVE  [Promise!Next]_(Promise!vars)
BY SameTransfers, Unseen DEF Goto

LEMMA UnseenStep ==
  ASSUME TypeOK, NEW a \in Actors, NEW pc, Step(a, pc), st' = st,
         pc \notin {"transfer", "report"}, ~Streams(act[a])
  PROVE  [Promise!Next]_(Promise!vars)
<1> DEFINE g == [act[a] EXCEPT !.pc = pc]
<1>1. g.pc = pc /\ Goto(a, g)
  BY DEF TypeOK, Frames, Step, Goto
<1> HIDE DEF g
<1> QED
  BY <1>1, UnseenGoto DEF Streams

LEMMA ContinueStreams ==
  ASSUME TypeOK, NEW a \in Actors, NEW ok \in BOOLEAN
  PROVE  ~Streams(Continue(a, ok)) /\ ~Streams(Loop) /\ \A b : ~Streams(Rest(b))
BY ContinuePc, RestPc DEF Streams


\* Both modules read the same table.
LEMMA SameTable ==
  /\ Promise!NextStates = NextStates /\ Promise!Active = Active
  /\ Promise!Absent = Absent /\ Promise!States = States
BY DEF Promise!NextStates, NextStates, Promise!Active, Active, Promise!Absent, Absent,
       Promise!States, States

\* Lifecycle's moves, in the manager's terms.
LEMMA MoveMeans ==
  ASSUME TypeOK, NEW id \in Ids, NEW to, CanTransition(st[id], to),
         st' = [st EXCEPT ![id] = to], Transfers' = Transfers
  PROVE  /\ Transfers[id] = 0 /\ to = "Queued" => Promise!Requeue(id)
         /\ Transfers[id] = 0 /\ to = "Starting" => Promise!Start(id)
         /\ Transfers[id] = 1 /\ st[id] = "Starting" /\ to = "Downloading" => Promise!FirstBytes(id)
         /\ Transfers[id] = 0 /\ st[id] \in Active => Promise!Settle(id, to)
         /\ Transfers[id] = 0 /\ st[id] \notin Active /\ to = "Cancelled" => Promise!Cancel(id)
<1>1. ASSUME NEW from, st[id] \in from PROVE Promise!Move(id, from, to)
  BY <1>1, SameTable DEF CanTransition, Promise!Move, Transfers, Of
<1>2. /\ to = "Queued" => st[id] \in {"Paused", "Failed"}
      /\ to = "Starting" => st[id] \in {"Queued"}
      /\ to = "Cancelled" => st[id] \in Active \cup {"Queued", "Paused", "Failed"}
  <2>1. st[id] \in States /\ to \in NextStates[st[id]]
    BY DEF CanTransition, TypeOK, Absent, States
  <2> QED
    BY <2>1 DEF NextStates, States, Active
<1>3. Transfers[id] = 0 /\ to = "Queued" => Promise!Requeue(id)
  BY <1>1, <1>2 DEF Promise!Requeue, Transfers, Of
<1>4. Transfers[id] = 0 /\ to = "Starting" => Promise!Start(id)
  BY <1>1, <1>2 DEF Promise!Start, Transfers, Of
<1>5. Transfers[id] = 1 /\ st[id] = "Starting" /\ to = "Downloading" => Promise!FirstBytes(id)
  BY <1>1 DEF Promise!FirstBytes, Transfers, Of
<1>6. Transfers[id] = 0 /\ st[id] \in Active => Promise!Settle(id, to)
  BY <1>1, SameTable DEF Promise!Settle, Transfers, Of
<1>7. Transfers[id] = 0 /\ st[id] \notin Active /\ to = "Cancelled" => Promise!Cancel(id)
  BY <1>1, <1>2 DEF Promise!Cancel, Transfers, Of
<1> QED
  BY <1>3, <1>4, <1>5, <1>6, <1>7

\* A call is no step of a download: it is still to act on what it has read.
LEMMA CallKeeps ==
  ASSUME TypeOK, NEW c \in Callers, Call(c)
  PROVE  [Promise!Next]_(Promise!vars)
<1> c \in Actors /\ c \notin Runs
  BY ActorsAssumption DEF Actors
<1> USE DEF map
<1>f. ASSUME NEW pc, NEW op, NEW id, NEW to, Goto(c, Frame(pc, op, id, to)), st' = st,
             pc \notin {"transfer", "report"}
      PROVE  [Promise!Next]_(Promise!vars)
  <2>1. ~Streams(Frame(pc, op, id, to))
    BY <1>f DEF Frame, Streams
  <2> QED
    BY <1>f, <2>1, SameTransfers, Unseen DEF Goto
<1>1. ASSUME NEW id \in Ids, CallEnqueue(c, id) PROVE [Promise!Next]_(Promise!vars)
  BY <1>1, <1>f DEF CallEnqueue
<1>2. ASSUME NEW id \in Ids, CallStart(c, id) \/ CallPause(c, id) \/ CallResume(c, id) \/ CallRetry(c, id)
      PROVE  [Promise!Next]_(Promise!vars)
  BY <1>2, <1>f DEF CallStart, CallPause, CallResume, CallRetry, Reads
<1>3. ASSUME NEW id \in Ids, CallCancelActive(c, id) \/ CallCancelWaiting(c, id)
      PROVE  [Promise!Next]_(Promise!vars)
  BY <1>3, <1>f DEF CallCancelActive, CallCancelWaiting, Reads
<1>4. ASSUME NEW id \in Ids, CallRemove(c, id) PROVE [Promise!Next]_(Promise!vars)
  BY <1>4, <1>f DEF CallRemove
<1>5. CASE CallShutdown(c)
  BY <1>5, Unseen DEF CallShutdown, Transfers, Of, Transferring
<1> QED
  BY <1>1, <1>2, <1>3, <1>4, <1>5 DEF Call

\* A transition is a move along the table, of a download that has no transfer.
LEMMA MoveKeeps ==
  ASSUME TypeOK, SlotInv, StopInv, NEW a \in Actors, Move(a)
  PROVE  [Promise!Next]_(Promise!vars)
<1> DEFINE f == act[a]
<1>d. PICK d \in Ids : d = f.id
  <2>1. f.pc \notin Nameless
    BY DEF Move, At, Nameless
  <2> QED
    BY <2>1, FrameParts DEF TypeOK
<1>0. f \in Frames /\ f.pc = "move" /\ ~Streams(f)
  BY DEF TypeOK, Move, At, Streams
<1>1. CASE st' = st /\ Goto(a, Continue(a, FALSE))
  BY <1>0, <1>1, ContinueStreams, UnseenGoto
<1>2. CASE CanTransition(st[d], f.to) /\ st' = [st EXCEPT ![d] = f.to] /\ Step(a, "copy")
  <2> DEFINE g == [f EXCEPT !.pc = "copy"]
  <2>1. act' = [act EXCEPT ![a] = g] /\ ~Streams(g)
    BY <1>0, <1>2 DEF Step, Frames, Streams
  <2>2. Transfers' = Transfers
    <3> HIDE DEF g
    <3> QED
      BY <1>0, <2>1, SameTransfers
  <2>3. CASE f.op \in {"end", "orphan"}
    <3>1. Holds(a, d)
      BY <1>0, <1>d, <2>3 DEF Holds, Holding
    <3>2. Transfers[d] = 0 /\ st[d] \in Active \cup {"Cancelled", Absent}
      BY <1>0, <3>1, HeldHasNone DEF SlotInv, HeldState
    <3>3. st[d] \in Active
      BY <1>2, <3>2 DEF CanTransition, NextStates, States, Absent
    <3>4. f.to \in {"Completed", "Paused", "Failed", "Cancelled"}
      BY <1>0, <2>3 DEF SlotInv, Targets, Target
    <3>5. Promise!Settle(d, f.to)
      BY <1>2, <2>2, <3>2, <3>3, MoveMeans
    <3> QED
      BY <3>4, <3>5 DEF Promise!Next
  <2>4. CASE f.op \notin {"end", "orphan"}
    <3>1. f.to \in {"Queued", "Starting", "Cancelled"}
      <4>1. f.to \in {"Queued", "Starting", "Cancelled", Absent}
        BY <1>0, <2>4 DEF SlotInv, Targets, Target
      <4>2. f.to # Absent
        <5>1. st[d] \in States
          BY <1>2 DEF CanTransition, TypeOK
        <5> QED
          BY <1>2, <5>1 DEF CanTransition, NextStates, States, Absent
      <4> QED
        BY <4>1, <4>2
    <3>2. st[d] \in {"Queued", "Paused", "Failed"}
      <4>1. st[d] \in States /\ f.to \in NextStates[st[d]]
        BY <1>2 DEF CanTransition, TypeOK
      <4>2. f.to = "Cancelled" => st[d] \notin Active
        BY <1>0, <1>d, <2>4 DEF StopInv, Careful
      <4> QED
        BY <3>1, <4>1, <4>2 DEF NextStates, States, Active
    <3>3. Transfers[d] = 0 /\ st[d] \notin Active
      BY <3>2, SettledHasNone DEF Active, Absent
    <3>4. Promise!Requeue(d) \/ Promise!Start(d) \/ Promise!Cancel(d)
      BY <1>2, <2>2, <3>1, <3>3, MoveMeans
    <3> QED
      BY <3>4 DEF Promise!Next
  <2> QED
    BY <2>3, <2>4
<1> QED
  BY <1>d, <1>1, <1>2 DEF Move

\* A segment accepts a download, moves it, forgets it, or is unseen.
LEMMA SegmentKeeps ==
  ASSUME TypeOK, SlotInv, StopInv, NEW a \in Actors, Segment(a)
  PROVE  [Promise!Next]_(Promise!vars)
<1> DEFINE f == act[a]
<1>0. f \in Frames /\ (f.pc \notin Nameless => f.id \in Ids)
  BY FrameParts DEF TypeOK
<1>b. ~Streams(f)
  BY SegmentBusy DEF Streams
<1> USE DEF map
<1>1. CASE Insert(a)
  <2>d. PICK d \in Ids : d = f.id
    BY <1>0, <1>1 DEF Insert, At, Nameless
  <2>1. st[d] = Absent
    BY <1>1, <2>d DEF Insert, At, SlotInv, InsertFresh, Inserting
  <2> DEFINE g == [f EXCEPT !.pc = "push"]
  <2>2. act' = [act EXCEPT ![a] = g] /\ ~Streams(g)
    BY <1>0, <1>1 DEF Insert, Step, Frames, Streams
  <2>3. Transfers' = Transfers
    <3> HIDE DEF g
    <3> QED
      BY <1>b, <2>2, SameTransfers
  <2>4. Promise!Accept(d)
    BY <1>1, <2>d, <2>1, <2>3, SameTable DEF Insert, Promise!Accept, Transfers, Of
  <2> QED
    BY <2>4 DEF Promise!Next
<1>2. CASE Forget(a)
  <2>d. PICK d \in Ids : d = f.id
    BY <1>0, <1>2 DEF Forget, At, Nameless
  <2> DEFINE g == [f EXCEPT !.pc = "erase"]
  <2>1. act' = [act EXCEPT ![a] = g] /\ ~Streams(g)
    BY <1>0, <1>2 DEF Forget, Step, Frames, Streams
  <2>2. Transfers' = Transfers
    <3> HIDE DEF g
    <3> QED
      BY <1>b, <2>1, SameTransfers
  <2>3. st' = [st EXCEPT ![d] = Absent]
    BY <1>2, <2>d DEF Forget
  <2>4. CASE st[d] = Absent
    <3>1. st' = st
      BY <2>3, <2>4 DEF TypeOK
    <3> QED
      BY <2>2, <3>1, Unseen
  <2>5. CASE st[d] # Absent
    <3>1. Promise!Forget(d)
      BY <2>2, <2>3, <2>5, SameTable DEF Promise!Forget, Transfers, Of
    <3> QED
      BY <3>1 DEF Promise!Next
  <2> QED
    BY <2>4, <2>5
<1>3. CASE Move(a)
  BY <1>3, MoveKeeps
<1>4. CASE Push(a) \/ Signal(a) \/ Erase(a) \/ Attach(a)
  BY <1>4, <1>b, ContinueStreams, UnseenGoto DEF Push, Signal, Erase, Attach
<1>5. CASE Unqueue(a) \/ Intend(a) \/ Take(a)
  BY <1>5, <1>b, UnseenStep DEF Unqueue, Intend, Take
<1>6. CASE Capacity(a) \/ Count(a)
  BY <1>6, <1>b, ContinueStreams, UnseenGoto, UnseenStep DEF Capacity, Count
<1>7. CASE Select(a)
  <2>1. \A id : ~Streams(Frame("take", "loop", id, "Starting"))
    BY DEF Frame, Streams
  <2> QED
    BY <1>7, <1>b, <2>1, ContinueStreams, UnseenGoto DEF Select
<1>8. CASE Copy(a)
  <2> DEFINE g == [f EXCEPT !.pc = "store", !.snap = st[f.id]]
  <2>1. ~Streams(g)
    BY <1>0 DEF Frames, Streams
  <2>2. Goto(a, g) \/ Goto(a, Continue(a, TRUE))
    BY <1>8 DEF Copy
  <2> HIDE DEF g
  <2> QED
    BY <1>8, <1>b, <2>1, <2>2, ContinueStreams, UnseenGoto DEF Copy
<1>9. CASE Store(a)
  <2>1. Goto(a, Continue(a, TRUE)) \/ Goto(a, Continue(a, FALSE))
    BY <1>9 DEF Store
  <2> QED
    BY <1>9, <1>b, <2>1, ContinueStreams, UnseenGoto DEF Store
<1>10. ASSUME NEW r \in Runs, Launch(a, r) PROVE [Promise!Next]_(Promise!vars)
  <2> DEFINE g == [f EXCEPT !.pc = "attach", !.run = r]
             h == Frame("spawned", "run", f.id, Absent)
  <2>1. /\ r # a /\ r \in Actors /\ st' = st /\ act[r].pc = "done"
        /\ act' = [act EXCEPT ![a] = g, ![r] = h]
    BY <1>10 DEF Launch, At, NextFree, Free, Actors
  <2>2. ~Streams(g) /\ ~Streams(h) /\ ~Streams(act[r])
    BY <1>0, <2>1 DEF Frame, Frames, Streams
  <2> HIDE DEF g, h
  <2>3. \A b \in Actors : act'[b] = IF b = r THEN h ELSE IF b = a THEN g ELSE act[b]
    BY <2>1 DEF TypeOK
  <2>4. ASSUME NEW id \in Ids PROVE Of(id)' = Of(id)
    BY <1>b, <2>2, <2>3 DEF Of, Transferring, Streams, Actors
  <2>5. Transfers' = Transfers
    BY <2>4 DEF Transfers
  <2> QED
    BY <2>1, <2>5, Unseen
<1> QED
  BY <1>1, <1>2, <1>3, <1>4, <1>5, <1>6, <1>7, <1>8, <1>9, <1>10 DEF Segment

\* A task's transfer begins, makes its download Downloading, or ends.
LEMMA TaskKeeps ==
  ASSUME TypeOK, SlotInv, NEW r \in Runs, Task(r)
  PROVE  [Promise!Next]_(Promise!vars)
<1> r \in Actors
  BY DEF Actors
<1> DEFINE f == act[r]
<1>0. f \in Frames /\ (f.pc \notin Nameless => f.id \in Ids)
  BY FrameParts DEF TypeOK
<1>d. PICK d \in Ids : d = f.id
  BY <1>0 DEF Task, RunBegin, Progress, Report, FinishOk, FinishErr, Abort, Resumes, At, Nameless
<1> USE DEF map
<1>e. ASSUME NEW g, act' = [act EXCEPT ![r] = g], ~Streams(g), Streams(f), st' = st
      PROVE  [Promise!Next]_(Promise!vars)
  <2>1. Transfers' = [Transfers EXCEPT ![d] = 0] /\ Transfers[d] = 1
    BY <1>d, <1>e, TransferEnds, StreamsAlone
  <2>2. Promise!Disconnect(d)
    BY <1>e, <2>1 DEF Promise!Disconnect, Transfers, Of
  <2> QED
    BY <2>2 DEF Promise!Next
<1>1. CASE RunBegin(r)
  <2>0. f.pc = "spawned" /\ ~Streams(f) /\ st' = st
    BY <1>1 DEF RunBegin, Resumes, At, Streams
  <2>1. CASE st[d] \in Active /\ Goto(r, Transfer(d))
    <3> DEFINE g == Transfer(d)
    <3>1. act' = [act EXCEPT ![r] = g] /\ Streams(g) /\ g.id = d
      BY <2>1 DEF Goto, Transfer, Frame, Streams
    <3> HIDE DEF g
    <3>2. Of(d) = {} /\ Transfers[d] = 0
      BY <1>d, <2>0, HeldHasNone DEF Holds, Holding
    <3>3. Transfers' = [Transfers EXCEPT ![d] = 1]
      BY <2>0, <3>1, <3>2, TransferBegins
    <3>4. Promise!Connect(d)
      BY <2>0, <2>1, <3>2, <3>3, SameTable DEF Promise!Connect, Transfers, Of
    <3> QED
      BY <3>4 DEF Promise!Next
  <2>2. ASSUME NEW g, Goto(r, g), ~Streams(g) PROVE [Promise!Next]_(Promise!vars)
    BY <2>0, <2>2, UnseenGoto
  <2>3. ~Streams(Frame("move", "orphan", d, "Failed")) /\ ~Streams(Rest(r))
    BY RestPc DEF Frame, Streams
  <2> QED
    BY <1>1, <1>d, <2>1, <2>2, <2>3 DEF RunBegin
<1>2. CASE Progress(r)
  <2> DEFINE first == st[d] = "Starting"
             g == [Frame("report", "run", d, IF first THEN "Downloading" ELSE Absent)
                     EXCEPT !.snap = st'[d]]
  <2>1. /\ st[d] # Absent /\ Streams(f)
        /\ st' = IF first THEN [st EXCEPT ![d] = "Downloading"] ELSE st
        /\ act' = [act EXCEPT ![r] = g]
    BY <1>2, <1>d DEF Progress, Resumes, At, Streams, Goto
  <2>2. Streams(g) /\ g.id = d
    BY DEF Frame, Streams
  <2>3. Transfers' = Transfers
    <3> HIDE DEF g
    <3> QED
      BY <1>d, <2>1, <2>2, StillStreams
  <2>4. CASE ~first
    BY <2>1, <2>3, <2>4, Unseen
  <2>5. CASE first
    <3>1. CanTransition(st[d], "Downloading")
      BY <2>5 DEF CanTransition, NextStates, States, Absent
    <3>2. Transfers[d] = 1
      BY <1>d, <2>1, StreamsAlone
    <3>3. Promise!FirstBytes(d)
      BY <2>1, <2>3, <2>5, <3>1, <3>2, MoveMeans
    <3> QED
      BY <3>3 DEF Promise!Next
  <2> QED
    BY <2>4, <2>5
<1>3. CASE Report(r)
  <2> DEFINE g == Transfer(d)
  <2>1. act' = [act EXCEPT ![r] = g] /\ Streams(g) /\ g.id = d /\ Streams(f) /\ st' = st
    BY <1>3, <1>d DEF Report, At, Goto, Transfer, Frame, Streams
  <2> HIDE DEF g
  <2> QED
    BY <1>d, <2>1, StillStreams, Unseen
<1>4. CASE FinishOk(r) \/ FinishErr(r)
  <2>1. Streams(f) /\ st' = st
    BY <1>4 DEF FinishOk, FinishErr, Resumes, At, Streams
  <2>2. ASSUME NEW to, Goto(r, Frame("move", "end", f.id, to))
        PROVE  [Promise!Next]_(Promise!vars)
    <3> DEFINE g == Frame("move", "end", f.id, to)
    <3>1. act' = [act EXCEPT ![r] = g] /\ ~Streams(g)
      BY <2>2 DEF Goto, Frame, Streams
    <3> HIDE DEF g
    <3> QED
      BY <1>e, <2>1, <3>1
  <2> QED
    BY <1>4, <2>2 DEF FinishOk, FinishErr
<1>5. CASE Abort(r)
  <2>1. act' = [act EXCEPT ![r] = Rest(r)] /\ ~Streams(Rest(r)) /\ st' = st
    BY <1>5, RestPc DEF Abort, Goto, Streams
  <2>2. CASE ~Streams(f)
    BY <2>1, <2>2, SameTransfers, Unseen
  <2>3. CASE Streams(f)
    BY <1>e, <2>1, <2>3
  <2> QED
    BY <2>2, <2>3
<1> QED
  BY <1>1, <1>2, <1>3, <1>4, <1>5 DEF Task

\* A restart is one: what was accepted has a row.
LEMMA ReopenKeeps ==
  ASSUME TypeOK, DurInv, Reopen
  PROVE  Promise!Restart
<1> DEFINE new == [id \in Ids |-> Recovered(db[id])]
<1>1. /\ st' = new /\ act' = [a \in Actors |-> Rest(a)]
  BY DEF Reopen
<1>2. ASSUME NEW id \in Ids
      PROVE  /\ new[id] \in (States \ Active) \cup {Absent}
             /\ st[id] # Absent => new[id] # Absent
  <2>1. db[id] \in States \cup {Absent} /\ (st[id] # Absent => db[id] # Absent)
    BY DEF TypeOK, DurInv, AcceptedIsDurable
  <2>2. Policy \in States \ Active /\ Policy # Absent
    BY ConfigAssumption DEF States, Active, Absent
  <2> QED
    BY <2>1, <2>2 DEF Recovered, Active, Absent, States
<1>3. ASSUME NEW id \in Ids PROVE Of(id)' = {}
  <2>1. \A r \in Runs : act'[r].pc \notin {"transfer", "report"}
    BY <1>1, RestPc DEF Actors
  <2> QED
    BY <2>1 DEF Of, Transferring
<1>4. Transfers' = [id \in Ids |-> 0]
  BY <1>3, FS_EmptySet DEF Transfers
<1>5. st' \in [Ids -> (States \ Active) \cup {Absent}]
  BY <1>1, <1>2
<1> QED
  BY <1>1, <1>2, <1>4, <1>5, SameTable DEF Promise!Restart, Transfers, Of

LEMMA NextKeepsPromise ==
  /\ TypeOK /\ SlotInv /\ DurInv /\ StopInv /\ [Next]_vars
  => [Promise!Next]_(Promise!vars)
<1> SUFFICES ASSUME TypeOK, SlotInv, DurInv, StopInv, [Next]_vars
             PROVE  [Promise!Next]_(Promise!vars)
  OBVIOUS
<1>1. CASE Next
  <2>1. CASE Reopen
    BY <2>1, ReopenKeeps DEF Promise!Next
  <2> QED
    BY <1>1, <2>1, CallKeeps, SegmentKeeps, TaskKeeps DEF Next
<1>2. CASE UNCHANGED vars
  BY <1>2, Unseen DEF vars, Transfers, Of, Transferring
<1> QED
  BY <1>1, <1>2

LEMMA InitPromise == Init => Promise!Init
<1> SUFFICES ASSUME Init PROVE Promise!Init
  OBVIOUS
<1>1. \A r \in Runs : act[r].pc \notin {"transfer", "report"}
  BY RestPc DEF Init, Actors
<1>2. ASSUME NEW id \in Ids PROVE Of(id) = {}
  BY <1>1 DEF Of, Transferring
<1>3. Transfers = [id \in Ids |-> 0]
  BY <1>2, FS_EmptySet DEF Transfers
<1> QED
  BY <1>3, SameTable DEF Init, Promise!Init, Transfers, Of

\* On one thread, for any sets of downloads, callers and tasks, whatever is
\* called, refused by the database, aborted or crashed: the manager is a
\* Lifecycle, which knows no queue, no lock, no task and no row.
THEOREM LifecycleKept ==
  ASSUME Workers = 1
  PROVE  Spec => ImplementsLifecycle
<1>1. Init => /\ TypeOK /\ SlotInv /\ DurInv /\ LimitInv /\ StopInv
              /\ Promise!Init
  BY InitType, InitSlot, InitDurable, InitLimit, InitStop, InitPromise
<1>2. /\ TypeOK /\ SlotInv /\ DurInv /\ LimitInv /\ StopInv /\ [Next]_vars
      => (TypeOK /\ SlotInv /\ DurInv /\ LimitInv /\ StopInv)'
  BY NextType, NextSlot, NextDurable, NextLimit, NextStop
<1>3. /\ TypeOK /\ SlotInv /\ DurInv /\ StopInv /\ [Next]_vars
      => [Promise!Next]_(Promise!vars)
  BY NextKeepsPromise
<1> QED
  BY <1>1, <1>2, <1>3, PTL DEF Spec, ImplementsLifecycle, Promise!Spec
=============================================================================
