----------------------------- MODULE QueueProofs -----------------------------
(***************************************************************************)
(* The waiting queue (crates/download-manager/src/queue.rs) and the        *)
(* scheduler's use of it: no queued download is forgotten, whatever runs   *)
(* in between; on one thread the queue is exactly the downloads in state   *)
(* Queued, and no slot stays free while one of them waits.                 *)
(***************************************************************************)
EXTENDS OneThreadProofs

(***************************************************************************)
(* A set in the order of its ranks: what retain() keeps of the queue and   *)
(* what persistence.list returns.                                          *)
(***************************************************************************)

\* The place of an element is between 1 and the size of the set, and a later
\* element has a later place.
LEMMA PlaceBounds ==
  ASSUME NEW S, IsFiniteSet(S), NEW rank, \A x \in S : rank[x] \in Nat, NEW x \in S
  PROVE  Cardinality({y \in S : rank[y] <= rank[x]}) \in 1..Cardinality(S)
<1> DEFINE U == {y \in S : rank[y] <= rank[x]}
<1>1. IsFiniteSet(U) /\ Cardinality(U) <= Cardinality(S)
  BY FS_Subset
<1>2. x \in U
  OBVIOUS
<1> HIDE DEF U
<1>3. Cardinality(U) \in Nat /\ Cardinality(S) \in Nat /\ Cardinality(U) # 0
  BY <1>1, <1>2, FS_CardinalityType, FS_EmptySet
<1>4. Cardinality(U) \in 1..Cardinality(S)
  BY <1>1, <1>3
<1> QED
  BY <1>4 DEF U

LEMMA PlaceGrows ==
  ASSUME NEW S, IsFiniteSet(S), NEW rank, \A x \in S : rank[x] \in Nat,
         NEW x \in S, NEW z \in S, rank[x] < rank[z]
  PROVE  Cardinality({y \in S : rank[y] <= rank[x]}) # Cardinality({y \in S : rank[y] <= rank[z]})
<1> DEFINE U == {y \in S : rank[y] <= rank[x]}
           V == {y \in S : rank[y] <= rank[z]}
<1>1. z \in V /\ z \notin U
  OBVIOUS
<1>2. U \subseteq V
  <2> SUFFICES ASSUME NEW y \in U PROVE y \in V
    OBVIOUS
  <2>1. y \in S /\ rank[y] \in Nat /\ rank[y] <= rank[x]
    OBVIOUS
  <2>2. rank[x] \in Nat /\ rank[z] \in Nat
    OBVIOUS
  <2> QED
    BY <2>1, <2>2
<1>3. IsFiniteSet(V)
  BY FS_Subset
<1> HIDE DEF U, V
<1>4. Cardinality(U) # Cardinality(V)
  BY <1>1, <1>2, <1>3, FS_Subset
<1> QED
  BY <1>4 DEF U, V

\* Ordered lists every element of the set, each once.
LEMMA OrderedLists ==
  ASSUME NEW S, IsFiniteSet(S), NEW rank, \A x \in S : rank[x] \in Nat,
         \A x, y \in S : rank[x] = rank[y] => x = y
  PROVE  /\ DOMAIN Ordered(S, rank) = 1..Cardinality(S)
         /\ Ordered(S, rank) \in [1..Cardinality(S) -> S]
         /\ \A x \in S : \E n \in 1..Cardinality(S) : Ordered(S, rank)[n] = x
         /\ \A n, m \in 1..Cardinality(S) : Ordered(S, rank)[n] = Ordered(S, rank)[m] => n = m
<1> DEFINE N == Cardinality(S)
           Place(x) == Cardinality({y \in S : rank[y] <= rank[x]})
           place == [x \in S |-> Place(x)]
<1>1. place \in [S -> 1..N]
  BY PlaceBounds
<1>2. \A x, z \in S : place[x] = place[z] => x = z
  <2> SUFFICES ASSUME NEW x \in S, NEW z \in S, x # z PROVE place[x] # place[z]
    OBVIOUS
  <2>1. CASE rank[x] < rank[z]
    BY <2>1, PlaceGrows
  <2>2. CASE rank[z] < rank[x]
    BY <2>2, PlaceGrows
  <2>3. rank[x] < rank[z] \/ rank[z] < rank[x]
    <3>1. rank[x] \in Nat /\ rank[z] \in Nat /\ rank[x] # rank[z]
      OBVIOUS
    <3> QED
      BY <3>1
  <2> QED
    BY <2>1, <2>2, <2>3
<1>3. N \in Nat /\ IsFiniteSet(1..N) /\ Cardinality(1..N) = N
  BY FS_CardinalityType, FS_Interval
<1>4. Ordered(S, rank) = [n \in 1..N |-> CHOOSE x \in S : Place(x) = n]
  BY DEF Ordered
<1>p. \A x \in S : place[x] = Place(x)
  OBVIOUS
<1> HIDE DEF place, N, Place
<1>5. place \in Injection(S, 1..N)
  BY <1>1, <1>2 DEF Injection, IsInjective
<1>6. place \in Surjection(S, 1..N)
  BY <1>3, <1>5, FS_Injection DEF N
<1>7. \A n \in 1..N : \E x \in S : place[x] = n
  BY <1>6 DEF Surjection
<1>8. \A n \in 1..N : Ordered(S, rank)[n] \in S /\ place[Ordered(S, rank)[n]] = n
  BY <1>4, <1>7, <1>p
<1>9. \A x \in S : place[x] \in 1..N /\ Ordered(S, rank)[place[x]] = x
  <2> SUFFICES ASSUME NEW x \in S PROVE place[x] \in 1..N /\ Ordered(S, rank)[place[x]] = x
    OBVIOUS
  <2>1. place[x] \in 1..N
    BY <1>1
  <2>2. Ordered(S, rank)[place[x]] \in S /\ place[Ordered(S, rank)[place[x]]] = place[x]
    BY <1>8, <2>1
  <2> QED
    BY <1>2, <2>1, <2>2
<1>10. \A n, m \in 1..N : Ordered(S, rank)[n] = Ordered(S, rank)[m] => n = m
  BY <1>8
<1> QED
  BY <1>4, <1>8, <1>9, <1>10 DEF N

(***************************************************************************)
(* The queue operations.                                                   *)
(***************************************************************************)

\* No id is queued twice.
Distinct(q) == \A i, j \in DOMAIN q : q[i] = q[j] => i = j

\* Queue::remove takes out every occurrence of the id and keeps the others.
LEMMA WithoutKeeps ==
  ASSUME NEW q \in Seq(Ids), NEW id
  PROVE  /\ Without(q, id) \in Seq(Ids)
         /\ ToSet(Without(q, id)) = ToSet(q) \ {id}
         /\ Distinct(q) => Distinct(Without(q, id))
<1> DEFINE S == {i \in DOMAIN q : q[i] # id}
           rank == [i \in DOMAIN q |-> i]
           kept == Ordered(S, rank)
           N == Cardinality(S)
<1>1. /\ DOMAIN q = 1..Len(q) /\ Len(q) \in Nat
      /\ \A i \in DOMAIN q : q[i] \in Ids
  OBVIOUS
<1>2. IsFiniteSet(S)
  <2>1. IsFiniteSet(DOMAIN q)
    BY <1>1, FS_Interval
  <2> QED
    BY <2>1, FS_Subset
<1>3. /\ \A i \in S : rank[i] \in Nat
      /\ \A i, j \in S : rank[i] = rank[j] => i = j
  BY <1>1
<1>4. N \in Nat
  BY <1>2, FS_CardinalityType
<1>5. /\ DOMAIN kept = 1..N
      /\ \A n \in 1..N : kept[n] \in S
      /\ \A i \in S : \E n \in 1..N : kept[n] = i
      /\ \A n, m \in 1..N : kept[n] = kept[m] => n = m
  <2> HIDE DEF S, rank
  <2>1. /\ DOMAIN kept = 1..N
        /\ kept \in [1..N -> S]
        /\ \A i \in S : \E n \in 1..N : kept[n] = i
        /\ \A n, m \in 1..N : kept[n] = kept[m] => n = m
    BY <1>2, <1>3, OrderedLists
  <2> QED
    BY <2>1
<1>6. Without(q, id) = [n \in DOMAIN kept |-> q[kept[n]]]
  BY DEF Without
<1>7. \A i : i \in S <=> i \in DOMAIN q /\ q[i] # id
  OBVIOUS
<1> HIDE DEF S, rank, kept, N
<1>8. /\ DOMAIN Without(q, id) = 1..N
      /\ \A n \in 1..N : Without(q, id)[n] = q[kept[n]]
  BY <1>5, <1>6
<1>9. Without(q, id) \in Seq(Ids)
  <2>1. Without(q, id) = [n \in 1..N |-> q[kept[n]]]
    BY <1>5, <1>6
  <2>2. \A n \in 1..N : q[kept[n]] \in Ids
    BY <1>1, <1>5, <1>7
  <2> QED
    BY <1>4, <2>1, <2>2
<1>10. ToSet(Without(q, id)) = ToSet(q) \ {id}
  <2>1. ASSUME NEW x \in ToSet(Without(q, id)) PROVE x \in ToSet(q) \ {id}
    <3>1. PICK n \in 1..N : x = q[kept[n]]
      BY <1>8 DEF ToSet
    <3> QED
      BY <1>5, <1>7, <3>1 DEF ToSet
  <2>2. ASSUME NEW x \in ToSet(q) \ {id} PROVE x \in ToSet(Without(q, id))
    <3>1. PICK i \in DOMAIN q : x = q[i]
      BY DEF ToSet
    <3>2. PICK n \in 1..N : kept[n] = i
      BY <1>5, <1>7, <3>1
    <3> QED
      BY <1>8, <3>1, <3>2 DEF ToSet
  <2> QED
    BY <2>1, <2>2
<1>11. ASSUME Distinct(q) PROVE Distinct(Without(q, id))
  <2> SUFFICES ASSUME NEW n \in 1..N, NEW m \in 1..N, q[kept[n]] = q[kept[m]] PROVE n = m
    BY <1>8 DEF Distinct
  <2>1. kept[n] = kept[m]
    BY <1>5, <1>7, <1>11 DEF Distinct
  <2> QED
    BY <1>5, <2>1
<1> QED
  BY <1>9, <1>10, <1>11

\* There is nothing to take out of an empty queue.
LEMMA WithoutEmpty == \A id : Without(<<>>, id) = <<>>
<1> SUFFICES ASSUME NEW id PROVE Without(<<>>, id) = <<>>
  OBVIOUS
<1> DEFINE S == {i \in DOMAIN <<>> : <<>>[i] # id}
           rank == [i \in DOMAIN <<>> |-> i]
<1>1. S = {}
  OBVIOUS
<1>2. Cardinality(S) = 0
  BY <1>1, FS_EmptySet
<1> HIDE DEF S, rank
<1>3. DOMAIN Ordered(S, rank) = {}
  BY <1>2 DEF Ordered
<1>4. Without(<<>>, id) = [n \in DOMAIN Ordered(S, rank) |-> <<>>[Ordered(S, rank)[n]]]
  BY DEF Without, S, rank
<1> QED
  BY <1>3, <1>4

\* Queue::enqueue adds the id at the end.
LEMMA AppendAdds ==
  ASSUME NEW q \in Seq(Ids), NEW id \in Ids
  PROVE  /\ Append(q, id) \in Seq(Ids)
         /\ ToSet(Append(q, id)) = ToSet(q) \cup {id}
         /\ Distinct(q) /\ id \notin ToSet(q) => Distinct(Append(q, id))
<1>1. /\ DOMAIN q = 1..Len(q) /\ Len(q) \in Nat
      /\ DOMAIN Append(q, id) = 1..(Len(q) + 1)
      /\ \A n \in 1..Len(q) : Append(q, id)[n] = q[n]
      /\ Append(q, id)[Len(q) + 1] = id
  OBVIOUS
<1>2. \A n \in 1..(Len(q) + 1) : n \in 1..Len(q) \/ n = Len(q) + 1
  BY <1>1
<1>3. \A n \in 1..Len(q) : n \in 1..(Len(q) + 1)
  BY <1>1
<1>4. Len(q) + 1 \in 1..(Len(q) + 1)
  BY <1>1
<1>5. ToSet(Append(q, id)) = ToSet(q) \cup {id}
  BY <1>1, <1>2, <1>3, <1>4 DEF ToSet
<1>6. Distinct(q) /\ id \notin ToSet(q) => Distinct(Append(q, id))
  <2> SUFFICES ASSUME Distinct(q), id \notin ToSet(q),
                      NEW n \in 1..(Len(q) + 1), NEW m \in 1..(Len(q) + 1),
                      Append(q, id)[n] = Append(q, id)[m]
               PROVE  n = m
    BY <1>1 DEF Distinct
  <2>1. CASE n \in 1..Len(q) /\ m \in 1..Len(q)
    BY <1>1, <2>1 DEF Distinct
  <2>2. CASE n \in 1..Len(q) /\ m = Len(q) + 1
    BY <1>1, <2>2 DEF ToSet
  <2>3. CASE n = Len(q) + 1 /\ m \in 1..Len(q)
    BY <1>1, <2>3 DEF ToSet
  <2> QED
    BY <1>2, <2>1, <2>2, <2>3
<1> QED
  BY <1>5, <1>6

(***************************************************************************)
(* No queued download is forgotten, on any number of threads and through   *)
(* crashes.  It takes a database that accepts every write: a refused one   *)
(* ends resume() and retry() between the transition and the queue.         *)
(***************************************************************************)

\* The actor is about to put the download into the queue, or it has taken (or
\* will take) it out to start, cancel or remove it.
Pending(f, id) ==
  /\ f.id = id
  /\ \/ f.pc \in {"push", "forget"}
     \/ f.pc \in {"copy", "store"} /\ f.to = "Queued"
     \/ f.pc = "move" /\ f.to \in {"Starting", "Cancelled"} /\ f.op \notin {"end", "orphan"}
Remembered ==
  \A id \in Ids : st[id] = "Queued" =>
     id \in ToSet(queue) \/ \E a \in Actors : Pending(act[a], id)

\* Who takes a download out of the queue does so to start, cancel or remove it.
Aimed(f) ==
  /\ f.pc \in {"capacity", "take"} => f.to = "Starting"
  /\ f.pc = "unqueue" => f.op = "remove" \/ f.to \in {"Starting", "Cancelled"}

\* The downloads have been created one after another.
Created == {id \in Ids : created[id] # 0}
Ranked ==
  /\ \A id \in Ids : created[id] <= Cardinality(Created)
  /\ \A i, j \in Created : created[i] = created[j] => i = j

PendInv ==
  queue \in Seq(Ids) /\ Remembered /\ Ranked /\ \A a \in Actors : Aimed(act[a])

\* An actor moves on; what it takes out of the queue or has been about to put
\* there it remembers, unless the download is not Queued any more.
LEMMA PendStep ==
  ASSUME TypeOK, PendInv, NEW a \in Actors, NEW g, act' = [act EXCEPT ![a] = g],
         created' = created, queue' \in Seq(Ids), Aimed(g),
         \A id \in Ids : id \in ToSet(queue) =>
            id \in ToSet(queue') \/ Pending(g, id) \/ st'[id] # "Queued",
         \A id \in Ids : Pending(act[a], id) =>
            id \in ToSet(queue') \/ Pending(g, id) \/ st'[id] # "Queued",
         \A id \in Ids : st'[id] = "Queued" => st[id] = "Queued" \/ Pending(g, id)
  PROVE  PendInv'
<1>1. act'[a] = g /\ \A b \in Actors : b # a => act'[b] = act[b]
  BY DEF TypeOK
<1>2. Remembered'
  <2> SUFFICES ASSUME NEW id \in Ids, st'[id] = "Queued"
               PROVE  id \in ToSet(queue') \/ \E b \in Actors : Pending(act'[b], id)
    BY DEF Remembered
  <2>1. CASE Pending(g, id)
    BY <1>1, <2>1
  <2>2. CASE ~Pending(g, id)
    <3>1. id \in ToSet(queue) \/ \E b \in Actors : Pending(act[b], id)
      BY <2>2 DEF PendInv, Remembered
    <3>2. CASE id \in ToSet(queue)
      BY <2>2, <3>2
    <3>3. CASE \E b \in Actors : Pending(act[b], id)
      BY <1>1, <2>2, <3>3
    <3> QED
      BY <3>1, <3>2, <3>3
  <2> QED
    BY <2>1, <2>2
<1>3. Ranked'
  BY DEF PendInv, Ranked, Created
<1>4. \A b \in Actors : Aimed(act'[b])
  BY <1>1 DEF PendInv
<1> QED
  BY <1>2, <1>3, <1>4 DEF PendInv, Aimed

\* The same when neither map nor queue changes, for an actor that goes back to
\* a frame for no download, and for one that only moves its program counter.
LEMMA PendGoto ==
  ASSUME TypeOK, PendInv, NEW a \in Actors, NEW g, Goto(a, g),
         created' = created, queue' = queue, st' = st, Aimed(g),
         \A id \in Ids : Pending(act[a], id) => Pending(g, id) \/ st[id] # "Queued"
  PROVE  PendInv'
BY PendStep DEF Goto, PendInv

LEMMA PendRest ==
  ASSUME TypeOK, PendInv, NEW a \in Actors, NEW g, Goto(a, g), g = Loop \/ \E b : g = Rest(b),
         created' = created, queue' = queue, st' = st,
         \A id \in Ids : ~Pending(act[a], id) \/ st[id] # "Queued"
  PROVE  PendInv'
<1>1. Aimed(g)
  BY RestPc DEF Aimed
<1> QED
  BY <1>1, PendGoto

LEMMA PendCounter ==
  ASSUME TypeOK, PendInv, NEW a \in Actors, NEW pc, Step(a, pc),
         created' = created, queue' = queue, st' = st,
         pc \in {"unqueue", "take"} => act[a].to = "Starting",
         pc \in {"unqueue", "take", "signal", "select"},
         act[a].pc \in {"capacity", "intend", "count"}
  PROVE  PendInv'
<1> DEFINE g == [act[a] EXCEPT !.pc = pc]
<1>1. g.pc = pc /\ g.to = act[a].to /\ Goto(a, g)
  BY DEF TypeOK, Frames, Step, Goto
<1> HIDE DEF g
<1>2. Aimed(g)
  BY <1>1 DEF Aimed
<1>3. \A id \in Ids : ~Pending(act[a], id)
  BY DEF Pending
<1> QED
  BY <1>1, <1>2, <1>3, PendGoto

\* Every API call keeps the invariant.
LEMMA CallPend ==
  ASSUME TypeOK, SlotInv, PendInv, NEW c \in Callers, Call(c)
  PROVE  PendInv'
<1> c \in Actors
  BY DEF Actors
<1>f. ASSUME NEW pc, NEW op, NEW id, NEW to, Goto(c, Frame(pc, op, id, to)), At(c, "idle"),
             created' = created, queue' = queue, st' = st,
             pc \in {"capacity", "intend", "move", "signal", "unqueue"},
             pc = "capacity" => to = "Starting",
             pc = "unqueue" => op = "remove" \/ to \in {"Starting", "Cancelled"}
      PROVE  PendInv'
  <2> DEFINE g == Frame(pc, op, id, to)
  <2>1. g.pc = pc /\ g.op = op /\ g.to = to
    BY DEF Frame
  <2>2. Goto(c, g) /\ \A i \in Ids : ~Pending(act[c], i)
    BY <1>f DEF At, Pending
  <2> HIDE DEF g
  <2>3. Aimed(g)
    BY <1>f, <2>1 DEF Aimed
  <2> QED
    BY <1>f, <2>2, <2>3, PendGoto
<1> USE DEF map, disk
<1>1. ASSUME NEW id \in Ids, CallEnqueue(c, id) PROVE PendInv'
  <2> DEFINE g == Frame("insert", "enqueue", id, Absent)
  <2>1. /\ act' = [act EXCEPT ![c] = g] /\ g.pc = "insert" /\ act[c].pc = "idle"
        /\ queue' = queue /\ st' = st /\ created[id] = 0
        /\ created' = [created EXCEPT ![id] = 1 + Cardinality(Created)]
    BY <1>1 DEF CallEnqueue, Calls, At, Goto, Frame, Now, Created
  <2> HIDE DEF g
  <2>2. act'[c] = g /\ \A b \in Actors : b # c => act'[b] = act[b]
    BY <2>1 DEF TypeOK
  <2>3. Remembered'
    BY <2>1, <2>2 DEF PendInv, Remembered, Pending
  <2>4. \A b \in Actors : Aimed(act'[b])
    BY <2>1, <2>2 DEF PendInv, Aimed
  <2>5. IsFiniteSet(Created) /\ Cardinality(Created) \in Nat
    BY FS_Subset, FS_CardinalityType, ActorsAssumption DEF Created
  <2>6. /\ created'[id] = 1 + Cardinality(Created)
        /\ \A i \in Ids : i # id => created'[i] = created[i]
    BY <2>1 DEF TypeOK
  <2>8. Created' = Created \cup {id} /\ id \notin Created
    <3>1. created'[id] # 0
      BY <2>5, <2>6
    <3> QED
      BY <2>1, <2>6, <3>1 DEF Created
  <2>7. Cardinality(Created') = Cardinality(Created) + 1
    BY <2>5, <2>8, FS_AddElement
  <2>9. \A i \in Ids : created[i] \in Nat /\ created[i] <= Cardinality(Created)
    BY DEF PendInv, Ranked, TypeOK
  <2>10. \A i \in Ids : created'[i] <= Cardinality(Created')
    BY <2>5, <2>6, <2>7, <2>9
  <2>11. \A i, j \in Created' : created'[i] = created'[j] => i = j
    <3> SUFFICES ASSUME NEW i \in Created', NEW j \in Created', created'[i] = created'[j]
                 PROVE  i = j
      OBVIOUS
    <3>1. i \in Ids /\ j \in Ids
      BY DEF Created
    <3>2. CASE i = id \/ j = id
      BY <2>5, <2>6, <2>9, <3>1, <3>2
    <3>3. CASE i # id /\ j # id
      BY <2>6, <2>8, <3>1, <3>3 DEF PendInv, Ranked
    <3> QED
      BY <3>2, <3>3
  <2>12. Ranked'
    BY <2>10, <2>11 DEF Ranked
  <2> QED
    BY <2>1, <2>3, <2>4, <2>12 DEF PendInv, Aimed
<1>2. ASSUME NEW id \in Ids, CallStart(c, id) PROVE PendInv'
  BY <1>2, <1>f DEF CallStart, Reads, Calls
<1>3. ASSUME NEW id \in Ids, CallPause(c, id) PROVE PendInv'
  BY <1>3, <1>f DEF CallPause, Reads, Calls
<1>4. ASSUME NEW id \in Ids, CallResume(c, id) \/ CallRetry(c, id) PROVE PendInv'
  BY <1>4, <1>f DEF CallResume, CallRetry, Reads, Calls
<1>5. ASSUME NEW id \in Ids, CallCancelActive(c, id) PROVE PendInv'
  BY <1>5, <1>f DEF CallCancelActive, Reads, Calls
<1>6. ASSUME NEW id \in Ids, CallCancelWaiting(c, id) PROVE PendInv'
  BY <1>6, <1>f DEF CallCancelWaiting, Reads, Calls
<1>7. ASSUME NEW id \in Ids, CallRemove(c, id) PROVE PendInv'
  BY <1>7, <1>f DEF CallRemove, Calls
<1>8. CASE CallShutdown(c)
  <2>1. UNCHANGED <<st, queue, created, act>>
    BY <1>8 DEF CallShutdown
  <2> QED
    BY <2>1 DEF PendInv, Remembered, Ranked, Created, Aimed
<1> QED
  BY <1>1, <1>2, <1>3, <1>4, <1>5, <1>6, <1>7, <1>8 DEF Call

\* Every segment keeps the invariant.
LEMMA SegmentPend ==
  ASSUME ~SaveFails, TypeOK, SlotInv, PendInv, NEW a \in Actors, Segment(a)
  PROVE  PendInv'
<1> DEFINE f == act[a]
<1>0. f \in Frames /\ (f.pc \notin Nameless => f.id \in Ids) /\ Target(f) /\ Aimed(f)
  BY FrameParts DEF TypeOK, SlotInv, Targets, PendInv
<1>q. queue \in Seq(Ids)
  BY DEF PendInv
<1> USE DEF map, disk
<1>1. CASE Insert(a)
  <2>d. PICK d \in Ids : d = f.id
    BY <1>0, <1>1 DEF Insert, At, Nameless
  <2> DEFINE g == [f EXCEPT !.pc = "push"]
  <2>1. /\ g.pc = "push" /\ g.id = d /\ act' = [act EXCEPT ![a] = g] /\ f.pc = "insert"
        /\ created' = created /\ queue' = queue /\ st' = [st EXCEPT ![d] = "Queued"]
    BY <1>0, <1>1, <2>d DEF Insert, At, Step, Frames
  <2> HIDE DEF g
  <2>2. \A id \in Ids : st'[id] = "Queued" => st[id] = "Queued" \/ Pending(g, id)
    BY <2>1 DEF TypeOK, Pending
  <2>3. Aimed(g) /\ \A id \in Ids : ~Pending(f, id)
    BY <2>1 DEF Aimed, Pending
  <2> QED
    BY <1>q, <2>1, <2>2, <2>3, PendStep
<1>2. CASE Push(a)
  <2>d. PICK d \in Ids : d = f.id
    BY <1>0, <1>2 DEF Push, At, Nameless
  <2>1. /\ act' = [act EXCEPT ![a] = Loop] /\ f.pc = "push"
        /\ created' = created /\ st' = st /\ queue' = Append(queue, d)
    BY <1>2, <2>d DEF Push, At, Goto
  <2>2. queue' \in Seq(Ids) /\ ToSet(queue') = ToSet(queue) \cup {d}
    BY <1>q, <2>1, AppendAdds
  <2>3. Aimed(Loop) /\ \A id \in Ids : Pending(f, id) => id = d
    BY <2>d, RestPc DEF Aimed, Pending
  <2> QED
    BY <2>1, <2>2, <2>3, PendStep
<1>3. CASE Capacity(a)
  <2>1. f.to = "Starting" /\ f.pc = "capacity" /\ \A id \in Ids : ~Pending(f, id)
    BY <1>0, <1>3 DEF Capacity, At, Aimed, Pending
  <2> QED
    BY <1>3, <2>1, PendRest, PendCounter DEF Capacity
<1>u. ASSUME NEW pc \in {"move", "forget"}, NEW d \in Ids, d = f.id, f.pc \in {"unqueue", "take"},
             queue' = Without(queue, d), Step(a, pc), created' = created, st' = st,
             pc = "move" => f.to \in {"Starting", "Cancelled"} /\ f.op \notin {"end", "orphan"}
      PROVE  PendInv'
  <2> DEFINE g == [f EXCEPT !.pc = pc]
  <2>1. /\ g.pc = pc /\ g.id = d /\ g.to = f.to /\ g.op = f.op
        /\ act' = [act EXCEPT ![a] = g]
    BY <1>0, <1>u DEF Step, Frames
  <2> HIDE DEF g
  <2>2. queue' \in Seq(Ids) /\ ToSet(queue') = ToSet(queue) \ {d}
    BY <1>q, <1>u, WithoutKeeps
  <2>3. Aimed(g) /\ Pending(g, d)
    BY <1>u, <2>1 DEF Aimed, Pending
  <2>4. \A id \in Ids : ~Pending(f, id)
    BY <1>u DEF Pending
  <2> QED
    BY <1>u, <2>1, <2>2, <2>3, <2>4, PendStep
<1>4. CASE Unqueue(a)
  <2>1. /\ f.id \in Ids /\ f.pc = "unqueue" /\ f.op \notin {"end", "orphan"}
        /\ f.op = "remove" \/ f.to \in {"Starting", "Cancelled"}
    BY <1>0, <1>4 DEF Unqueue, At, Nameless, Target, Aimed
  <2> QED
    BY <1>4, <1>u, <2>1 DEF Unqueue
<1>5. CASE Intend(a)
  BY <1>5, PendCounter DEF Intend, At
<1>6. CASE Signal(a)
  <2>1. \A id \in Ids : ~Pending(f, id)
    BY <1>6 DEF Signal, At, Pending
  <2> QED
    BY <1>6, <2>1, PendRest DEF Signal
<1>7. CASE Forget(a)
  <2>d. PICK d \in Ids : d = f.id
    BY <1>0, <1>7 DEF Forget, At, Nameless
  <2> DEFINE g == [f EXCEPT !.pc = "erase"]
  <2>1. /\ g.pc = "erase" /\ g.id = d /\ act' = [act EXCEPT ![a] = g]
        /\ created' = created /\ queue' = queue /\ st' = [st EXCEPT ![d] = Absent]
    BY <1>0, <1>7, <2>d DEF Forget, At, Step, Frames
  <2> HIDE DEF g
  <2>2. st'[d] = Absent /\ \A id \in Ids : st'[id] = "Queued" => st[id] = "Queued"
    BY <2>1 DEF TypeOK, Absent
  <2>3. Aimed(g) /\ \A id \in Ids : Pending(f, id) => id = d
    BY <2>d, <2>1 DEF Aimed, Pending
  <2>4. \A id \in Ids : Pending(f, id) => st'[id] # "Queued"
    BY <2>2, <2>3 DEF Absent
  <2> QED
    BY <1>q, <2>1, <2>2, <2>3, <2>4, PendStep
<1>8. CASE Erase(a)
  <2>1. \A id \in Ids : ~Pending(f, id)
    BY <1>8 DEF Erase, At, Pending
  <2> QED
    BY <1>8, <2>1, PendRest DEF Erase
<1>9. CASE Count(a)
  <2>1. f.pc = "count" /\ \A id \in Ids : ~Pending(f, id)
    BY <1>9 DEF Count, At, Pending
  <2> QED
    BY <1>9, <2>1, PendRest, PendCounter DEF Count
<1>10. CASE Select(a)
  <2>1. f.pc = "select" /\ \A id \in Ids : ~Pending(f, id)
    BY <1>10 DEF Select, At, Pending
  <2>2. \A id \in Ids : Aimed(Frame("take", "loop", id, "Starting"))
    BY DEF Frame, Aimed
  <2> QED
    BY <1>10, <2>1, <2>2, PendRest, PendGoto DEF Select
<1>11. CASE Take(a)
  <2>1. f.id \in Ids /\ f.pc = "take" /\ f.op \notin {"end", "orphan"} /\ f.to = "Starting"
    BY <1>0, <1>11 DEF Take, At, Nameless, Target, Aimed
  <2> QED
    BY <1>11, <1>u, <2>1 DEF Take
<1>c. ASSUME NEW d \in Ids, d = f.id, NEW ok \in BOOLEAN, Goto(a, Continue(a, ok)),
             created' = created, queue' = queue, st' = st,
             f.pc \in {"copy", "store", "move"}, f.pc \in {"copy", "store"} => ok,
             f.pc = "move" => ~CanTransition(st[d], f.to)
      PROVE  PendInv'
  <2>1. Aimed(Continue(a, ok))
    BY ContinuePc DEF Aimed
  <2>2. \A id \in Ids : Pending(f, id) => Pending(Continue(a, ok), id) \/ st[id] # "Queued"
    <3> SUFFICES ASSUME NEW id \in Ids, Pending(f, id)
                 PROVE  Pending(Continue(a, ok), id) \/ st[id] # "Queued"
      OBVIOUS
    <3>1. CASE f.pc \in {"copy", "store"}
      <4>1. id = d /\ f.to = "Queued" /\ ok
        BY <1>c, <3>1 DEF Pending
      <4>2. Continue(a, ok) = Frame("push", "requeue", d, Absent)
        BY <1>c, <4>1 DEF Continue
      <4>3. Continue(a, ok).pc = "push" /\ Continue(a, ok).id = d
        BY <4>2 DEF Frame
      <4> QED
        BY <4>1, <4>3 DEF Pending
    <3>2. CASE f.pc = "move"
      <4>1. id = d /\ f.to \in {"Starting", "Cancelled"}
        BY <1>c, <3>2 DEF Pending
      <4> QED
        BY <1>c, <3>2, <4>1 DEF CanTransition, NextStates, States, Absent
    <3> QED
      BY <1>c, <3>1, <3>2
  <2> QED
    BY <1>c, <2>1, <2>2, PendGoto
<1>12. CASE Move(a)
  <2>d. PICK d \in Ids : d = f.id
    BY <1>0, <1>12 DEF Move, At, Nameless
  <2>1. CASE ~CanTransition(st[d], f.to) /\ Goto(a, Continue(a, FALSE)) /\ UNCHANGED st
    BY <1>12, <1>c, <2>d, <2>1 DEF Move, At
  <2>2. CASE CanTransition(st[d], f.to) /\ st' = [st EXCEPT ![d] = f.to] /\ Step(a, "copy")
    <3> DEFINE g == [f EXCEPT !.pc = "copy"]
    <3>1. /\ g.pc = "copy" /\ g.id = d /\ g.to = f.to /\ act' = [act EXCEPT ![a] = g]
          /\ created' = created /\ queue' = queue /\ f.pc = "move"
      BY <1>0, <1>12, <2>d, <2>2 DEF Move, At, Step, Frames
    <3> HIDE DEF g
    <3>2. st'[d] = f.to /\ \A id \in Ids : id # d => st'[id] = st[id]
      BY <2>2 DEF TypeOK
    <3>3. Aimed(g) /\ \A id \in Ids : Pending(f, id) => id = d /\ f.to \in {"Starting", "Cancelled"}
      BY <2>d, <3>1 DEF Aimed, Pending
    <3>4. \A id \in Ids : Pending(f, id) => st'[id] # "Queued"
      BY <3>2, <3>3
    <3>5. \A id \in Ids : st'[id] = "Queued" => st[id] = "Queued" \/ Pending(g, id)
      BY <3>1, <3>2 DEF Pending
    <3> QED
      BY <1>q, <3>1, <3>3, <3>4, <3>5, PendStep
  <2> QED
    BY <1>12, <2>d, <2>1, <2>2 DEF Move
<1>13. CASE Copy(a)
  <2>d. PICK d \in Ids : d = f.id
    BY <1>0, <1>13 DEF Copy, At, Nameless
  <2>1. f.pc = "copy" /\ created' = created /\ queue' = queue /\ st' = st
    BY <1>13 DEF Copy, At
  <2>2. CASE Goto(a, Continue(a, TRUE))
    BY <1>c, <2>d, <2>1, <2>2
  <2>3. CASE Goto(a, [f EXCEPT !.pc = "store", !.snap = st[f.id]])
    <3> DEFINE g == [f EXCEPT !.pc = "store", !.snap = st[f.id]]
    <3>1. g.pc = "store" /\ g.id = f.id /\ g.to = f.to /\ Goto(a, g)
      BY <1>0, <2>3 DEF Frames
    <3> HIDE DEF g
    <3>2. Aimed(g) /\ \A id \in Ids : Pending(f, id) => Pending(g, id)
      BY <2>1, <3>1 DEF Aimed, Pending
    <3> QED
      BY <2>1, <3>1, <3>2, PendGoto
  <2> QED
    BY <1>13, <2>2, <2>3 DEF Copy
<1>14. CASE Store(a)
  <2>d. PICK d \in Ids : d = f.id
    BY <1>0, <1>14 DEF Store, At, Nameless
  <2>1. /\ f.pc = "store" /\ created' = created /\ queue' = queue /\ st' = st
        /\ Goto(a, Continue(a, TRUE))
    BY <1>14 DEF Store, At
  <2> QED
    BY <1>c, <2>d, <2>1
<1>15. ASSUME NEW r \in Runs, Launch(a, r) PROVE PendInv'
  <2> DEFINE g == [f EXCEPT !.pc = "attach", !.run = r]
             h == Frame("spawned", "run", f.id, Absent)
  <2>1. /\ r # a /\ r \in Actors /\ act[r].pc = "done" /\ f.pc = "launch"
        /\ act' = [act EXCEPT ![a] = g, ![r] = h]
        /\ st' = st /\ queue' = queue /\ created' = created
    BY <1>15 DEF Launch, At, NextFree, Free, Actors
  <2>2. g.pc = "attach" /\ h.pc = "spawned"
    BY <1>0 DEF Frame, Frames
  <2> HIDE DEF g, h
  <2>3. /\ act'[a] = g /\ act'[r] = h
        /\ \A b \in Actors : b # a /\ b # r => act'[b] = act[b]
    BY <2>1 DEF TypeOK
  <2>4. \A b \in Actors, id \in Ids : Pending(act[b], id) => b # a /\ b # r
    BY <2>1 DEF Pending
  <2>5. Remembered'
    BY <2>1, <2>3, <2>4 DEF PendInv, Remembered
  <2>6. Ranked'
    BY <2>1 DEF PendInv, Ranked, Created
  <2>7. \A b \in Actors : Aimed(act'[b])
    BY <2>2, <2>3 DEF PendInv, Aimed
  <2> QED
    BY <1>q, <2>1, <2>5, <2>6, <2>7 DEF PendInv, Aimed
<1>16. CASE Attach(a)
  <2>1. \A id \in Ids : ~Pending(f, id)
    BY <1>16 DEF Attach, At, Pending
  <2> QED
    BY <1>16, <2>1, PendRest DEF Attach
<1> QED
  BY <1>1, <1>2, <1>3, <1>4, <1>5, <1>6, <1>7, <1>8, <1>9, <1>10, <1>11, <1>12,
     <1>13, <1>14, <1>15, <1>16 DEF Segment

\* Every step of a task keeps the invariant: no task works on a queued download.
LEMMA TaskPend ==
  ASSUME TypeOK, SlotInv, PendInv, NEW r \in Runs, Task(r)
  PROVE  PendInv'
<1> r \in Actors
  BY DEF Actors
<1> DEFINE f == act[r]
<1>1. /\ f.pc \in {"spawned", "transfer", "report"}
      /\ queue' = queue /\ created' = created
      /\ \A id \in Ids : st'[id] = "Queued" => st[id] = "Queued"
  BY DEF Task, RunBegin, Progress, Report, FinishOk, FinishErr, Abort, Resumes, At,
     map, disk, TypeOK
<1>2. PICK g : act' = [act EXCEPT ![r] = g] /\ Aimed(g)
  <2>1. /\ Aimed(Transfer(f.id)) /\ Aimed(Rest(r))
        /\ \A op, to : Aimed(Frame("move", op, f.id, to))
        /\ \A to, s : Aimed([Frame("report", "run", f.id, to) EXCEPT !.snap = s])
    BY RestPc DEF Transfer, Frame, Aimed
  <2> QED
    BY <2>1 DEF Task, RunBegin, Progress, Report, FinishOk, FinishErr, Abort, Goto
<1>3. \A id \in Ids : ~Pending(f, id)
  BY <1>1 DEF Pending
<1> QED
  BY <1>1, <1>2, <1>3, PendStep DEF PendInv

\* After a restart the rows in state Queued are in the queue.
LEMMA ReopenPend ==
  ASSUME TypeOK, SlotInv, PendInv, Reopen
  PROVE  PendInv'
<1> DEFINE new == [id \in Ids |-> Recovered(db[id])]
           S == {id \in Ids : new[id] = "Queued"}
<1>1. /\ st' = new /\ queue' = Ordered(S, created) /\ created' = created
      /\ \A a \in Actors : act'[a].pc \in {"idle", "done"}
  BY RestPc DEF Reopen, RowsInOrder
<1>2. S \subseteq Created
  BY DEF SlotInv, Uncreated, Created, Recovered, Active, Absent
<1>3. IsFiniteSet(S) /\ S \subseteq Ids
  BY FS_Subset, ActorsAssumption
<1>4. /\ \A id \in S : created[id] \in Nat
      /\ \A i, j \in S : created[i] = created[j] => i = j
  BY <1>2, <1>3 DEF PendInv, Ranked, TypeOK
<1>5. \A id \in Ids : st'[id] = "Queued" => id \in S
  BY <1>1
<1> HIDE DEF S, new
<1>6. /\ DOMAIN queue' = 1..Cardinality(S)
      /\ queue' \in [1..Cardinality(S) -> S]
      /\ \A id \in S : \E n \in 1..Cardinality(S) : queue'[n] = id
  BY <1>1, <1>3, <1>4, OrderedLists
<1>7. queue' \in Seq(Ids)
  BY <1>3, <1>6, FS_CardinalityType
<1>8. \A id \in S : id \in ToSet(queue')
  BY <1>6 DEF ToSet
<1>9. Remembered'
  BY <1>5, <1>8 DEF Remembered
<1>10. Ranked'
  BY <1>1 DEF PendInv, Ranked, Created
<1>11. \A a \in Actors : Aimed(act'[a])
  BY <1>1 DEF Aimed
<1> QED
  BY <1>7, <1>9, <1>10, <1>11 DEF PendInv, Aimed

\* PendInv is inductive.
LEMMA NextPend ==
  ASSUME ~SaveFails
  PROVE  TypeOK /\ SlotInv /\ PendInv /\ [Next]_vars => PendInv'
<1> SUFFICES ASSUME TypeOK, SlotInv, PendInv, [Next]_vars PROVE PendInv'
  OBVIOUS
<1>1. CASE Next
  BY <1>1, CallPend, SegmentPend, TaskPend, ReopenPend DEF Next
<1>2. CASE UNCHANGED vars
  BY <1>2 DEF vars, PendInv, Remembered, Ranked, Created, Aimed
<1> QED
  BY <1>1, <1>2

\* A new manager has an empty queue.
LEMMA InitPend == Init => PendInv
<1> SUFFICES ASSUME Init PROVE PendInv
  OBVIOUS
<1>1. \A a \in Actors : act[a].pc \in {"idle", "done"}
  BY RestPc DEF Init
<1>2. Created = {} /\ \A id \in Ids : created[id] = 0
  BY DEF Init, Created
<1>3. Cardinality(Created) = 0
  BY <1>2, FS_EmptySet
<1>4. Ranked
  BY <1>2, <1>3 DEF Ranked
<1> QED
  BY <1>1, <1>4 DEF Init, PendInv, Remembered, Aimed, Absent

\* A download in state Queued is in the queue or some call is about to put it
\* there, start it, cancel it or remove it, whatever calls, task ends, crashes
\* and restarts interleave, on any number of threads.
THEOREM QueuedRemembered ==
  ASSUME ~SaveFails
  PROVE  Spec => []QueuedIsPending
<1>1. Init => TypeOK /\ SlotInv /\ PendInv
  BY InitType, InitSlot, InitPend
<1>2. TypeOK /\ SlotInv /\ PendInv /\ [Next]_vars => (TypeOK /\ SlotInv /\ PendInv)'
  BY NextType, NextSlot, NextPend
<1>3. PendInv => QueuedIsPending
  BY DEF PendInv, Remembered, QueuedIsPending, Pending, Busy
<1> QED
  BY <1>1, <1>2, <1>3, PTL DEF Spec

(***************************************************************************)
(* On one thread the queue is exact: what is in it is in state Queued,     *)
(* once, and nobody is about to put it there or to take it out.            *)
(***************************************************************************)

Waiting ==
  \A id \in Ids : id \in ToSet(queue) =>
     st[id] = "Queued" /\ \A a \in Actors : ~Pending(act[a], id)

\* What is about to be put into the queue is in state Queued already.
Pushing(f) ==
  f.pc = "push" \/ (f.pc \in {"copy", "store"} /\ f.to = "Queued") => st[f.id] = "Queued"

QueueInv == Distinct(queue) /\ Waiting /\ \A a \in Actors : Pushing(act[a])

\* The busy actor, or one that starts when nobody is busy, moves on: nobody else
\* is about to do anything to the queue.
LEMMA ExactStep ==
  ASSUME TypeOK, LimitInv, QueueInv, NEW a \in Actors, NEW g,
         act' = [act EXCEPT ![a] = g], a \in Busy \/ Busy = {},
         Distinct(queue)',
         \A id \in Ids : id \in ToSet(queue') => st'[id] = "Queued" /\ ~Pending(g, id),
         g.pc = "push" \/ (g.pc \in {"copy", "store"} /\ g.to = "Queued") => st'[g.id] = "Queued"
  PROVE  QueueInv'
<1>1. /\ act'[a] = g
      /\ \A b \in Actors : b # a => act'[b] = act[b] /\ b \notin Busy
  BY BusyStep DEF LimitInv
<1>2. \A b \in Actors, id \in Ids : b # a => ~Pending(act'[b], id)
  BY <1>1 DEF Pending, Busy
<1>3. Waiting'
  BY <1>1, <1>2 DEF Waiting
<1>4. \A b \in Actors : Pushing(act[b])'
  BY <1>1 DEF Pushing, Busy
<1> QED
  BY <1>3, <1>4 DEF QueueInv

\* The same when neither map nor queue changes: the actor is about to do nothing
\* to the queue that it was not about to do before.
LEMMA ExactGoto ==
  ASSUME TypeOK, LimitInv, QueueInv, NEW a \in Actors, NEW g, Goto(a, g),
         a \in Busy \/ Busy = {}, queue' = queue, st' = st,
         \A id \in Ids : Pending(g, id) => Pending(act[a], id),
         g.pc = "push" \/ (g.pc \in {"copy", "store"} /\ g.to = "Queued") => st[g.id] = "Queued"
  PROVE  QueueInv'
BY ExactStep DEF Goto, QueueInv, Waiting, Distinct

\* The same for an actor that goes on to a frame in which it is about to do
\* nothing to the queue, by itself or by its program counter.
Aside(f) ==
  f.pc \in {"insert", "capacity", "intend", "signal", "unqueue", "count", "select", "take",
            "erase", "attach", "launch", "idle", "done", "spawned", "transfer", "report"}
  \/ (f.pc = "move" /\ (f.op \in {"end", "orphan"} \/ f.to = "Queued"))

LEMMA ExactAside ==
  ASSUME TypeOK, LimitInv, QueueInv, NEW a \in Actors, NEW g, Goto(a, g), Aside(g),
         a \in Busy \/ Busy = {}, queue' = queue, st' = st
  PROVE  QueueInv'
<1>1. \A id \in Ids : ~Pending(g, id)
  BY DEF Aside, Pending
<1> QED
  BY <1>1, ExactGoto DEF Aside

LEMMA ExactCounter ==
  ASSUME TypeOK, LimitInv, QueueInv, NEW a \in Actors, NEW pc, Step(a, pc), a \in Busy,
         pc \in {"unqueue", "signal", "select", "erase"}, queue' = queue, st' = st
  PROVE  QueueInv'
<1> DEFINE g == [act[a] EXCEPT !.pc = pc]
<1>1. g.pc = pc /\ Goto(a, g)
  BY DEF TypeOK, Frames, Step, Goto
<1> HIDE DEF g
<1> QED
  BY <1>1, ExactAside DEF Aside

LEMMA RestAside == Aside(Loop) /\ \A a : Aside(Rest(a))
BY RestPc DEF Aside

\* What follows a transition puts into the queue only what was to be put there.
LEMMA ExactContinue ==
  ASSUME TypeOK, LimitInv, QueueInv, NEW a \in Busy, NEW ok \in BOOLEAN,
         Goto(a, Continue(a, ok)), act[a].id \in Ids, queue' = queue, st' = st,
         act[a].pc \in {"copy", "store", "move"}, act[a].pc = "move" => ~ok
  PROVE  QueueInv'
<1> a \in Actors
  BY DEF Busy
<1>1. CASE Continue(a, ok).pc = "push"
  <2>1. ok /\ act[a].to = "Queued" /\ Continue(a, ok) = Frame("push", "requeue", act[a].id, Absent)
    <3>1. Loop.pc # "push" /\ Rest(a).pc # "push"
      BY RestPc
    <3>2. [act[a] EXCEPT !.pc = "launch", !.snap = Absent].pc # "push"
      BY DEF TypeOK, Frames
    <3> QED
      BY <1>1, <3>1, <3>2 DEF Continue
  <2>2. Continue(a, ok).pc = "push" /\ Continue(a, ok).id = act[a].id
    <3>1. /\ Frame("push", "requeue", act[a].id, Absent).pc = "push"
          /\ Frame("push", "requeue", act[a].id, Absent).id = act[a].id
      BY DEF Frame
    <3> QED
      BY <2>1, <3>1
  <2>3. act[a].pc \in {"copy", "store"} /\ st[act[a].id] = "Queued"
    BY <2>1 DEF QueueInv, Pushing
  <2>4. \A id \in Ids : Pending(Continue(a, ok), id) => Pending(act[a], id)
    BY <2>1, <2>2, <2>3 DEF Pending
  <2> QED
    BY <2>2, <2>3, <2>4, ExactGoto
<1>2. CASE Continue(a, ok).pc # "push"
  BY <1>2, ContinuePc, ExactAside DEF Aside
<1> QED
  BY <1>1, <1>2

\* Every API call keeps the invariant.
LEMMA CallExact ==
  ASSUME Workers = 1, TypeOK, LimitInv, QueueInv, NEW c \in Callers, Call(c)
  PROVE  QueueInv'
<1> c \in Actors
  BY DEF Actors
<1>1. CASE CallShutdown(c)
  BY <1>1 DEF CallShutdown, QueueInv, Waiting, Distinct, Pushing
<1>2. CASE ~CallShutdown(c)
  <2>1. /\ Busy = {} /\ queue' = queue /\ st' = st
    BY <1>2, RunsAlone DEF Call, CallEnqueue, CallStart, CallPause, CallResume, CallRetry,
       CallCancelActive, CallCancelWaiting, CallRemove, Reads, Calls, map
  <2>2. PICK g : Goto(c, g) /\ Aside(g)
    <3>1. \A op, id, to :
            /\ \A pc \in {"insert", "capacity", "intend", "signal", "unqueue"} :
                  Aside(Frame(pc, op, id, to))
            /\ Aside(Frame("move", op, id, "Queued"))
      BY DEF Frame, Aside
    <3> QED
      BY <1>2, <3>1 DEF Call, CallEnqueue, CallStart, CallPause, CallResume, CallRetry,
         CallCancelActive, CallCancelWaiting, CallRemove, Reads
  <2> QED
    BY <2>1, <2>2, ExactAside
<1> QED
  BY <1>1, <1>2

\* Every segment keeps the invariant.
LEMMA SegmentExact ==
  ASSUME ~SaveFails, TypeOK, SlotInv, LimitInv, PendInv, QueueInv, NEW a \in Actors, Segment(a)
  PROVE  QueueInv'
<1> DEFINE f == act[a]
<1>0. /\ f \in Frames /\ (f.pc \notin Nameless => f.id \in Ids)
      /\ Target(f) /\ Aimed(f) /\ Pushing(f)
  BY FrameParts DEF TypeOK, SlotInv, Targets, PendInv, QueueInv
<1>q. queue \in Seq(Ids) /\ Distinct(queue)
  BY DEF PendInv, QueueInv
<1>w. \A id \in Ids : id \in ToSet(queue) => st[id] = "Queued" /\ ~Pending(f, id)
  BY DEF QueueInv, Waiting
<1>b. a \in Busy
  BY SegmentBusy
<1> USE RestAside DEF map
<1>1. CASE Insert(a)
  <2>d. PICK d \in Ids : d = f.id
    BY <1>0, <1>1 DEF Insert, At, Nameless
  <2> DEFINE g == [f EXCEPT !.pc = "push"]
  <2>1. /\ g.pc = "push" /\ g.id = d /\ act' = [act EXCEPT ![a] = g] /\ f.pc = "insert"
        /\ queue' = queue /\ st' = [st EXCEPT ![d] = "Queued"]
    BY <1>0, <1>1, <2>d DEF Insert, At, Step, Frames
  <2> HIDE DEF g
  <2>2. st[d] = Absent
    BY <2>d, <2>1 DEF SlotInv, InsertFresh, Inserting
  <2>3. d \notin ToSet(queue)
    BY <1>w, <2>2 DEF Absent
  <2>4. st'[d] = "Queued" /\ \A id \in Ids : id # d => st'[id] = st[id]
    BY <2>1 DEF TypeOK
  <2>5. \A id \in Ids : Pending(g, id) => id = d
    BY <2>1 DEF Pending
  <2>6. Distinct(queue)'
    BY <1>q, <2>1 DEF Distinct
  <2>7. \A id \in Ids : id \in ToSet(queue') => st'[id] = "Queued" /\ ~Pending(g, id)
    BY <1>w, <2>1, <2>3, <2>4, <2>5
  <2> QED
    BY <1>b, <2>1, <2>4, <2>6, <2>7, ExactStep
<1>2. CASE Push(a)
  <2>d. PICK d \in Ids : d = f.id
    BY <1>0, <1>2 DEF Push, At, Nameless
  <2>1. /\ act' = [act EXCEPT ![a] = Loop] /\ f.pc = "push" /\ Pending(f, d) /\ st[d] = "Queued"
        /\ st' = st /\ queue' = Append(queue, d)
    BY <1>0, <1>2, <2>d DEF Push, At, Goto, Pending, Pushing
  <2>2. d \notin ToSet(queue)
    BY <1>w, <2>1
  <2>3. ToSet(queue') = ToSet(queue) \cup {d} /\ Distinct(Append(queue, d))
    BY <1>q, <2>1, <2>2, AppendAdds
  <2>4. Distinct(queue)'
    BY <2>1, <2>3 DEF Distinct
  <2>5. \A id \in Ids : ~Pending(Loop, id)
    BY RestPc DEF Pending
  <2>6. \A id \in Ids : id \in ToSet(queue') => st'[id] = "Queued" /\ ~Pending(Loop, id)
    BY <1>w, <2>1, <2>3, <2>5
  <2> QED
    BY <1>b, <2>1, <2>4, <2>6, RestPc, ExactStep
<1>3. CASE Capacity(a)
  BY <1>3, <1>b, ExactAside, ExactCounter DEF Capacity
<1>u. ASSUME NEW pc \in {"move", "forget"}, NEW d \in Ids, d = f.id,
             queue' = Without(queue, d), Step(a, pc), st' = st
      PROVE  QueueInv'
  <2> DEFINE g == [f EXCEPT !.pc = pc]
  <2>1. g.pc = pc /\ g.id = d /\ act' = [act EXCEPT ![a] = g]
    BY <1>0, <1>u DEF Step, Frames
  <2> HIDE DEF g
  <2>2. ToSet(queue') = ToSet(queue) \ {d} /\ Distinct(Without(queue, d))
    BY <1>q, <1>u, WithoutKeeps
  <2>3. Distinct(queue)'
    BY <1>u, <2>2 DEF Distinct
  <2>4. \A id \in Ids : id \in ToSet(queue') => st'[id] = "Queued" /\ ~Pending(g, id)
    BY <1>u, <1>w, <2>1, <2>2 DEF Pending
  <2> QED
    BY <1>b, <1>u, <2>1, <2>3, <2>4, ExactStep
<1>4. CASE Unqueue(a)
  BY <1>0, <1>4, <1>u DEF Unqueue, At, Nameless
<1>5. CASE Intend(a)
  BY <1>5, <1>b, ExactCounter DEF Intend
<1>6. CASE Signal(a)
  BY <1>6, <1>b, ExactAside DEF Signal
<1>7. CASE Forget(a)
  <2>d. PICK d \in Ids : d = f.id
    BY <1>0, <1>7 DEF Forget, At, Nameless
  <2> DEFINE g == [f EXCEPT !.pc = "erase"]
  <2>1. /\ g.pc = "erase" /\ act' = [act EXCEPT ![a] = g] /\ Pending(f, d)
        /\ queue' = queue /\ st' = [st EXCEPT ![d] = Absent]
    BY <1>0, <1>7, <2>d DEF Forget, At, Step, Frames, Pending
  <2> HIDE DEF g
  <2>2. \A id \in Ids : id # d => st'[id] = st[id]
    BY <2>1 DEF TypeOK
  <2>3. \A id \in Ids : ~Pending(g, id)
    BY <2>1 DEF Pending
  <2>4. \A id \in Ids : id \in ToSet(queue') => st'[id] = "Queued" /\ ~Pending(g, id)
    BY <1>w, <2>1, <2>2, <2>3
  <2>5. Distinct(queue)'
    BY <1>q, <2>1 DEF Distinct
  <2> QED
    BY <1>b, <2>1, <2>4, <2>5, ExactStep
<1>8. CASE Erase(a)
  BY <1>8, <1>b, ExactAside DEF Erase
<1>9. CASE Count(a)
  BY <1>9, <1>b, ExactAside, ExactCounter DEF Count
<1>10. CASE Select(a)
  <2>1. \A id \in Ids : Aside(Frame("take", "loop", id, "Starting"))
    BY DEF Frame, Aside
  <2> QED
    BY <1>10, <1>b, <2>1, ExactAside DEF Select
<1>11. CASE Take(a)
  BY <1>0, <1>11, <1>u DEF Take, At, Nameless
<1>12. CASE Move(a)
  <2>d. PICK d \in Ids : d = f.id
    BY <1>0, <1>12 DEF Move, At, Nameless
  <2>0. f.pc = "move" /\ queue' = queue
    BY <1>12 DEF Move, At
  <2>1. CASE Goto(a, Continue(a, FALSE)) /\ UNCHANGED st
    BY <1>b, <2>0, <2>d, <2>1, ExactContinue
  <2>2. CASE CanTransition(st[d], f.to) /\ st' = [st EXCEPT ![d] = f.to] /\ Step(a, "copy")
    <3> DEFINE g == [f EXCEPT !.pc = "copy"]
    <3>1. g.pc = "copy" /\ g.id = d /\ g.to = f.to /\ act' = [act EXCEPT ![a] = g]
      BY <1>0, <2>d, <2>2 DEF Step, Frames
    <3> HIDE DEF g
    <3>2. st'[d] = f.to /\ \A id \in Ids : id # d => st'[id] = st[id]
      BY <2>2 DEF TypeOK
    <3>3. d \notin ToSet(queue)
      <4> SUFFICES ASSUME d \in ToSet(queue) PROVE FALSE
        OBVIOUS
      <4>1. st[d] = "Queued" /\ ~Pending(f, d)
        BY <1>w
      <4>2. f.to \in {"Starting", "Failed", "Cancelled"}
        BY <2>2, <4>1 DEF CanTransition, NextStates, States
      <4>3. f.op \in {"end", "orphan"}
        BY <1>0, <2>0, <2>d, <4>1, <4>2 DEF Pending, Target, Absent
      <4>4. Holds(a, d)
        BY <2>0, <2>d, <4>3 DEF Holds, Holding
      <4> QED
        BY <4>1, <4>4 DEF SlotInv, HeldState, Active, Absent
    <3>4. \A id \in Ids : Pending(g, id) => id = d
      BY <3>1 DEF Pending
    <3>5. \A id \in Ids : id \in ToSet(queue') => st'[id] = "Queued" /\ ~Pending(g, id)
      BY <1>w, <2>0, <3>2, <3>3, <3>4
    <3>6. Distinct(queue)'
      BY <1>q, <2>0 DEF Distinct
    <3> QED
      BY <1>b, <3>1, <3>2, <3>5, <3>6, ExactStep
  <2> QED
    BY <1>12, <2>d, <2>1, <2>2 DEF Move
<1>13. CASE Copy(a)
  <2>1. f.pc = "copy" /\ f.id \in Ids /\ queue' = queue /\ st' = st
    BY <1>0, <1>13 DEF Copy, At, Nameless
  <2>2. CASE Goto(a, Continue(a, TRUE))
    BY <1>b, <2>1, <2>2, ExactContinue
  <2>3. CASE Goto(a, [f EXCEPT !.pc = "store", !.snap = st[f.id]])
    <3> DEFINE g == [f EXCEPT !.pc = "store", !.snap = st[f.id]]
    <3>1. g.pc = "store" /\ g.id = f.id /\ g.to = f.to /\ Goto(a, g)
      BY <1>0, <2>3 DEF Frames
    <3> HIDE DEF g
    <3>2. \A id \in Ids : Pending(g, id) => Pending(f, id)
      BY <2>1, <3>1 DEF Pending
    <3>3. g.to = "Queued" => st[g.id] = "Queued"
      BY <1>0, <2>1, <3>1 DEF Pushing
    <3> QED
      BY <1>b, <2>1, <3>1, <3>2, <3>3, ExactGoto
  <2> QED
    BY <1>13, <2>2, <2>3 DEF Copy
<1>14. CASE Store(a)
  <2>1. /\ f.pc = "store" /\ f.id \in Ids /\ queue' = queue /\ st' = st
        /\ Goto(a, Continue(a, TRUE))
    BY <1>0, <1>14 DEF Store, At, Nameless
  <2> QED
    BY <1>b, <2>1, ExactContinue
<1>15. ASSUME NEW r \in Runs, Launch(a, r) PROVE QueueInv'
  <2> DEFINE g == [f EXCEPT !.pc = "attach", !.run = r]
             h == Frame("spawned", "run", f.id, Absent)
  <2>1. /\ r # a /\ r \in Actors /\ act' = [act EXCEPT ![a] = g, ![r] = h]
        /\ st' = st /\ queue' = queue
    BY <1>15 DEF Launch, At, NextFree, Free, Actors
  <2>2. g.pc = "attach" /\ h.pc = "spawned"
    BY <1>0 DEF Frame, Frames
  <2> HIDE DEF g, h
  <2>3. /\ act'[a] = g /\ act'[r] = h
        /\ \A b \in Actors : b # a /\ b # r => act'[b] = act[b]
    BY <2>1 DEF TypeOK
  <2>4. \A b \in Actors, id \in Ids : Pending(act'[b], id) => Pending(act[b], id)
    BY <2>2, <2>3 DEF Pending
  <2>5. Waiting'
    BY <2>1, <2>4 DEF QueueInv, Waiting
  <2>6. \A b \in Actors : Pushing(act[b])'
    BY <2>1, <2>2, <2>3 DEF QueueInv, Pushing
  <2> QED
    BY <1>q, <2>1, <2>5, <2>6 DEF QueueInv, Distinct
<1>16. CASE Attach(a)
  BY <1>16, <1>b, ExactAside DEF Attach
<1> QED
  BY <1>1, <1>2, <1>3, <1>4, <1>5, <1>6, <1>7, <1>8, <1>9, <1>10, <1>11, <1>12,
     <1>13, <1>14, <1>15, <1>16 DEF Segment

\* Every step of a task keeps the invariant.  Abort is the one that may happen
\* while somebody else is busy.
LEMMA TaskExact ==
  ASSUME Workers = 1, TypeOK, LimitInv, QueueInv, NEW r \in Runs, Task(r)
  PROVE  QueueInv'
<1> r \in Actors
  BY DEF Actors
<1> DEFINE f == act[r]
<1> USE RestAside DEF map
<1>a. /\ Aside(Transfer(f.id))
      /\ \A op \in {"end", "orphan"} : \A to : Aside(Frame("move", op, f.id, to))
  BY DEF Transfer, Frame, Aside
<1>1. CASE RunBegin(r) \/ FinishOk(r) \/ FinishErr(r)
  <2>1. Busy = {} /\ queue' = queue /\ st' = st
    BY <1>1, RunsAlone DEF RunBegin, FinishOk, FinishErr, Resumes
  <2>2. PICK g : Goto(r, g) /\ Aside(g)
    BY <1>1, <1>a DEF RunBegin, FinishOk, FinishErr
  <2> QED
    BY <2>1, <2>2, ExactAside
<1>2. CASE Progress(r)
  <2> DEFINE g == [Frame("report", "run", f.id, IF st[f.id] = "Starting" THEN "Downloading" ELSE Absent)
                     EXCEPT !.snap = st'[f.id]]
  <2>1. /\ Busy = {} /\ queue' = queue /\ act' = [act EXCEPT ![r] = g]
        /\ \A id \in Ids : st[id] = "Queued" => st'[id] = "Queued"
    BY <1>2, RunsAlone DEF Progress, Resumes, Goto, TypeOK
  <2>2. g.pc = "report"
    BY DEF Frame
  <2> HIDE DEF g
  <2>3. \A id \in Ids : id \in ToSet(queue') => st'[id] = "Queued" /\ ~Pending(g, id)
    BY <2>1, <2>2 DEF QueueInv, Waiting, Pending
  <2>4. Distinct(queue)'
    BY <2>1 DEF QueueInv, Distinct
  <2> QED
    BY <2>1, <2>2, <2>3, <2>4, ExactStep
<1>3. CASE Report(r)
  BY <1>3, <1>a, ExactAside DEF Report, At, Busy
<1>4. CASE Abort(r)
  <2>1. /\ act' = [act EXCEPT ![r] = Rest(r)] /\ queue' = queue /\ st' = st
    BY <1>4 DEF Abort, Goto
  <2>2. act'[r].pc \in {"idle", "done"} /\ \A b \in Actors : b # r => act'[b] = act[b]
    BY <2>1, RestPc DEF TypeOK
  <2>3. \A b \in Actors, id \in Ids : Pending(act'[b], id) => Pending(act[b], id)
    BY <2>2 DEF Pending
  <2>4. \A b \in Actors : Pushing(act[b])'
    BY <2>1, <2>2 DEF QueueInv, Pushing
  <2> QED
    BY <2>1, <2>3, <2>4 DEF QueueInv, Waiting, Distinct
<1> QED
  BY <1>1, <1>2, <1>3, <1>4 DEF Task

\* After a restart the queue is exactly the rows in state Queued.
LEMMA ReopenExact ==
  ASSUME TypeOK, SlotInv, PendInv, Reopen
  PROVE  QueueInv'
<1> DEFINE new == [id \in Ids |-> Recovered(db[id])]
           S == {id \in Ids : new[id] = "Queued"}
<1>1. /\ st' = new /\ queue' = Ordered(S, created)
      /\ \A a \in Actors : act'[a].pc \in {"idle", "done"}
  BY RestPc DEF Reopen, RowsInOrder
<1>2. S \subseteq Created
  BY DEF SlotInv, Uncreated, Created, Recovered, Active, Absent
<1>3. IsFiniteSet(S) /\ S \subseteq Ids
  BY FS_Subset, ActorsAssumption
<1>4. /\ \A id \in S : created[id] \in Nat
      /\ \A i, j \in S : created[i] = created[j] => i = j
  BY <1>2, <1>3 DEF PendInv, Ranked, TypeOK
<1>5. \A id \in S : st'[id] = "Queued"
  BY <1>1
<1> HIDE DEF S, new
<1>6. /\ DOMAIN queue' = 1..Cardinality(S)
      /\ queue' \in [1..Cardinality(S) -> S]
      /\ \A n, m \in 1..Cardinality(S) : queue'[n] = queue'[m] => n = m
  BY <1>1, <1>3, <1>4, OrderedLists
<1>7. Distinct(queue)'
  BY <1>6 DEF Distinct
<1>8. \A id \in Ids : id \in ToSet(queue') => st'[id] = "Queued"
  BY <1>5, <1>6 DEF ToSet
<1>9. \A a \in Actors, id \in Ids : ~Pending(act'[a], id)
  BY <1>1 DEF Pending
<1>10. \A a \in Actors : Pushing(act[a])'
  BY <1>1 DEF Pushing
<1> QED
  BY <1>7, <1>8, <1>9, <1>10 DEF QueueInv, Waiting

\* QueueInv is inductive.
LEMMA NextExact ==
  ASSUME Workers = 1, ~SaveFails
  PROVE  TypeOK /\ SlotInv /\ LimitInv /\ PendInv /\ QueueInv /\ [Next]_vars => QueueInv'
<1> SUFFICES ASSUME TypeOK, SlotInv, LimitInv, PendInv, QueueInv, [Next]_vars PROVE QueueInv'
  OBVIOUS
<1>1. CASE Next
  BY <1>1, CallExact, SegmentExact, TaskExact, ReopenExact DEF Next
<1>2. CASE UNCHANGED vars
  BY <1>2 DEF vars, QueueInv, Waiting, Distinct, Pushing
<1> QED
  BY <1>1, <1>2

LEMMA InitExact == Init => QueueInv
<1> SUFFICES ASSUME Init PROVE QueueInv
  OBVIOUS
<1>1. \A a \in Actors : act[a].pc \in {"idle", "done"}
  BY RestPc DEF Init
<1>2. DOMAIN queue = {}
  BY DEF Init
<1> QED
  BY <1>1, <1>2 DEF QueueInv, Distinct, Waiting, Pushing, ToSet

\* A list without repetitions is as long as the set of its elements is large.
LEMMA DistinctLength ==
  ASSUME NEW q \in Seq(Ids), Distinct(q)
  PROVE  Len(q) = Cardinality(ToSet(q))
<1>1. DOMAIN q = 1..Len(q) /\ Len(q) \in Nat
  OBVIOUS
<1>2. ToSet(q) = {q[n] : n \in 1..Len(q)}
  BY <1>1 DEF ToSet
<1>3. q \in [1..Len(q) -> ToSet(q)]
  BY <1>1, <1>2
<1>4. /\ \A i, j \in 1..Len(q) : q[i] = q[j] => i = j
      /\ \A x \in ToSet(q) : \E i \in 1..Len(q) : q[i] = x
  BY <1>1, <1>2 DEF Distinct
<1>5. q \in Bijection(1..Len(q), ToSet(q))
  BY <1>3, <1>4 DEF Bijection, Injection, Surjection, IsInjective
<1>6. IsFiniteSet(1..Len(q)) /\ Cardinality(1..Len(q)) = Len(q)
  BY <1>1, FS_Interval
<1> QED
  BY <1>5, <1>6, FS_Bijection DEF ExistsBijection

\* On one thread, whenever no call and no task is in the middle of its work, the
\* queue holds exactly the downloads in state Queued, each once, through every
\* call, task end, crash and restart.
THEOREM QueueIsExact ==
  ASSUME Workers = 1, ~SaveFails
  PROVE  Spec => []QueueExact
<1>1. Init => TypeOK /\ SlotInv /\ LimitInv /\ PendInv /\ QueueInv
  BY InitType, InitSlot, InitLimit, InitPend, InitExact
<1>2. /\ TypeOK /\ SlotInv /\ LimitInv /\ PendInv /\ QueueInv /\ [Next]_vars
      => (TypeOK /\ SlotInv /\ LimitInv /\ PendInv /\ QueueInv)'
  BY NextType, NextSlot, NextLimit, NextPend, NextExact
<1>3. PendInv /\ QueueInv => QueueExact
  <2> SUFFICES ASSUME PendInv, QueueInv, Resting PROVE QueueExact
    BY DEF QueueExact
  <2>1. \A a \in Actors, id \in Ids : ~Pending(act[a], id)
    BY DEF Pending, Resting, Busy
  <2>2. ToSet(queue) \subseteq Ids
    BY DEF PendInv, ToSet
  <2>3. ToSet(queue) = {id \in Ids : st[id] = "Queued"}
    BY <2>1, <2>2 DEF PendInv, Remembered, QueueInv, Waiting
  <2>4. Len(queue) = Cardinality(ToSet(queue))
    BY DistinctLength DEF PendInv, QueueInv
  <2> QED
    BY <2>3, <2>4 DEF QueueExact
<1> QED
  BY <1>1, <1>2, <1>3, PTL DEF Spec

(***************************************************************************)
(* On one thread no slot stays free while a download waits: whoever gives  *)
(* a slot back, and whoever puts a download into the queue, runs the       *)
(* scheduler before anybody else looks.                                    *)
(***************************************************************************)

\* The code that will run the scheduler, or is in it.
Waking == {"loop", "end", "orphan", "remove"}

\* Where such code is, and what it is about to do.
Where(f) ==
  /\ f.op = "loop" =>
       \/ f.pc \in {"count", "select"}
       \/ f.to = "Starting" /\ f.pc \in {"take", "move", "copy", "store", "launch", "attach"}
  /\ f.op \in {"end", "orphan"} =>
       f.pc \in {"move", "copy", "store"} /\ f.to \notin {"Starting", "Queued"}
  /\ f.op = "remove" => f.pc \in {"unqueue", "forget", "erase"}
  /\ f.pc \in {"count", "select"} => f.op = "loop"
  /\ f.pc \in {"forget", "erase"} => f.op = "remove"

Startable == queue # <<>> /\ HasRoom
Awake == Startable => \E a \in Actors : act[a].op \in Waking
IdleInv == Awake /\ \A a \in Actors : Where(act[a])

\* An actor moves on; if it is not going to run the scheduler it was not about
\* to do so before, and there is nothing more to start than there was.
LEMMA IdleStep ==
  ASSUME TypeOK, IdleInv, NEW a \in Actors, NEW g, act' = [act EXCEPT ![a] = g], Where(g),
         Startable' => g.op \in Waking \/ (act[a].op \notin Waking /\ Startable)
  PROVE  IdleInv'
<1>1. act'[a] = g /\ \A b \in Actors : b # a => act'[b] = act[b]
  BY DEF TypeOK
<1>2. \A b \in Actors : Where(act'[b])
  BY <1>1 DEF IdleInv
<1>3. Awake'
  <2> SUFFICES ASSUME Startable', g.op \notin Waking
               PROVE  \E b \in Actors : act'[b].op \in Waking
    BY <1>1 DEF Awake
  <2>1. PICK b \in Actors : act[b].op \in Waking
    BY DEF IdleInv, Awake
  <2>2. b # a
    BY <2>1
  <2> QED
    BY <1>1, <2>1, <2>2
<1> QED
  BY <1>2, <1>3 DEF IdleInv, Where

\* The same when map and queue stay as they are.
LEMMA IdleGoto ==
  ASSUME TypeOK, IdleInv, NEW a \in Actors, NEW g, Goto(a, g), Where(g), st' = st, queue' = queue,
         g.op \in Waking \/ act[a].op \notin Waking \/ ~Startable
  PROVE  IdleInv'
<1>1. Startable' <=> Startable
  BY DEF Startable, HasRoom, ActiveIds
<1> QED
  BY <1>1, IdleStep DEF Goto

\* A step that frees no slot gives no room.
LEMMA NoRoomGained ==
  ASSUME \A id \in Ids : st[id] \in Active => st'[id] \in Active, HasRoom'
  PROVE  HasRoom
<1>1. ActiveIds \subseteq ActiveIds'
  BY DEF ActiveIds
<1>2. Cardinality(ActiveIds) <= Cardinality(ActiveIds')
  BY <1>1, ActiveFiniteNext, FS_Subset
<1> QED
  BY <1>2, ActiveFinite, ActiveFiniteNext, ConfigAssumption DEF HasRoom

\* An actor that only moves its program counter.
LEMMA IdleCounter ==
  ASSUME TypeOK, IdleInv, NEW a \in Actors, NEW pc, Step(a, pc),
         \A g : g.pc = pc /\ g.op = act[a].op /\ g.to = act[a].to => Where(g),
         act[a].op \in Waking \/ \A id \in Ids : st[id] \in Active => st'[id] \in Active,
         queue = <<>> => queue' = <<>>
  PROVE  IdleInv'
<1> DEFINE g == [act[a] EXCEPT !.pc = pc]
<1>1. g.pc = pc /\ g.op = act[a].op /\ g.to = act[a].to /\ act' = [act EXCEPT ![a] = g]
  BY DEF TypeOK, Frames, Step
<1> HIDE DEF g
<1>2. Where(g)
  BY <1>1
<1>3. Startable' => act[a].op \in Waking \/ Startable
  BY NoRoomGained DEF Startable
<1> QED
  BY <1>1, <1>2, <1>3, IdleStep

\* The frames of an actor that starts to schedule, or is at rest.
LEMMA RestWhere ==
  /\ Loop.op \in Waking /\ Where(Loop)
  /\ \A a : Where(Rest(a))
BY DEF Loop, Rest, Frame, Where, Waking

\* What follows a transition runs the scheduler if it was to.
LEMMA IdleContinue ==
  ASSUME TypeOK, IdleInv, NEW a \in Actors, NEW ok \in BOOLEAN, Goto(a, Continue(a, ok)),
         act[a].pc \in {"move", "copy", "store"}, queue' = queue, st' = st
  PROVE  IdleInv'
<1> DEFINE f == act[a]
           g == [f EXCEPT !.pc = "launch", !.snap = Absent]
           h == Frame("push", "requeue", f.id, Absent)
<1>0. f \in Frames /\ Where(f)
  BY DEF TypeOK, IdleInv
<1>1. /\ g.pc = "launch" /\ g.op = f.op /\ g.to = f.to
      /\ h.pc = "push" /\ h.op = "requeue"
  BY <1>0 DEF Frames, Frame
<1> HIDE DEF g, h
<1>2. CASE f.to = "Starting" /\ Goto(a, g)
  <2>1. Where(g)
    BY <1>0, <1>1, <1>2 DEF Where
  <2> QED
    BY <1>1, <1>2, <2>1, IdleGoto
<1>3. CASE f.to = "Queued" /\ Goto(a, h)
  <2>1. Where(h) /\ f.op \notin Waking
    BY <1>0, <1>1, <1>3 DEF Where, Waking
  <2> QED
    BY <1>3, <2>1, IdleGoto
<1>4. CASE Goto(a, Loop)
  BY <1>4, RestWhere, IdleGoto
<1>5. CASE ~SchedulesAfter(f.op) /\ Goto(a, Rest(a))
  <2>1. f.op \notin Waking
    BY <1>0, <1>5 DEF Where, Waking, SchedulesAfter
  <2> QED
    BY <1>5, <2>1, RestWhere, IdleGoto
<1> QED
  BY <1>2, <1>3, <1>4, <1>5 DEF Continue, g, h

\* Every API call keeps the invariant.
LEMMA CallIdle ==
  ASSUME TypeOK, IdleInv, NEW c \in Callers, Call(c)
  PROVE  IdleInv'
<1> c \in Actors
  BY DEF Actors
<1>1. CASE CallShutdown(c)
  BY <1>1 DEF CallShutdown, IdleInv, Awake, Startable, HasRoom, ActiveIds, Where
<1>2. CASE ~CallShutdown(c)
  <2>1. act[c].op \notin Waking
    BY <1>2 DEF Call, CallEnqueue, CallStart, CallPause, CallResume, CallRetry,
       CallCancelActive, CallCancelWaiting, CallRemove, Reads, Calls, At, IdleInv, Where, Waking
  <2>2. st' = st /\ queue' = queue
    BY <1>2 DEF Call, CallEnqueue, CallStart, CallPause, CallResume, CallRetry,
       CallCancelActive, CallCancelWaiting, CallRemove, Reads, map
  <2>3. PICK g : Goto(c, g) /\ Where(g)
    <3>1. \A op \in {"enqueue", "start", "pause", "requeue", "cancel"} : \A id, to :
            \A pc \in {"insert", "capacity", "intend", "signal", "unqueue", "move"} :
                  Where(Frame(pc, op, id, to))
      BY DEF Frame, Where
    <3>2. \A id : Where(Frame("unqueue", "remove", id, Absent))
      BY DEF Frame, Where
    <3> QED
      BY <1>2, <3>1, <3>2 DEF Call, CallEnqueue, CallStart, CallPause, CallResume, CallRetry,
         CallCancelActive, CallCancelWaiting, CallRemove, Reads
  <2> QED
    BY <2>1, <2>2, <2>3, IdleGoto
<1> QED
  BY <1>1, <1>2

\* Every segment keeps the invariant.  A slot is given back by the end of a task
\* or by remove(): a cancel from outside has found no transfer.
LEMMA SegmentIdle ==
  ASSUME ~SaveFails, TypeOK, SlotInv, RecordInv, PendInv, IdleInv, NEW a \in Actors, Segment(a)
  PROVE  IdleInv'
<1> DEFINE f == act[a]
<1>0. /\ f \in Frames /\ (f.pc \notin Nameless => f.id \in Ids)
      /\ Target(f) /\ Aimed(f) /\ Honest(f) /\ Where(f)
  BY FrameParts DEF TypeOK, SlotInv, Targets, PendInv, IdleInv, RecordInv
<1>q. queue \in Seq(Ids)
  BY DEF PendInv
<1>w. \A d : queue = <<>> => Without(queue, d) = <<>>
  BY WithoutEmpty
<1> USE RestWhere DEF map
<1>1. CASE Insert(a)
  <2>1. \A id \in Ids : st[id] \in Active => st'[id] \in Active
    BY <1>0, <1>1 DEF Insert, At, Nameless, SlotInv, InsertFresh, Inserting, TypeOK, Active, Absent
  <2>2. \A g : g.pc = "push" /\ g.op = f.op /\ g.to = f.to => Where(g)
    BY <1>0, <1>1 DEF Insert, At, Where
  <2> QED
    BY <1>1, <2>1, <2>2, IdleCounter DEF Insert
<1>2. CASE Push(a)
  BY <1>2, IdleStep DEF Push, Goto
<1>3. CASE Capacity(a)
  <2>1. f.op \notin Waking /\ st' = st /\ queue' = queue
    BY <1>0, <1>3 DEF Capacity, At, Where, Waking
  <2>2. \A g : g.pc = "unqueue" /\ g.op = f.op /\ g.to = f.to => Where(g)
    BY <2>1 DEF Where, Waking
  <2> QED
    BY <1>3, <2>1, <2>2, IdleCounter, IdleGoto DEF Capacity
<1>4. CASE Unqueue(a)
  <2>1. /\ f.pc = "unqueue" /\ st' = st /\ queue' = Without(queue, f.id)
        /\ Step(a, IF f.op = "remove" THEN "forget" ELSE "move")
    BY <1>4 DEF Unqueue, At
  <2>2. \A g : /\ g.pc = IF f.op = "remove" THEN "forget" ELSE "move"
               /\ g.op = f.op /\ g.to = f.to
               => Where(g)
    BY <1>0, <2>1 DEF Where
  <2> QED
    BY <1>w, <2>1, <2>2, IdleCounter
<1>5. CASE Intend(a)
  <2>1. \A g : g.pc = "signal" /\ g.op = f.op /\ g.to = f.to => Where(g)
    BY <1>0, <1>5 DEF Intend, At, Where
  <2> QED
    BY <1>5, <2>1, IdleCounter DEF Intend
<1>6. CASE Signal(a)
  <2>1. f.op \notin Waking
    BY <1>0, <1>6 DEF Signal, At, Where, Waking
  <2> QED
    BY <1>6, <2>1, IdleGoto DEF Signal
<1>7. CASE Forget(a)
  <2>1. f.op \in Waking /\ \A g : g.pc = "erase" /\ g.op = f.op /\ g.to = f.to => Where(g)
    BY <1>0, <1>7 DEF Forget, At, Where, Waking
  <2> QED
    BY <1>7, <2>1, IdleCounter DEF Forget
<1>8. CASE Erase(a)
  BY <1>8, IdleGoto DEF Erase
<1>9. CASE Count(a)
  <2>1. f.op = "loop" /\ st' = st /\ queue' = queue
    BY <1>0, <1>9 DEF Count, At, Where
  <2>2. \A g : g.pc = "select" /\ g.op = f.op => Where(g)
    BY <2>1 DEF Where
  <2>3. CASE HasRoom
    BY <1>9, <2>1, <2>2, <2>3, IdleCounter DEF Count
  <2>4. CASE ~HasRoom
    BY <1>9, <2>1, <2>4, IdleGoto DEF Count, Startable
  <2> QED
    BY <2>3, <2>4
<1>10. CASE Select(a)
  <2>1. \A id : /\ Where(Frame("take", "loop", id, "Starting"))
                /\ Frame("take", "loop", id, "Starting").op \in Waking
    BY DEF Frame, Where, Waking
  <2>2. CASE queue = <<>> /\ Goto(a, Rest(a))
    BY <1>10, <2>2, IdleGoto DEF Select, Startable
  <2> QED
    BY <1>10, <2>1, <2>2, IdleGoto DEF Select
<1>11. CASE Take(a)
  <2>1. \A g : g.pc = "move" /\ g.op = f.op /\ g.to = f.to => Where(g)
    BY <1>0, <1>11 DEF Take, At, Where, Target, Aimed
  <2>2. queue = <<>> => queue' = <<>>
    BY <1>w, <1>11 DEF Take
  <2> QED
    BY <1>11, <2>1, <2>2, IdleCounter DEF Take
<1>12. CASE Move(a)
  <2>d. PICK d \in Ids : d = f.id
    BY <1>0, <1>12 DEF Move, At, Nameless
  <2>0. f.pc = "move" /\ queue' = queue
    BY <1>12 DEF Move, At
  <2>1. CASE Goto(a, Continue(a, FALSE)) /\ UNCHANGED st
    BY <2>0, <2>1, IdleContinue
  <2>2. CASE CanTransition(st[d], f.to) /\ st' = [st EXCEPT ![d] = f.to] /\ Step(a, "copy")
    <3>1. \A g : g.pc = "copy" /\ g.op = f.op /\ g.to = f.to => Where(g)
      BY <1>0, <2>0 DEF Where, Target, Absent
    <3>2. f.op \in Waking \/ \A id \in Ids : st[id] \in Active => st'[id] \in Active
      <4> SUFFICES ASSUME f.op \notin Waking, st[d] \in Active PROVE FALSE
        BY <2>2 DEF TypeOK
      <4>0. f.op \notin {"end", "orphan"}
        BY DEF Waking
      <4>1. f.to \in {"Queued", "Starting", Absent}
        BY <1>0, <2>0, <2>d, <4>0 DEF Target, Honest, Deciding
      <4> QED
        BY <2>2, <4>1 DEF CanTransition, NextStates, Active, States, Absent
    <3> QED
      BY <2>0, <2>2, <3>1, <3>2, IdleCounter
  <2> QED
    BY <1>12, <2>d, <2>1, <2>2 DEF Move
<1>13. CASE Copy(a)
  <2>1. f.pc = "copy" /\ queue' = queue /\ st' = st
    BY <1>13 DEF Copy, At
  <2>2. CASE Goto(a, Continue(a, TRUE))
    BY <2>1, <2>2, IdleContinue
  <2>3. CASE Goto(a, [f EXCEPT !.pc = "store", !.snap = st[f.id]])
    <3> DEFINE g == [f EXCEPT !.pc = "store", !.snap = st[f.id]]
    <3>1. g.pc = "store" /\ g.op = f.op /\ g.to = f.to /\ Goto(a, g)
      BY <1>0, <2>3 DEF Frames
    <3> HIDE DEF g
    <3>2. Where(g)
      BY <1>0, <2>1, <3>1 DEF Where
    <3> QED
      BY <2>1, <3>1, <3>2, IdleGoto
  <2> QED
    BY <1>13, <2>2, <2>3 DEF Copy
<1>14. CASE Store(a)
  <2>1. f.pc = "store" /\ queue' = queue /\ st' = st /\ Goto(a, Continue(a, TRUE))
    BY <1>14 DEF Store, At
  <2> QED
    BY <2>1, IdleContinue
<1>15. ASSUME NEW r \in Runs, Launch(a, r) PROVE IdleInv'
  <2> DEFINE g == [f EXCEPT !.pc = "attach", !.run = r]
             h == Frame("spawned", "run", f.id, Absent)
  <2>1. /\ r # a /\ r \in Actors /\ act' = [act EXCEPT ![a] = g, ![r] = h]
        /\ st' = st /\ queue' = queue /\ f.pc = "launch" /\ act[r].pc = "done"
    BY <1>15 DEF Launch, At, NextFree, Free, Actors
  <2>2. g.pc = "attach" /\ g.op = f.op /\ g.to = f.to /\ h.pc = "spawned" /\ h.op = "run"
    BY <1>0 DEF Frame, Frames
  <2> HIDE DEF g, h
  <2>3. /\ act'[a] = g /\ act'[r] = h
        /\ \A b \in Actors : b # a /\ b # r => act'[b] = act[b]
    BY <2>1 DEF TypeOK
  <2>4. Where(g) /\ Where(h)
    BY <1>0, <2>1, <2>2 DEF Where
  <2>5. act[r].op \notin Waking
    BY <2>1 DEF IdleInv, Where, Waking
  <2>6. (\E b \in Actors : act[b].op \in Waking) => \E b \in Actors : act'[b].op \in Waking
    BY <2>2, <2>3, <2>5
  <2>7. Startable' <=> Startable
    BY <2>1 DEF Startable, HasRoom, ActiveIds
  <2>8. \A b \in Actors : Where(act'[b])
    BY <2>3, <2>4 DEF IdleInv
  <2> QED
    BY <2>6, <2>7, <2>8 DEF IdleInv, Awake, Where
<1>16. CASE Attach(a)
  <2>1. f.op \notin Waking \/ f.op = "loop"
    BY <1>0, <1>16 DEF Attach, At, Where, Waking
  <2> QED
    BY <1>16, <2>1, IdleGoto DEF Attach
<1> QED
  BY <1>1, <1>2, <1>3, <1>4, <1>5, <1>6, <1>7, <1>8, <1>9, <1>10, <1>11, <1>12,
     <1>13, <1>14, <1>15, <1>16 DEF Segment

\* Every step of a task keeps the invariant: the end of a transfer schedules.
LEMMA TaskIdle ==
  ASSUME TypeOK, IdleInv, NEW r \in Runs, Task(r)
  PROVE  IdleInv'
<1> r \in Actors
  BY DEF Actors
<1> DEFINE f == act[r]
<1>1. /\ f.op \notin Waking /\ queue' = queue
      /\ \A id \in Ids : st[id] \in Active => st'[id] \in Active
  BY DEF Task, RunBegin, Progress, Report, FinishOk, FinishErr, Abort, Resumes, At, map,
     IdleInv, Where, Waking, TypeOK, Active
<1>2. Startable' => Startable
  BY <1>1, NoRoomGained DEF Startable
<1>3. PICK g : act' = [act EXCEPT ![r] = g] /\ Where(g)
  <2>1. Where(Transfer(f.id)) /\ Where(Rest(r))
    BY RestWhere DEF Transfer, Frame, Where
  <2>2. \A to \in {"Completed", "Paused", "Cancelled", "Failed"} :
          \A op \in {"end", "orphan"} : Where(Frame("move", op, f.id, to))
    BY DEF Frame, Where
  <2>3. \A to, s : Where([Frame("report", "run", f.id, to) EXCEPT !.snap = s])
    <3> SUFFICES ASSUME NEW to, NEW s PROVE Where([Frame("report", "run", f.id, to) EXCEPT !.snap = s])
      OBVIOUS
    <3> DEFINE g == [Frame("report", "run", f.id, to) EXCEPT !.snap = s]
    <3>1. g.pc = "report" /\ g.op = "run"
      BY DEF Frame
    <3> HIDE DEF g
    <3>2. Where(g)
      BY <3>1 DEF Where
    <3> QED
      BY <3>2 DEF g
  <2> QED
    BY <2>1, <2>2, <2>3 DEF Task, RunBegin, Progress, Report, FinishOk, FinishErr, Abort, Goto,
       Stopped
<1> QED
  BY <1>1, <1>2, <1>3, IdleStep

\* IdleInv is inductive while the process lives: a restart puts the recovered
\* downloads into the queue and leaves them there.
LEMMA NextIdle ==
  ASSUME ~SaveFails, ~Restarts
  PROVE  TypeOK /\ SlotInv /\ RecordInv /\ PendInv /\ IdleInv /\ [Next]_vars => IdleInv'
<1> SUFFICES ASSUME TypeOK, SlotInv, RecordInv, PendInv, IdleInv, [Next]_vars PROVE IdleInv'
  OBVIOUS
<1>1. CASE Next
  BY <1>1, CallIdle, SegmentIdle, TaskIdle DEF Next, Reopen
<1>2. CASE UNCHANGED vars
  BY <1>2 DEF vars, IdleInv, Awake, Startable, HasRoom, ActiveIds, Where
<1> QED
  BY <1>1, <1>2

LEMMA InitIdle == Init => IdleInv
<1> SUFFICES ASSUME Init PROVE IdleInv
  OBVIOUS
<1>1. \A a \in Actors : Where(act[a])
  BY RestWhere DEF Init
<1> QED
  BY <1>1 DEF Init, IdleInv, Awake, Startable

\* On one thread, whenever no call and no task is in the middle of its work, a
\* queued download waits only because the slots are full: no end of a transfer
\* and no call is without the scheduling that must follow it.
THEOREM NoSlotIdle ==
  ASSUME Workers = 1, ~SaveFails, ~Restarts
  PROVE  Spec => []NoIdleSlot
<1>1. Init => TypeOK /\ SlotInv /\ RecordInv /\ PendInv /\ IdleInv
  BY InitType, InitSlot, InitRecord, InitPend, InitIdle
<1>2. /\ TypeOK /\ SlotInv /\ RecordInv /\ PendInv /\ IdleInv /\ [Next]_vars
      => (TypeOK /\ SlotInv /\ RecordInv /\ PendInv /\ IdleInv)'
  BY NextType, NextSlot, NextRecord, NextPend, NextIdle
<1>3. IdleInv => NoIdleSlot
  BY DEF IdleInv, Awake, Startable, NoIdleSlot, Resting, Busy, Where, Waking
<1> QED
  BY <1>1, <1>2, <1>3, PTL DEF Spec
=============================================================================
