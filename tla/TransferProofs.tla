--------------------------- MODULE TransferProofs ---------------------------
(***************************************************************************)
(* Theorems about Transfer, for any tasks and destinations, bodies,        *)
(* chunks and buffers of any length, and every fault the model has.        *)
(***************************************************************************)
EXTENDS Transfer, FiniteSetTheorems, TLAPS

Files == [by : Tasks \cup {Nobody, Before}, len : Nat, disk : Nat, whole : Nat]

\* The part of the type invariant the argument needs.
Typed ==
  /\ pc \in [Tasks -> {"idle"} \cup Running \cup Ended]
  /\ total \in [Tasks -> SUBSET Nat]
  /\ got \in [Tasks -> Nat] /\ chunk \in [Tasks -> Nat] /\ buf \in [Tasks -> Nat]
  /\ part \in [Tasks -> Nat] /\ synced \in [Tasks -> Nat]
  /\ file \in [Dests -> Files] /\ past \in [Dests -> Files]
TInv == Typed /\ DeliveryInv

\* A file with all its bytes on disk survives a crash as it is.
LEMMA SafeSurvives ==
  ASSUME NEW c \in Files, Safe(c), NEW g \in Torn(c)
  PROVE  g = c
<1>1. PICK n \in c.disk .. c.len : g = [c EXCEPT !.len = n, !.disk = n]
  BY DEF Torn
<1>2. n = c.len /\ n \in Nat
  BY <1>1 DEF Safe, Files
<1> QED
  BY <1>1, <1>2 DEF Safe, Files

\* A body that was verified is as long as the file should be.
LEMMA VerifiedWhole ==
  ASSUME NEW t, Verified(t)
  PROVE  Whole(t) = got[t]
BY DEF Verified, Whole

\* At first nothing was received, and no file is incomplete.
LEMMA InitDelivery == Init => TInv
<1> SUFFICES ASSUME Init PROVE TInv
  OBVIOUS
<1>1. NoFile \in Files /\ OldFile \in Files /\ Safe(NoFile) /\ Safe(OldFile)
  BY DEF NoFile, OldFile, Content, Files, Safe
<1>2. Typed
  BY <1>1 DEF Init, Typed
<1>3. Received
  BY DEF Init, Received
<1>4. FilesSafe
  BY <1>1 DEF Init, FilesSafe
<1> QED
  BY <1>2, <1>3, <1>4 DEF TInv, DeliveryInv

\* A task that leaves has nothing in hand.
LEMMA LeaveDelivery ==
  ASSUME TInv, NEW t \in Tasks, NEW l \in {"idle", "ok", "failed", "cancelled"},
         Leave(t, l), UNCHANGED files
  PROVE  TInv'
<1>1. Typed'
  BY DEF TInv, Typed, Leave, Goto, Set, files, Running, Ended
<1>2. Received'
  BY DEF TInv, Typed, DeliveryInv, Received, Leave, Goto, Set, Verified
<1>3. FilesSafe'
  BY DEF TInv, DeliveryInv, FilesSafe, files
<1> QED
  BY <1>1, <1>2, <1>3 DEF TInv, DeliveryInv

\* A step of the download keeps every byte it has received.
LEMMA StepDelivery ==
  ASSUME TInv, NEW t \in Tasks, Download(t)
  PROVE  TInv'
<1> USE DEF Goto, Set, locals, files, Running, Ended
<1>f. ASSUME UNCHANGED files PROVE FilesSafe' /\ file' \in [Dests -> Files] /\ past' \in [Dests -> Files]
  BY <1>f DEF TInv, Typed, DeliveryInv, FilesSafe
<1>1. CASE Begin(t)
  BY <1>1, <1>f DEF Begin, TInv, Typed, DeliveryInv, Received, Verified
<1>2. CASE Connect(t)
  <2>1. PICK n \in {{}} \cup {{s} : s \in Sizes} : total' = [total EXCEPT ![t] = n]
    BY <1>2 DEF Connect
  <2>a. n \in SUBSET Nat
    BY TransferAssumption
  <2>b. total' \in [Tasks -> SUBSET Nat]
    BY <2>1, <2>a DEF TInv, Typed
  <2> QED
    BY <1>2, <1>f, <2>b DEF Connect, TInv, Typed, DeliveryInv, Received, Verified
<1>3. CASE CreatePart(t)
  BY <1>3, <1>f DEF CreatePart, TInv, Typed, DeliveryInv, Received, Verified
<1>4. CASE Heed(t)
  BY <1>4, LeaveDelivery DEF Heed
<1>5. CASE Receive(t)
  BY <1>5, <1>f DEF Receive, TInv, Typed, DeliveryInv, Received, Verified
<1>6. CASE Acquire(t)
  BY <1>6, <1>f DEF Acquire, TInv, Typed, DeliveryInv, Received, Verified
<1>7. CASE WriteChunk(t)
  <2>1. /\ part[t] \in Nat /\ buf[t] \in Nat /\ got[t] \in Nat /\ chunk[t] \in Nat
        /\ part[t] + buf[t] = got[t]
    BY DEF TInv, Typed, DeliveryInv, Received
  <2>2. /\ part'[t] + buf'[t] = got'[t]
        /\ part'[t] \in Nat /\ buf'[t] \in Nat /\ got'[t] \in Nat
    BY <1>7, <2>1 DEF WriteChunk, TInv, Typed
  <2>3. /\ pc' = [pc EXCEPT ![t] = "stream"] /\ total' = total /\ synced' = synced
        /\ UNCHANGED files /\ chunk' = [chunk EXCEPT ![t] = 0]
        /\ part' = [part EXCEPT ![t] = part'[t]]
        /\ buf' = [buf EXCEPT ![t] = buf'[t]] /\ got' = [got EXCEPT ![t] = got'[t]]
    BY <1>7 DEF WriteChunk, TInv, Typed
  <2> QED
    BY <1>f, <2>2, <2>3 DEF TInv, Typed, DeliveryInv, Received, Verified
<1>8. CASE EndOfBody(t)
  <2>1. CASE Goto(t, "flush") /\ UNCHANGED locals /\ Verified(t)
    BY <1>8, <1>f, <2>1 DEF EndOfBody, TInv, Typed, DeliveryInv, Received, Verified
  <2> QED
    BY <1>8, <2>1, LeaveDelivery DEF EndOfBody
<1>9. CASE Flush(t)
  BY <1>9, <1>f DEF Flush, TInv, Typed, DeliveryInv, Received, Verified
<1>10. CASE Sync(t)
  BY <1>10, <1>f DEF Sync, TInv, Typed, DeliveryInv, Received, Verified
<1>11. CASE Finalize(t)
  <2>1. CASE Leave(t, "failed")
    BY <1>11, <2>1, LeaveDelivery DEF Finalize
  <2>2. ASSUME NEW l \in {"rename", "blind"}, Proceed(t, l) PROVE TInv'
    BY <1>11, <1>f, <2>2 DEF Finalize, Proceed, TInv, Typed, DeliveryInv, Received, Verified
  <2> QED
    BY <1>11, <2>1, <2>2 DEF Finalize
<1>12. CASE Rename(t)
  <2> DEFINE d == Dest[t]  c == Content(t, part[t], synced[t], Whole(t))
  <2>1. d \in Dests
    BY TransferAssumption
  <2>2. /\ Whole(t) = got[t] /\ synced[t] = part[t] /\ part[t] = got[t]
        /\ part[t] \in Nat
    BY <1>12, VerifiedWhole DEF Rename, TInv, Typed, DeliveryInv, Received
  <2>3. c \in Files /\ Safe(c)
    BY <2>2 DEF Content, Files, Safe
  <2>4. /\ file' = [file EXCEPT ![d] = c] /\ past' = [past EXCEPT ![d] = file[d]]
        /\ pc' = [pc EXCEPT ![t] = "report"] /\ UNCHANGED locals
    BY <1>12 DEF Rename
  <2> HIDE DEF c
  <2>5. FilesSafe' /\ file' \in [Dests -> Files] /\ past' \in [Dests -> Files]
    BY <2>1, <2>3, <2>4 DEF TInv, Typed, DeliveryInv, FilesSafe
  <2> QED
    BY <2>4, <2>5 DEF TInv, Typed, DeliveryInv, Received, Verified
<1>13. CASE Report(t)
  BY <1>13, LeaveDelivery DEF Report
<1> QED
  BY <1>1, <1>2, <1>3, <1>4, <1>5, <1>6, <1>7, <1>8, <1>9, <1>10, <1>11, <1>12, <1>13
     DEF Download

\* A crash of the process forgets the transfers and nothing else.
LEMMA KillDelivery ==
  ASSUME TInv, Kill
  PROVE  TInv'
<1>1. Lost /\ UNCHANGED files
  BY DEF Kill
<1>2. Typed'
  BY <1>1 DEF Lost, files, TInv, Typed
<1>3. Received'
  BY <1>1 DEF Lost, Received
<1>4. FilesSafe'
  BY <1>1 DEF files, TInv, DeliveryInv, FilesSafe
<1> QED
  BY <1>2, <1>3, <1>4 DEF TInv, DeliveryInv

\* One of the machine leaves complete files complete.
LEMMA CrashDelivery ==
  ASSUME TInv, Crash
  PROVE  TInv'
<1>0. Lost
  BY DEF Crash
<1>1. ASSUME NEW d \in Dests PROVE file'[d] \in Files /\ Safe(file'[d])
  BY SafeSurvives DEF Crash, TInv, Typed, DeliveryInv, FilesSafe
<1>2. file' \in [Dests -> Files] /\ past' = file'
  BY <1>1 DEF Crash
<1>3. Typed'
  BY <1>0, <1>2 DEF Lost, Typed
<1>4. Received'
  BY <1>0 DEF Lost, Received
<1>5. FilesSafe'
  BY <1>1, <1>2 DEF FilesSafe
<1> QED
  BY <1>3, <1>4, <1>5 DEF TInv, DeliveryInv

\* TInv is inductive.
LEMMA NextDelivery == TInv /\ [Next]_vars => TInv'
<1> SUFFICES ASSUME TInv, [Next]_vars PROVE TInv'
  OBVIOUS
<1>1. ASSUME NEW t \in Tasks, Signal(t) PROVE TInv'
  BY <1>1 DEF Signal, locals, files, TInv, Typed, DeliveryInv, Received, FilesSafe, Verified
<1>2. ASSUME NEW t \in Tasks, Abort(t) PROVE TInv'
  BY <1>2, LeaveDelivery DEF Abort
<1>3. ASSUME NEW t \in Tasks, NEW l \in Running \ {"acquire", "report"}, Fails(t, l) PROVE TInv'
  BY <1>3, LeaveDelivery DEF Fails
<1>4. CASE UNCHANGED vars
  BY <1>4 DEF vars, locals, files, TInv, Typed, DeliveryInv, Received, FilesSafe, Verified
<1> QED
  BY <1>1, <1>2, <1>3, <1>4, StepDelivery, KillDelivery, CrashDelivery DEF Next

\* Whatever the lengths of bodies, chunks and buffers, whatever tasks share a
\* destination, fail, are signalled or aborted, and whenever the machine
\* crashes: a destination never holds an incomplete file.
THEOREM NoTornFile == Spec => []NeverTorn
<1>1. TInv => NeverTorn
  BY DEF TInv, DeliveryInv, FilesSafe, Safe, NeverTorn
<1> QED
  BY <1>1, InitDelivery, NextDelivery, PTL DEF Spec

(***************************************************************************)
(* A transfer keeps the promise of Delivery, if nobody else delivers where *)
(* a task that may not replace a file does: between the second look at the *)
(* destination and the rename another task could put its file there (the   *)
(* run v_clobber).                                                         *)
(***************************************************************************)
Unshared ==
  \A t, u \in Tasks : t \notin Replaces /\ u # t => Dest[u] # Dest[t]

\* A task that is about to rename and may not replace a file replaces none.
Vacant == \A t \in Tasks : pc[t] = "rename" /\ t \notin Replaces => ~Exists(t)
\* A file that is there is somebody's.
Named ==
  \A d \in Dests :
    /\ file[d].by = Nobody => file[d] = NoFile
    /\ past[d].by = Nobody => past[d] = NoFile
PInv == TInv /\ Vacant /\ Named

\* A step that leaves the files alone and lets no other task get to its rename.
LEMMA QuietVacant ==
  ASSUME Typed, Vacant, NEW t \in Tasks, NEW l, pc' = [pc EXCEPT ![t] = l],
         l # "rename", file' = file
  PROVE  Vacant'
BY DEF Typed, Vacant, Exists

\* Vacant is inductive.
LEMMA NextVacant ==
  ASSUME Unshared, PInv, [Next]_vars
  PROVE  Vacant'
<1> USE DEF PInv, TInv
<1>1. CASE UNCHANGED vars
  BY <1>1 DEF vars, files, Vacant, Exists
<1>2. CASE Kill \/ Crash
  BY <1>2 DEF Kill, Crash, Lost, Vacant
<1>3. ASSUME NEW t \in Tasks, Finalize(t) PROVE Vacant'
  <2>1. CASE Leave(t, "failed") /\ file' = file
    BY <2>1, QuietVacant DEF Leave, Goto
  <2>2. CASE ~Taken(t) /\ pc' = [pc EXCEPT ![t] = "rename"] /\ file' = file
    BY <2>2 DEF Typed, Vacant, Taken, Exists
  <2>3. CASE pc' = [pc EXCEPT ![t] = "blind"] /\ file' = file
    BY <2>3, QuietVacant
  <2> QED
    BY <1>3, <2>1, <2>2, <2>3 DEF Finalize, Proceed, files, Goto
<1>4. ASSUME NEW t \in Tasks, Rename(t) PROVE Vacant'
  <2>1. /\ pc' = [pc EXCEPT ![t] = "report"] /\ Dest[t] \in Dests
        /\ \E c : file' = [file EXCEPT ![Dest[t]] = c]
    BY <1>4, TransferAssumption DEF Rename, Set, Goto
  <2>2. ASSUME NEW u \in Tasks, pc'[u] = "rename", u \notin Replaces PROVE ~Exists(u)'
    <3>1. u # t /\ pc[u] = "rename" /\ Dest[u] # Dest[t]
      BY <2>1, <2>2 DEF Typed, Unshared
    <3>2. file'[Dest[u]] = file[Dest[u]] /\ Dest[u] \in Dests
      BY <2>1, <3>1, TransferAssumption DEF Typed
    <3> QED
      BY <2>2, <3>1, <3>2 DEF Vacant, Exists
  <2> QED
    BY <2>2 DEF Vacant
<1>5. ASSUME NEW t \in Tasks, Signal(t) PROVE Vacant'
  BY <1>5 DEF Signal, files, Vacant, Exists
<1>6. ASSUME NEW t \in Tasks,
             \/ Begin(t) \/ Connect(t) \/ CreatePart(t) \/ Receive(t) \/ Acquire(t)
             \/ WriteChunk(t) \/ Flush(t) \/ Sync(t)
      PROVE Vacant'
  <2>1. file' = file /\ \E l : l # "rename" /\ pc' = [pc EXCEPT ![t] = l]
    BY <1>6 DEF Begin, Connect, CreatePart, Receive, Acquire, WriteChunk, Flush, Sync, Goto, files
  <2> QED
    BY <2>1, QuietVacant
<1>7. ASSUME NEW t \in Tasks,
             \/ Heed(t) \/ EndOfBody(t) \/ Report(t) \/ Abort(t)
             \/ \E l \in Running \ {"acquire", "report"} : Fails(t, l)
      PROVE Vacant'
  <2>1. file' = file /\ \E l : l # "rename" /\ pc' = [pc EXCEPT ![t] = l]
    BY <1>7 DEF Heed, EndOfBody, Report, Abort, Fails, Leave, Goto, files
  <2> QED
    BY <2>1, QuietVacant
<1> QED
  BY <1>1, <1>2, <1>3, <1>4, <1>5, <1>6, <1>7 DEF Next, Download

\* So is Named: a task puts a file of its own in place, a crash one that was there.
LEMMA NextNamed ==
  ASSUME PInv, [Next]_vars
  PROVE  Named'
<1> USE DEF PInv, TInv
<1>1. CASE UNCHANGED files
  BY <1>1 DEF files, Named
<1>2. ASSUME NEW t \in Tasks, Rename(t) PROVE Named'
  <2> DEFINE c == Content(t, part[t], synced[t], Whole(t))
  <2>1. c.by # Nobody
    BY TransferAssumption DEF Content
  <2>2. file' = [file EXCEPT ![Dest[t]] = c] /\ past' = [past EXCEPT ![Dest[t]] = file[Dest[t]]]
    BY <1>2 DEF Rename, Set
  <2> HIDE DEF c
  <2>3. ASSUME NEW e \in Dests
        PROVE  file'[e] \in {file[e], c} /\ past'[e] \in {file[e], past[e]}
    BY <2>2 DEF Typed
  <2> QED
    BY <2>1, <2>3 DEF Named
<1>3. CASE Crash
  <2>1. ASSUME NEW d \in Dests PROVE file'[d] \in {file[d], past[d]} /\ past'[d] = file'[d]
    BY <1>3, SafeSurvives DEF Crash, Typed, DeliveryInv, FilesSafe
  <2> QED
    BY <2>1 DEF Named
<1>4. ASSUME NEW t \in Tasks, Download(t), ~Rename(t) PROVE UNCHANGED files
  BY <1>4 DEF Download, Begin, Connect, CreatePart, Heed, Receive, Acquire, WriteChunk, EndOfBody,
     Flush, Sync, Finalize, Report, files
<1>5. ASSUME NEW t \in Tasks,
             \/ Signal(t) \/ Abort(t)
             \/ \E l \in Running \ {"acquire", "report"} : Fails(t, l)
      PROVE UNCHANGED files
  BY <1>5 DEF Signal, Abort, Fails, files
<1>6. Kill \/ UNCHANGED vars => UNCHANGED files
  BY DEF Kill, vars, files
<1> QED
  BY <1>1, <1>2, <1>3, <1>4, <1>5, <1>6 DEF Next

\* A step that leaves the files alone and takes one task from a phase to another.
LEMMA PhaseStep ==
  ASSUME Typed, NEW t \in Tasks, NEW l, Goto(t, l), UNCHANGED files
  PROVE  /\ Phase' = [Phase EXCEPT ![t] = PhaseOf(l)]
         /\ Phase[t] = PhaseOf(pc[t])
         /\ UNCHANGED <<Holder, Former>>
BY DEF Typed, Goto, Phase, Holder, Former, files

\* A complete file belongs to the task that wrote it.
LEMMA SafeOwner ==
  ASSUME NEW c \in Files, Safe(c)
  PROVE  Owner(c) = c.by
BY DEF Safe, Owner

\* The phases of the program points.
LEMMA PhaseValues ==
  /\ PhaseOf("idle") = "ready" /\ PhaseOf("report") = "delivered"
  /\ PhaseOf("ok") = "ok" /\ PhaseOf("failed") = "failed" /\ PhaseOf("cancelled") = "cancelled"
  /\ PhaseOf("blind") = "blind"
  /\ \A l \in Running \ {"report", "blind"} : PhaseOf(l) = "running"
BY DEF PhaseOf, Ended, Running

\* Between two awaits nothing shows, except where a run begins, ends or delivers.
LEMMA DownloadKeeps ==
  ASSUME PInv, NEW t \in Tasks, Download(t)
  PROVE  [Promise!Next]_(Promise!vars)
<1> USE DEF PInv, TInv
<1>0. pc[t] \in {"idle"} \cup Running \cup Ended
  BY DEF Typed
<1>1. CASE Begin(t)
  <2>1. PICK l \in {"connect", "failed"} : Goto(t, l) /\ UNCHANGED files
    BY <1>1 DEF Begin
  <2>2. Phase[t] \in Promise!AtRest
    BY <1>0, <1>1, <2>1, PhaseStep, PhaseValues DEF Begin, Ended, Promise!AtRest
  <2>3. Phase' = [Phase EXCEPT ![t] = IF l = "connect" THEN "running" ELSE "failed"]
        /\ UNCHANGED <<Holder, Former>>
    BY <2>1, PhaseStep, PhaseValues DEF Running
  <2> QED
    BY <2>2, <2>3 DEF Promise!Next, Promise!Start, Promise!Fail, Promise!Become
<1>2. CASE \/ Connect(t) \/ CreatePart(t) \/ Receive(t) \/ Acquire(t) \/ WriteChunk(t)
           \/ Flush(t) \/ Sync(t) \/ (Finalize(t) /\ pc'[t] = "rename")
           \/ (EndOfBody(t) /\ pc'[t] = "flush")
  <2>1. UNCHANGED files /\ pc[t] \in Running \ {"report", "blind"}
        /\ \E l \in Running \ {"report", "blind"} : Goto(t, l)
    BY <1>0, <1>2 DEF Connect, CreatePart, Receive, Acquire, WriteChunk, Flush, Sync, Finalize,
               Proceed, EndOfBody, Goto, Leave, files, Running, Ended, Typed
  <2>2. Phase[t] = "running" /\ Phase' = [Phase EXCEPT ![t] = "running"]
        /\ UNCHANGED <<Holder, Former>>
    BY <2>1, PhaseStep, PhaseValues
  <2>3. Phase' = Phase
    BY <2>2 DEF Phase
  <2> QED
    BY <2>2, <2>3 DEF Promise!vars
<1>3. CASE Heed(t)
  <2>1. pc[t] = "stream" /\ Goto(t, "cancelled") /\ UNCHANGED files
    BY <1>3 DEF Heed, Leave
  <2>2. Phase[t] = "running" /\ Phase' = [Phase EXCEPT ![t] = "cancelled"]
        /\ UNCHANGED <<Holder, Former>>
    BY <2>1, PhaseStep, PhaseValues DEF Running
  <2> QED
    BY <2>2 DEF Promise!Next, Promise!Stop, Promise!Become
<1>4. CASE \/ EndOfBody(t) /\ pc'[t] # "flush"
           \/ Finalize(t) /\ pc'[t] \notin {"rename", "blind"}
  <2>1. pc[t] \in Running \ {"report", "blind"} /\ Goto(t, "failed") /\ UNCHANGED files
    BY <1>4 DEF EndOfBody, Finalize, Proceed, Leave, Goto, Running, Typed
  <2>2. Phase[t] = "running" /\ Phase' = [Phase EXCEPT ![t] = "failed"]
        /\ UNCHANGED <<Holder, Former>>
    BY <2>1, PhaseStep, PhaseValues
  <2> QED
    BY <2>2 DEF Promise!Next, Promise!Fail, Promise!Become
<1>5. CASE Rename(t)
  <2> DEFINE d == Dest[t]  c == Content(t, part[t], synced[t], Whole(t))
  <2>1. d \in Dests
    BY TransferAssumption
  <2>2. Owner(c) = t
    <3>1. Whole(t) = got[t] /\ part[t] = got[t]
      BY <1>5, VerifiedWhole DEF Rename, Typed, DeliveryInv, Received
    <3> QED
      BY <3>1 DEF Content, Owner
  <2>3. /\ file' = [file EXCEPT ![d] = c] /\ past' = [past EXCEPT ![d] = file[d]]
        /\ pc[t] \in {"rename", "blind"} /\ Goto(t, "report")
    BY <1>5 DEF Rename, Set
  <2> HIDE DEF c
  <2>4. Holder' = [Holder EXCEPT ![d] = t] /\ Former' = [Former EXCEPT ![d] = Holder[d]]
    BY <2>1, <2>2, <2>3 DEF Holder, Former, Typed
  <2>5. Phase[t] = PhaseOf(pc[t]) /\ Phase[t] \in {"running", "blind"}
        /\ Phase' = [Phase EXCEPT ![t] = "delivered"]
    BY <2>3, PhaseValues DEF Goto, Phase, Typed, Running
  <2>6. Holder[d] # Nobody => t \in Replaces \/ Phase[t] = "blind"
    <3>1. ASSUME t \notin Replaces, pc[t] = "rename" PROVE Holder[d] = Nobody
      BY <2>1, <2>3, <3>1 DEF Vacant, Exists, Holder, NoFile, Content, Owner
    <3> QED
      BY <2>3, <2>5, <3>1, PhaseValues
  <2> QED
    BY <2>4, <2>5, <2>6 DEF Promise!Next, Promise!Deliver, Promise!Become
<1>6. CASE Finalize(t) /\ pc'[t] = "blind"
  <2>1. pc[t] = "finalize" /\ Taken(t) /\ Faults /\ Goto(t, "blind") /\ UNCHANGED files
    BY <1>6 DEF Finalize, Proceed, Leave, Goto, files, Typed
  <2>2. Phase[t] = "running" /\ Phase' = [Phase EXCEPT ![t] = "blind"]
        /\ UNCHANGED <<Holder, Former>>
    BY <2>1, PhaseStep, PhaseValues DEF Running
  <2>3. Holder[Dest[t]] # Nobody /\ t \notin Replaces
    <3>1. Dest[t] \in Dests /\ file[Dest[t]] \in Files /\ file[Dest[t]] # NoFile
      BY <2>1, TransferAssumption DEF Typed, Taken, Exists
    <3>2. Owner(file[Dest[t]]) = (file[Dest[t]]).by
      BY <3>1, SafeOwner DEF DeliveryInv, FilesSafe
    <3> QED
      BY <2>1, <3>1, <3>2 DEF Taken, Holder, Named
  <2> QED
    BY <2>1, <2>2, <2>3 DEF Promise!Next, Promise!Overlook, Promise!Become
<1>7. CASE Report(t)
  <2>1. pc[t] = "report" /\ Goto(t, "ok") /\ UNCHANGED files
    BY <1>7 DEF Report, Leave
  <2>2. Phase[t] = "delivered" /\ Phase' = [Phase EXCEPT ![t] = "ok"]
        /\ UNCHANGED <<Holder, Former>>
    BY <2>1, PhaseStep, PhaseValues
  <2> QED
    BY <2>2 DEF Promise!Next, Promise!Succeed, Promise!Become
<1> QED
  BY <1>1, <1>2, <1>3, <1>4, <1>5, <1>6, <1>7 DEF Download

\* What a crash leaves belongs to whoever it belonged to before.
LEMMA TornOwner ==
  ASSUME NEW c \in Files, Safe(c), NEW g \in Torn(c)
  PROVE  Owner(g) = Owner(c)
<1>1. PICK n \in c.disk .. c.len : g = [c EXCEPT !.len = n, !.disk = n]
  BY DEF Torn
<1>2. n = c.len
  BY <1>1 DEF Safe, Files
<1> QED
  BY <1>1, <1>2 DEF Owner, Safe, Files

\* A crash is one of the promise.
LEMMA CrashKeeps ==
  ASSUME PInv, Kill \/ Crash
  PROVE  [Promise!Next]_(Promise!vars)
<1> USE DEF PInv, TInv
<1>1. Phase' = [t \in Tasks |-> "ready"]
  BY PhaseValues DEF Kill, Crash, Lost, Phase
<1>2. CASE Kill
  <2>1. UNCHANGED <<Holder, Former>>
    BY <1>2 DEF Kill, files, Holder, Former
  <2> QED
    BY <1>1, <2>1 DEF Promise!Next, Promise!Kill
<1>3. CASE Crash
  <2>1. ASSUME NEW d \in Dests
        PROVE  /\ Holder'[d] \in {Holder[d], Former[d]}
               /\ Holder'[d] \in Tasks \cup {Nobody, Before}
    <3>1. file[d] \in Files /\ past[d] \in Files /\ Safe(file[d]) /\ Safe(past[d])
      BY DEF Typed, DeliveryInv, FilesSafe
    <3>2. Owner(file'[d]) \in {Owner(file[d]), Owner(past[d])}
      BY <1>3, <3>1, TornOwner DEF Crash
    <3>3. Owner(file[d]) \in Tasks \cup {Nobody, Before}
          /\ Owner(past[d]) \in Tasks \cup {Nobody, Before}
      BY <3>1, SafeOwner DEF Files
    <3> QED
      BY <3>2, <3>3 DEF Holder, Former
  <2>2. Former' = Holder'
    BY <1>3 DEF Crash, Holder, Former
  <2>3. Holder' \in [Dests -> Tasks \cup {Nobody, Before}]
    BY <2>1 DEF Holder
  <2> QED
    BY <1>1, <2>1, <2>2, <2>3 DEF Promise!Next, Promise!Crash
<1> QED
  BY <1>2, <1>3

\* So are the other ends of a run, and a signal shows nothing.
LEMMA NextKeeps ==
  ASSUME PInv, [Next]_vars
  PROVE  [Promise!Next]_(Promise!vars)
<1> USE DEF PInv, TInv
<1>1. CASE UNCHANGED vars
  BY <1>1 DEF vars, files, Holder, Former, Phase, Promise!vars
<1>2. ASSUME NEW t \in Tasks, Signal(t) PROVE UNCHANGED Promise!vars
  BY <1>2 DEF Signal, files, Holder, Former, Phase, Promise!vars
<1>3. ASSUME NEW t \in Tasks, Abort(t) PROVE Promise!Next
  <2>1. pc[t] \in Running /\ Goto(t, "idle") /\ UNCHANGED files
    BY <1>3 DEF Abort, Leave
  <2>2. Phase[t] \in {"running", "blind", "delivered"} /\ Phase' = [Phase EXCEPT ![t] = "ready"]
        /\ UNCHANGED <<Holder, Former>>
    BY <2>1, PhaseStep, PhaseValues
  <2> QED
    BY <2>2 DEF Promise!Next, Promise!Abandon, Promise!Become
<1>4. ASSUME NEW t \in Tasks, NEW l \in Running \ {"acquire", "report"}, Fails(t, l)
      PROVE  Promise!Next
  <2>1. pc[t] = l /\ Goto(t, "failed") /\ UNCHANGED files
    BY <1>4 DEF Fails, Leave
  <2>2. Phase[t] \in {"running", "blind"} /\ Phase' = [Phase EXCEPT ![t] = "failed"]
        /\ UNCHANGED <<Holder, Former>>
    BY <2>1, PhaseStep, PhaseValues
  <2> QED
    BY <2>2 DEF Promise!Next, Promise!Fail, Promise!Become
<1> QED
  BY <1>1, <1>2, <1>3, <1>4, DownloadKeeps, CrashKeeps DEF Next

\* It begins as one, too.
LEMMA InitKeeps == Init => Promise!Init /\ Vacant /\ Named
<1> SUFFICES ASSUME Init PROVE Promise!Init /\ Vacant /\ Named
  OBVIOUS
<1>1. \A d \in Dests : file[d] \in {NoFile, OldFile} /\ past[d] = file[d]
  BY DEF Init
<1>2. Owner(NoFile) = Nobody /\ Owner(OldFile) = Before
  BY DEF NoFile, OldFile, Content, Owner
<1>3. Holder \in [Dests -> {Nobody, Before}] /\ Former = Holder
  BY <1>1, <1>2 DEF Holder, Former
<1>4. Phase = [t \in Tasks |-> "ready"]
  BY PhaseValues DEF Init, Phase
<1>5. Named
  BY <1>1, TransferAssumption DEF Named, OldFile, Content
<1> QED
  BY <1>3, <1>4, <1>5 DEF Init, Promise!Init, Vacant

\* For any number of tasks, destinations, errors, aborts and crashes: where the
\* destinations of tasks that may not replace a file are their own, a transfer is
\* a Delivery, which has no part file, no buffer and no network.  A file gives way
\* only to a task that may replace it, or whose look at it failed (finalize in
\* storage.rs takes a failed look for a free destination); without faults no look
\* fails.
THEOREM DeliveryKept ==
  ASSUME Unshared
  PROVE  Spec => ImplementsDelivery
<1>1. Init => PInv /\ Promise!Init
  BY InitDelivery, InitKeeps DEF PInv
<1>2. PInv /\ [Next]_vars => PInv'
  BY NextDelivery, NextVacant, NextNamed DEF PInv
<1>3. PInv /\ [Next]_vars => [Promise!Next]_(Promise!vars)
  BY NextKeeps
<1> QED
  BY <1>1, <1>2, <1>3, PTL DEF Spec, ImplementsDelivery, Promise!Spec

(***************************************************************************)
(* Types.                                                                  *)
(***************************************************************************)
Short(c) == c.len <= MaxBody /\ c.disk <= MaxBody /\ c.whole <= MaxBody

\* Counters stay within the body, with the chunk in hand, and the buffer within
\* its capacity.
TaskBound(t) ==
  /\ total[t] = {} \/ \E n \in Sizes : total[t] = {n}
  /\ got[t] <= MaxBody /\ chunk[t] <= Chunk
  /\ pc[t] \in {"acquire", "write"} => got[t] + chunk[t] <= MaxBody
  /\ buf[t] <= BufSize /\ synced[t] <= part[t]
Bounded ==
  /\ \A t \in Tasks : TaskBound(t)
  /\ signalled \in [Tasks -> BOOLEAN]
  /\ \A d \in Dests : Short(file[d]) /\ Short(past[d])

\* A file that a crash has cut is no longer than it was.
LEMMA TornShort ==
  ASSUME NEW c \in Files, Safe(c), Short(c), NEW g \in Torn(c)
  PROVE  Short(g)
<1>1. PICK n \in c.disk .. c.len : g = [c EXCEPT !.len = n, !.disk = n]
  BY DEF Torn
<1>2. n = c.len
  BY <1>1 DEF Safe, Files
<1> QED
  BY <1>1, <1>2 DEF Short, Safe, Files

LEMMA LeaveBounded ==
  ASSUME TInv, Bounded, NEW t \in Tasks, NEW l \in {"idle", "ok", "failed", "cancelled"},
         Leave(t, l), UNCHANGED files
  PROVE  Bounded'
<1>1. ASSUME NEW u \in Tasks PROVE TaskBound(u)'
  BY TransferAssumption DEF TInv, Typed, Bounded, TaskBound, Leave, Goto, Set
<1>2. signalled' \in [Tasks -> BOOLEAN] /\ UNCHANGED <<file, past>>
  BY DEF Bounded, Leave, Set, files
<1> QED
  BY <1>1, <1>2 DEF Bounded

LEMMA DownloadBounded ==
  ASSUME TInv, Bounded, NEW t \in Tasks, Download(t)
  PROVE  Bounded'
<1> USE TransferAssumption DEF Goto, Set, locals, files
<1>1. CASE Begin(t)
  BY <1>1 DEF Begin, TInv, Typed, Bounded, TaskBound
<1>2. CASE Connect(t)
  BY <1>2 DEF Connect, TInv, Typed, Bounded, TaskBound
<1>3. CASE CreatePart(t) \/ Acquire(t)
  BY <1>3 DEF CreatePart, Acquire, TInv, Typed, Bounded, TaskBound
<1>4. CASE Heed(t) \/ Report(t)
  BY <1>4, LeaveBounded DEF Heed, Report
<1>5. CASE Receive(t)
  <2>1. PICK n \in 1..Chunk : got[t] + n <= MaxBody /\ chunk' = [chunk EXCEPT ![t] = n]
    BY <1>5 DEF Receive
  <2> QED
    BY <1>5, <2>1 DEF Receive, TInv, Typed, Bounded, TaskBound
<1>6. CASE WriteChunk(t)
  <2>1. /\ part[t] \in Nat /\ buf[t] \in Nat /\ got[t] \in Nat /\ chunk[t] \in Nat
        /\ synced[t] \in Nat /\ synced[t] <= part[t] /\ buf[t] <= BufSize
        /\ got[t] + chunk[t] <= MaxBody /\ pc[t] = "write"
    BY <1>6 DEF WriteChunk, TInv, Typed, Bounded, TaskBound
  <2>2. /\ buf'[t] <= BufSize /\ part'[t] >= part[t] /\ part'[t] \in Nat /\ got'[t] = got[t] + chunk[t]
    BY <1>6, <2>1 DEF WriteChunk, Buffers, TInv, Typed
  <2>3. /\ pc' = [pc EXCEPT ![t] = "stream"] /\ total' = total /\ synced' = synced
        /\ UNCHANGED <<files, signalled>> /\ chunk' = [chunk EXCEPT ![t] = 0]
        /\ part' = [part EXCEPT ![t] = part'[t]]
        /\ buf' = [buf EXCEPT ![t] = buf'[t]] /\ got' = [got EXCEPT ![t] = got'[t]]
    BY <1>6 DEF WriteChunk, TInv, Typed
  <2> QED
    BY <2>1, <2>2, <2>3 DEF TInv, Typed, Bounded, TaskBound
<1>7. CASE EndOfBody(t)
  BY <1>7, LeaveBounded DEF EndOfBody, TInv, Typed, Bounded, TaskBound
<1>8. CASE Flush(t)
  BY <1>8 DEF Flush, TInv, Typed, Bounded, TaskBound
<1>9. CASE Sync(t)
  BY <1>9 DEF Sync, TInv, Typed, Bounded, TaskBound
<1>10. CASE Finalize(t)
  BY <1>10, LeaveBounded DEF Finalize, Proceed, TInv, Typed, Bounded, TaskBound
<1>11. CASE Rename(t)
  <2> DEFINE d == Dest[t]  c == Content(t, part[t], synced[t], Whole(t))
  <2>1. /\ Whole(t) = got[t] /\ synced[t] = part[t] /\ part[t] = got[t] /\ got[t] <= MaxBody
    BY <1>11, VerifiedWhole DEF Rename, TInv, Typed, DeliveryInv, Received, Bounded, TaskBound
  <2>2. Short(c)
    BY <2>1 DEF Content, Short
  <2>3. /\ file' = [file EXCEPT ![d] = c] /\ past' = [past EXCEPT ![d] = file[d]] /\ d \in Dests
        /\ pc' = [pc EXCEPT ![t] = "report"] /\ UNCHANGED <<locals, signalled>>
    BY <1>11 DEF Rename
  <2> HIDE DEF c
  <2> QED
    BY <2>2, <2>3 DEF TInv, Typed, Bounded, TaskBound
<1> QED
  BY <1>1, <1>2, <1>3, <1>4, <1>5, <1>6, <1>7, <1>8, <1>9, <1>10, <1>11 DEF Download

LEMMA NextBounded == TInv /\ Bounded /\ [Next]_vars => Bounded'
<1> SUFFICES ASSUME TInv, Bounded, [Next]_vars PROVE Bounded'
  OBVIOUS
<1>1. ASSUME NEW t \in Tasks, Signal(t) PROVE Bounded'
  BY <1>1 DEF Signal, Set, locals, files, Bounded, TaskBound
<1>2. ASSUME NEW t \in Tasks, Abort(t) PROVE Bounded'
  BY <1>2, LeaveBounded DEF Abort
<1>3. ASSUME NEW t \in Tasks, NEW l \in Running \ {"acquire", "report"}, Fails(t, l) PROVE Bounded'
  BY <1>3, LeaveBounded DEF Fails
<1>4. ASSUME Lost PROVE (\A t \in Tasks : TaskBound(t)') /\ signalled' \in [Tasks -> BOOLEAN]
  BY <1>4, TransferAssumption DEF Lost, TaskBound
<1>5. CASE Kill
  BY <1>4, <1>5 DEF Kill, files, Bounded
<1>6. CASE Crash
  <2>1. ASSUME NEW d \in Dests PROVE Short(file'[d]) /\ past'[d] = file'[d]
    BY <1>6, TornShort DEF Crash, TInv, Typed, DeliveryInv, FilesSafe, Bounded
  <2> QED
    BY <1>4, <1>6, <2>1 DEF Crash, Bounded
<1>7. CASE UNCHANGED vars
  BY <1>7 DEF vars, locals, files, Bounded, TaskBound
<1> QED
  BY <1>1, <1>2, <1>3, <1>5, <1>6, <1>7, DownloadBounded DEF Next

\* A content is a record of those the type invariant lists.
LEMMA ShortContent ==
  ASSUME NEW c \in Files, Short(c)
  PROVE  c \in Contents
<1>1. c = Content(c.by, c.len, c.disk, c.whole)
  BY DEF Files, Content
<1>2. c.by \in Tasks \cup {Nobody, Before} /\ c.len \in 0..MaxBody /\ c.disk \in 0..MaxBody
      /\ c.whole \in 0..MaxBody
  BY TransferAssumption DEF Files, Short
<1> QED
  BY <1>1, <1>2 DEF Contents

\* No counter exceeds the body, no buffer its capacity, and nothing is on disk
\* that the system does not have.
THEOREM TypeCorrect == Spec => []TypeOK
<1>1. Init => Bounded
  BY TransferAssumption DEF Init, Bounded, TaskBound, Short, OldFile, NoFile, Content
<1>2. TInv /\ Bounded => TypeOK
  <2> SUFFICES ASSUME TInv, Bounded PROVE TypeOK
    OBVIOUS
  <2>1. ASSUME NEW t \in Tasks
        PROVE  /\ total[t] \subseteq Sizes /\ Cardinality(total[t]) <= 1
               /\ got[t] \in 0..MaxBody /\ chunk[t] \in 0..Chunk
               /\ buf[t] \in 0..BufSize
               /\ synced[t] <= part[t] /\ part[t] + buf[t] <= got[t]
    <3>1. total[t] \subseteq Sizes /\ Cardinality(total[t]) <= 1
      <4>1. CASE total[t] = {}
        <5>1. Cardinality({}) = 0
          BY FS_EmptySet
        <5> QED
          BY <4>1, <5>1
      <4>2. ASSUME NEW n \in Sizes, total[t] = {n}
            PROVE  total[t] \subseteq Sizes /\ Cardinality(total[t]) <= 1
        <5>1. Cardinality({n}) = 1
          BY FS_Singleton
        <5> QED
          BY <4>2, <5>1
      <4> QED
        BY <4>1, <4>2 DEF Bounded, TaskBound
    <3> QED
      BY <3>1, TransferAssumption DEF TInv, Typed, DeliveryInv, Received, Bounded, TaskBound
  <2>2. \A d \in Dests : file[d] \in Contents /\ past[d] \in Contents
    BY ShortContent DEF TInv, Typed, Bounded
  <2> QED
    BY <2>1, <2>2 DEF TypeOK, TInv, Typed, Bounded
<1> QED
  BY <1>1, <1>2, InitDelivery, NextDelivery, NextBounded, PTL DEF Spec

=============================================================================
