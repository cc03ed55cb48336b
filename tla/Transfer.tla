------------------------------ MODULE Transfer ------------------------------
(***************************************************************************)
(* One run of the HTTP backend: DownloadEngine::download                   *)
(* (crates/download-engine/src/engine.rs) over FileStorage                 *)
(* (crates/storage/src/storage.rs).  Several tasks run at once and may     *)
(* share a destination; a step is the code between two awaits.  Files are  *)
(* counted in bytes, not spelled out.  A crash of the process leaves the   *)
(* files as they are; a crash of the machine keeps what was synced, any    *)
(* part of what was only written, and may undo a rename.                   *)
(***************************************************************************)
EXTENDS Naturals, FiniteSets

CONSTANTS
  Tasks,     \* transfers
  Dests,     \* destination paths
  Dest,      \* Dest[t]: request.output
  Replaces,  \* the tasks with opts.overwrite
  Existing,  \* destinations at which a file exists from the start
  Sizes,     \* the lengths a server may announce
  MaxBody,   \* bound: the longest body a server sends
  Chunk,     \* the longest chunk of a body
  BufSize,   \* BufWriter's capacity
  Rate,      \* burst of the rate limiter, 0 without one
  Faults,    \* whether the network and the file system may fail
  Crashes,   \* what may crash: {}, or some of "process" and "machine"
  TimesOut,  \* whether the HTTP client has a request_timeout
  Nobody, Before

ASSUME TransferAssumption ==
  /\ Dest \in [Tasks -> Dests]
  /\ Replaces \subseteq Tasks /\ Existing \subseteq Dests
  /\ Sizes \subseteq Nat
  /\ MaxBody \in Nat /\ Chunk \in Nat \ {0} /\ BufSize \in Nat \ {0} /\ Rate \in Nat
  /\ Faults \in BOOLEAN /\ Crashes \subseteq {"process", "machine"} /\ TimesOut \in BOOLEAN
  /\ Nobody # Before /\ Nobody \notin Tasks /\ Before \notin Tasks

VARIABLES
  pc,         \* where the task is in download()
  total,      \* content_length: {n} when announced, {} when not
  got,        \* downloaded
  chunk,      \* length of the chunk in hand
  buf,        \* bytes in the BufWriter
  part,       \* bytes of the part file the system has
  synced,     \* bytes of the part file on disk
  signalled,  \* whether the task's Notify holds a permit
  file,       \* content of each destination
  past        \* content a crash may bring back (bound: it undoes one rename)

locals == <<total, got, chunk, buf, part, synced>>
files == <<file, past>>
vars == <<pc, locals, signalled, files>>

Ended == {"ok", "failed", "cancelled"}
Running == {"connect", "create", "stream", "acquire", "write",
            "flush", "sync", "finalize", "rename", "blind", "report"}

\* A file: who wrote it, its length, how much of it is on disk, and how long
\* it would be if it were complete.
Content(by, len, disk, whole) == [by |-> by, len |-> len, disk |-> disk, whole |-> whole]
NoFile == Content(Nobody, 0, 0, 0)
OldFile == Content(Before, 0, 0, 0)
Exists(t) == file[Dest[t]] # NoFile

\* What a look at the destination may refuse: a file the task may not replace.
\* A look that fails sees none (exists(), try_exists().unwrap_or(false)).
Taken(t) == Exists(t) /\ t \notin Replaces

Goto(t, l) == pc' = [pc EXCEPT ![t] = l]
Set(f, t, v) == [f EXCEPT ![t] = v]

Init ==
  /\ pc = [t \in Tasks |-> "idle"]
  /\ total = [t \in Tasks |-> {}]
  /\ got = [t \in Tasks |-> 0]
  /\ chunk = got /\ buf = got /\ part = got /\ synced = got
  /\ signalled = [t \in Tasks |-> FALSE]
  /\ file = [d \in Dests |-> IF d \in Existing THEN OldFile ELSE NoFile]
  /\ past = file

\* download() returns, or is dropped: its locals are gone, a permit its Notify
\* still holds is never looked at, its part file stays where it is.
Leave(t, l) ==
  /\ Goto(t, l)
  /\ total' = Set(total, t, {})
  /\ got' = Set(got, t, 0) /\ chunk' = Set(chunk, t, 0) /\ buf' = Set(buf, t, 0)
  /\ part' = Set(part, t, 0) /\ synced' = Set(synced, t, 0)
  /\ signalled' = Set(signalled, t, FALSE)

\* An await on the network or the file system that returns an error.
Fails(t, l) == Faults /\ pc[t] = l /\ Leave(t, "failed") /\ UNCHANGED files

\* A new run: validate_request, the first look at the destination,
\* ensure_parent_dir.  The manager may have signalled the new Notify already.
Begin(t) ==
  /\ pc[t] \notin Running
  /\ \/ /\ Taken(t) => Faults
        /\ Goto(t, "connect")
        /\ \E s \in BOOLEAN : signalled' = Set(signalled, t, s)
     \/ /\ Taken(t) \/ Faults
        /\ Goto(t, "failed")
        /\ UNCHANGED signalled
  /\ UNCHANGED <<locals, files>>

\* download_stream: the response headers arrive.  The signal is not looked at.
Connect(t) ==
  /\ pc[t] = "connect"
  /\ \E n \in {{}} \cup {{s} : s \in Sizes} : total' = Set(total, t, n)
  /\ Goto(t, "create")
  /\ UNCHANGED <<got, chunk, buf, part, synced, signalled, files>>

\* create_part_file: create_new and a fresh UUID make the file the task's own.
CreatePart(t) ==
  /\ pc[t] = "create"
  /\ Goto(t, "stream")
  /\ UNCHANGED <<locals, signalled, files>>

\* Mutant: the signal is only looked at before the first byte.
HeedEarly(t) ==
  /\ pc[t] = "stream" /\ signalled[t] /\ got[t] = 0
  /\ Leave(t, "cancelled")
  /\ UNCHANGED files
\* The biased select: the signal comes first.
Heed(t) ==
  /\ pc[t] = "stream" /\ signalled[t]
  /\ Leave(t, "cancelled")
  /\ UNCHANGED files

\* The next chunk; an empty one goes round the loop.
Receive(t) ==
  /\ pc[t] = "stream" /\ ~signalled[t]
  /\ \E n \in 1..Chunk : got[t] + n <= MaxBody /\ chunk' = Set(chunk, t, n)
  /\ Goto(t, IF Rate = 0 THEN "write" ELSE "acquire")
  /\ UNCHANGED <<total, got, buf, part, synced, signalled, files>>

\* RateLimiter::acquire: a token bucket never holds more than its rate, and
\* the signal is not looked at (see Bandwidth).
Acquire(t) ==
  /\ pc[t] = "acquire" /\ chunk[t] <= Rate
  /\ Goto(t, "write")
  /\ UNCHANGED <<locals, signalled, files>>

\* Mutant: the buffer takes one chunk too many.
BuffersOneMore(t) == buf[t] + chunk[t] <= BufSize + 1
\* BufWriter: a chunk that fits waits in the buffer; one that does not pushes
\* the buffer out first; one as long as the buffer is written through.
Buffers(t) == buf[t] + chunk[t] <= BufSize

WriteChunk(t) ==
  LET n == chunk[t]
      kept == IF Buffers(t) THEN buf[t] ELSE 0
      through == n >= BufSize
  IN  /\ pc[t] = "write"
      /\ buf' = Set(buf, t, IF through THEN kept ELSE kept + n)
      /\ part' = Set(part, t, part[t] + (buf[t] - kept) + (IF through THEN n ELSE 0))
      /\ got' = Set(got, t, got[t] + n)
      /\ Goto(t, "stream")
      /\ chunk' = Set(chunk, t, 0)
      /\ UNCHANGED <<total, synced, signalled, files>>

\* Mutant: a connection that closes early ends the body.
VerifiedAtMost(t) == \A n \in total[t] : got[t] <= n
\* Mutant: a body longer than announced is accepted.
VerifiedAtLeast(t) == \A n \in total[t] : got[t] >= n
\* verify_length
Verified(t) == \A n \in total[t] : got[t] = n

\* The body ends.
EndOfBody(t) ==
  /\ pc[t] = "stream" /\ ~signalled[t]
  /\ IF Verified(t) THEN Goto(t, "flush") /\ UNCHANGED <<locals, signalled>>
     ELSE Leave(t, "failed")
  /\ UNCHANGED files

\* Mutant: the buffer is flushed and the file not synced.
FlushOnly(t) ==
  /\ pc[t] = "flush"
  /\ part' = Set(part, t, part[t] + buf[t]) /\ buf' = Set(buf, t, 0)
  /\ Goto(t, "finalize")
  /\ UNCHANGED <<total, got, chunk, synced, signalled, files>>
\* PartFileHandle::flush: first the buffer, then sync_all.
Flush(t) ==
  /\ pc[t] = "flush"
  /\ part' = Set(part, t, part[t] + buf[t]) /\ buf' = Set(buf, t, 0)
  /\ Goto(t, "sync")
  /\ UNCHANGED <<total, got, chunk, synced, signalled, files>>
Sync(t) ==
  /\ pc[t] = "sync"
  /\ synced' = Set(synced, t, part[t])
  /\ Goto(t, "finalize")
  /\ UNCHANGED <<total, got, chunk, buf, part, signalled, files>>

\* finalize: close drops what the buffer still holds, then the second look
\* at the destination.  A task whose look fails goes on "blind".
Proceed(t, l) ==
  /\ buf' = Set(buf, t, 0)
  /\ Goto(t, l)
  /\ UNCHANGED <<total, got, chunk, part, synced, signalled>>
Finalize(t) ==
  /\ pc[t] = "finalize"
  /\ \/ Taken(t) /\ Leave(t, "failed")
     \/ Taken(t) /\ Faults /\ Proceed(t, "blind")
     \/ ~Taken(t) /\ Proceed(t, "rename")
  /\ UNCHANGED files

\* The length the file would have if it held the whole body.
Whole(t) == IF total[t] = {} THEN got[t] ELSE CHOOSE n \in total[t] : TRUE

Rename(t) ==
  LET d == Dest[t]
  IN  /\ pc[t] \in {"rename", "blind"}
      /\ file' = Set(file, d, Content(t, part[t], synced[t], Whole(t)))
      /\ past' = Set(past, d, file[d])
      /\ Goto(t, "report")
      /\ UNCHANGED <<locals, signalled>>

\* The last progress report and Ok(summary).
Report(t) ==
  /\ pc[t] = "report"
  /\ Leave(t, "ok")
  /\ UNCHANGED files

\* The manager's notify_one, at any time of the run.
Signal(t) ==
  /\ pc[t] \in Running /\ ~signalled[t]
  /\ signalled' = Set(signalled, t, TRUE)
  /\ UNCHANGED <<pc, locals, files>>

\* The manager's shutdown aborts the task at an await.
Abort(t) ==
  /\ pc[t] \in Running
  /\ Leave(t, "idle")
  /\ UNCHANGED files

\* What a crash may leave of a file.
Torn(c) == {[c EXCEPT !.len = n, !.disk = n] : n \in c.disk .. c.len}

\* The process ends, and its transfers with it.
Lost ==
  /\ pc' = [t \in Tasks |-> "idle"]
  /\ total' = [t \in Tasks |-> {}]
  /\ got' = [t \in Tasks |-> 0]
  /\ chunk' = got' /\ buf' = got' /\ part' = got' /\ synced' = got'
  /\ signalled' = [t \in Tasks |-> FALSE]

Kill == "process" \in Crashes /\ Lost /\ UNCHANGED files

Crash ==
  /\ "machine" \in Crashes
  /\ Lost
  /\ file' \in [Dests -> UNION {Torn(past[d]) \cup Torn(file[d]) : d \in Dests}]
  /\ \A d \in Dests : file'[d] \in Torn(past[d]) \cup Torn(file[d])
  /\ past' = file'

Download(t) ==
  \/ Begin(t) \/ Connect(t) \/ CreatePart(t) \/ Heed(t) \/ Receive(t)
  \/ Acquire(t) \/ WriteChunk(t) \/ EndOfBody(t) \/ Flush(t) \/ Sync(t)
  \/ Finalize(t) \/ Rename(t) \/ Report(t)

Next ==
  \/ \E t \in Tasks : \/ Download(t) \/ Signal(t) \/ Abort(t)
                      \/ \E l \in Running \ {"acquire", "report"} : Fails(t, l)
  \/ Kill \/ Crash

Spec == Init /\ [][Next]_vars

\* The file system and the limiter answer; the server does so only when the
\* client has a request timeout, and its body may stay open for ever.
Answered(t) ==
  /\ WF_vars(CreatePart(t) \/ Heed(t) \/ Acquire(t) \/ WriteChunk(t)
             \/ Flush(t) \/ Sync(t) \/ Finalize(t) \/ Rename(t) \/ Report(t))
  /\ TimesOut => WF_vars(Connect(t) \/ Fails(t, "connect"))

FairSpec == Spec /\ \A t \in Tasks : Answered(t)

(***************************************************************************)
(* Properties.                                                             *)
(***************************************************************************)
Contents == {Content(by, len, disk, whole) :
               by \in Tasks \cup {Nobody, Before}, len \in 0..MaxBody,
               disk \in 0..MaxBody, whole \in 0..MaxBody}

\* Type invariant: counters stay within the body, the buffer within its
\* capacity, and what is on disk within what the system has.
TypeOK ==
  /\ pc \in [Tasks -> {"idle"} \cup Running \cup Ended]
  /\ \A t \in Tasks :
       /\ total[t] \subseteq Sizes /\ Cardinality(total[t]) <= 1
       /\ got[t] \in 0..MaxBody /\ chunk[t] \in 0..Chunk
       /\ buf[t] \in 0..BufSize
       /\ synced[t] <= part[t] /\ part[t] + buf[t] <= got[t]
  /\ signalled \in [Tasks -> BOOLEAN]
  /\ \A d \in Dests : file[d] \in Contents /\ past[d] \in Contents

\* Whatever fails or crashes, and wherever, a destination never holds part of
\* a body: no byte is left in the buffer, cut off by the server or lost.
NeverTorn == \A d \in Dests : file[d].len = file[d].whole

\* Why: no byte received is lost on its way to the part file, and a task that
\* is about to rename has verified, flushed and synced it.
Received ==
  \A t \in Tasks :
    /\ part[t] + buf[t] = got[t]
    /\ pc[t] \in {"flush", "sync", "finalize", "rename", "blind"} => Verified(t)
    /\ pc[t] \in {"sync", "finalize", "rename", "blind"} => buf[t] = 0
    /\ pc[t] \in {"finalize", "rename", "blind"} => synced[t] = part[t]
Safe(c) == c.len = c.whole /\ c.disk = c.len
FilesSafe == \A d \in Dests : Safe(file[d]) /\ Safe(past[d])
DeliveryInv == Received /\ FilesSafe

\* Whose complete file a content is: part of a body is nobody's file.
Owner(c) == IF c.len = c.whole THEN c.by ELSE Nobody

\* What a caller can know of a task at a given point of download().
PhaseOf(l) ==
  IF l = "idle" THEN "ready" ELSE IF l = "report" THEN "delivered"
  ELSE IF l \in Ended \cup {"blind"} THEN l ELSE "running"

Holder == [d \in Dests |-> Owner(file[d])]
Former == [d \in Dests |-> Owner(past[d])]
Phase == [t \in Tasks |-> PhaseOf(pc[t])]

\* A transfer implements the promise of its abstract specification: destinations
\* change in one step, to a complete file, a file that was there gives way only
\* to a task that may replace it or whose look at it failed, and a run that
\* ended without success has changed none.
Promise == INSTANCE Delivery WITH owner <- Holder, earlier <- Former, phase <- Phase
ImplementsDelivery == Promise!Spec

\* A task that was signalled ends, even if its server sends nothing more.
SignalHeard ==
  \A t \in Tasks : (pc[t] \in Running /\ signalled[t]) ~> (pc[t] \notin Running)

(***************************************************************************)
(* A property one would expect, and the code does not have (see README).   *)
(***************************************************************************)

\* A file that is there is replaced only by a task that may overwrite it.
NoClobber ==
  [][\A d \in Dests :
       file'[d] # file[d] /\ file[d] # NoFile => file'[d].by \in Replaces]_vars
=============================================================================
