------------------------------ MODULE Delivery ------------------------------
(***************************************************************************)
(* What a transfer promises to whoever asked for it, with no part file, no *)
(* buffer and no network: a destination holds nothing, what was there      *)
(* before, or the complete file of one task; it changes in one step, and   *)
(* only a task that may replace a file, or that overlooked it because the  *)
(* file system would not say what is there, takes the place of one.  A     *)
(* crash may undo a change of a destination, never leave half of it.       *)
(***************************************************************************)
CONSTANTS Tasks,     \* the transfers
          Dests,     \* the destinations
          Dest,      \* Dest[t]: where t delivers
          Replaces,  \* the tasks that may replace a file
          Faults,    \* whether the file system may fail to say what is there
          Nobody,    \* owner of a destination with no file
          Before     \* owner of a file that was there before

VARIABLES owner,     \* whose complete file a destination holds
          earlier,   \* what a crash may bring back
          phase      \* what a caller can know of a task

vars == <<owner, earlier, phase>>

Init ==
  /\ owner \in [Dests -> {Nobody, Before}]
  /\ earlier = owner
  /\ phase = [t \in Tasks |-> "ready"]

Become(t, from, to) ==
  phase[t] \in from /\ phase' = [phase EXCEPT ![t] = to]

\* Any run that has ended can be followed by another one.
AtRest == {"ready", "ok", "failed", "cancelled"}

Start(t) == Become(t, AtRest, "running") /\ UNCHANGED <<owner, earlier>>

\* The file that is there is not seen: the task goes on as if there were none.
Overlook(t) ==
  /\ Faults
  /\ owner[Dest[t]] # Nobody /\ t \notin Replaces
  /\ Become(t, {"running"}, "blind")
  /\ UNCHANGED <<owner, earlier>>

Deliver(t) ==
  LET d == Dest[t]
  IN  /\ Become(t, {"running", "blind"}, "delivered")
      /\ owner[d] # Nobody => t \in Replaces \/ phase[t] = "blind"
      /\ owner' = [owner EXCEPT ![d] = t]
      /\ earlier' = [earlier EXCEPT ![d] = owner[d]]

Succeed(t) == Become(t, {"delivered"}, "ok") /\ UNCHANGED <<owner, earlier>>

\* A transfer that ends otherwise has delivered nothing.
Fail(t) ==
  Become(t, AtRest \cup {"running", "blind"}, "failed") /\ UNCHANGED <<owner, earlier>>
Stop(t) == Become(t, {"running"}, "cancelled") /\ UNCHANGED <<owner, earlier>>

Abandon(t) ==
  Become(t, {"running", "blind", "delivered"}, "ready") /\ UNCHANGED <<owner, earlier>>

\* The process dies with every transfer it runs.
Kill == phase' = [t \in Tasks |-> "ready"] /\ UNCHANGED <<owner, earlier>>

Crash ==
  /\ phase' = [t \in Tasks |-> "ready"]
  /\ owner' \in [Dests -> Tasks \cup {Nobody, Before}]
  /\ \A d \in Dests : owner'[d] \in {owner[d], earlier[d]}
  /\ earlier' = owner'

Next ==
  \/ \E t \in Tasks : \/ Start(t) \/ Overlook(t) \/ Deliver(t) \/ Succeed(t)
                      \/ Fail(t) \/ Stop(t) \/ Abandon(t)
  \/ Kill \/ Crash

Spec == Init /\ [][Next]_vars

=============================================================================
