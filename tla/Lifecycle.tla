------------------------------ MODULE Lifecycle ------------------------------
(***************************************************************************)
(* What the download manager promises about each download, with no queue,  *)
(* no lock, no thread and no database: a state that moves only along the   *)
(* transition table, and the number of transfers running on its behalf.    *)
(* A transfer begins only while the download holds a slot, there is never  *)
(* a second one, and the state leaves the slot only when no transfer runs, *)
(* unless the download is removed or the process crashes.                  *)
(***************************************************************************)
EXTENDS DownloadState, Naturals

CONSTANT Ids

VARIABLES state,      \* [Ids -> States \cup {Absent}]
          transfers   \* [Ids -> Nat], the running backend transfers of an id

vars == <<state, transfers>>

Init ==
  /\ state = [id \in Ids |-> Absent]
  /\ transfers = [id \in Ids |-> 0]

\* The state of `id` becomes `to`, along the table and with no transfer.
Move(id, from, to) ==
  /\ state[id] \in from
  /\ to \in NextStates[state[id]]
  /\ state' = [state EXCEPT ![id] = to]
  /\ UNCHANGED transfers

Accept(id) ==
  /\ state[id] = Absent
  /\ state' = [state EXCEPT ![id] = "Queued"]
  /\ UNCHANGED transfers

Requeue(id) == transfers[id] = 0 /\ Move(id, {"Paused", "Failed"}, "Queued")

Start(id) == transfers[id] = 0 /\ Move(id, {"Queued"}, "Starting")

Connect(id) ==
  /\ state[id] \in Active
  /\ transfers[id] = 0
  /\ transfers' = [transfers EXCEPT ![id] = 1]
  /\ UNCHANGED state

FirstBytes(id) == transfers[id] = 1 /\ Move(id, {"Starting"}, "Downloading")

Disconnect(id) ==
  /\ transfers[id] = 1
  /\ transfers' = [transfers EXCEPT ![id] = 0]
  /\ UNCHANGED state

Settle(id, to) == transfers[id] = 0 /\ Move(id, Active, to)

Cancel(id) ==
  transfers[id] = 0 /\ Move(id, {"Queued", "Paused", "Failed"}, "Cancelled")

Forget(id) ==
  /\ state[id] # Absent
  /\ state' = [state EXCEPT ![id] = Absent]
  /\ UNCHANGED transfers

\* A crash, and the manager opened again: no transfer survives, no download is
\* lost and none comes back in a slot.
Restart ==
  /\ transfers' = [id \in Ids |-> 0]
  /\ state' \in [Ids -> (States \ Active) \cup {Absent}]
  /\ \A id \in Ids : state[id] # Absent => state'[id] # Absent

Next ==
  \/ \E id \in Ids :
        \/ Accept(id) \/ Requeue(id) \/ Start(id) \/ Connect(id)
        \/ FirstBytes(id) \/ Disconnect(id) \/ Cancel(id) \/ Forget(id)
        \/ \E to \in {"Completed", "Paused", "Failed", "Cancelled"} : Settle(id, to)
  \/ Restart

Spec == Init /\ [][Next]_vars

=============================================================================
