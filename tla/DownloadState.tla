---------------------------- MODULE DownloadState ----------------------------
(***************************************************************************)
(* The lifecycle states of a managed download and the table of legal       *)
(* transitions between them (crates/core/src/state.rs).  Absent stands for *)
(* an id the manager's map does not hold.                                  *)
(***************************************************************************)

Absent == "absent"

States == {"Queued", "Starting", "Downloading", "Paused",
           "Completed", "Failed", "Cancelled"}

\* The states in which a download occupies a slot: `matches!(state,
\* Starting | Downloading)` in count_active, pause, cancel and run_download.
Active == {"Starting", "Downloading"}

Terminal == {"Completed", "Cancelled"}

NextStates ==
  [s \in States |->
     CASE s = "Queued"      -> {"Starting", "Failed", "Cancelled"}
       [] s = "Starting"    -> {"Downloading"} \cup
                               {"Completed", "Paused", "Failed", "Cancelled"}
       [] s = "Downloading" -> {"Completed", "Paused", "Failed", "Cancelled"}
       [] s = "Paused"      -> {"Queued", "Cancelled"}
       [] s = "Failed"      -> {"Queued", "Cancelled"}
       [] OTHER             -> {}]

\* Mutant: transition() accepts every target.
TransitionAny(from, to) == from # Absent /\ to \in States
\* Mutant: the table forgets that a small file completes while Starting.
TransitionNoShortcut(from, to) ==
  from # Absent /\ to \in NextStates[from] \ (IF from = "Starting" THEN {"Completed"} ELSE {})
\* is_valid_transition; an id that is not in the map has no state to leave.
CanTransition(from, to) == from # Absent /\ to \in NextStates[from]

=============================================================================
