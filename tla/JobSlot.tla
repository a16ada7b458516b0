------------------------------- MODULE JobSlot -------------------------------
(***************************************************************************)
(* What a one-at-a-time job promises (ui/exportsmodel.go): no job starts    *)
(* beside another, and a job asked to stop stays asked until it ends.       *)
(***************************************************************************)
EXTENDS Naturals

VARIABLES
  last,   \* the job started last, 0 before the first
  state   \* of it: "idle", "running", "stopping"

Init == last = 0 /\ state = "idle"

\* Jobs are numbered as they start, those of other slots among them.
Start ==
  /\ state = "idle"
  /\ last' > last
  /\ state' = "running"

Stop == state = "running" /\ state' = "stopping" /\ UNCHANGED last

End == state # "idle" /\ state' = "idle" /\ UNCHANGED last

Next == Start \/ Stop \/ End

Spec == Init /\ [][Next]_<<last, state>>
=============================================================================
