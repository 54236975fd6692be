---------------------------- MODULE TaskLifecycle ----------------------------
(***************************************************************************)
(* What a task looks like to its client (SEP-2663): it is created working, *)
(* alternates between working and input_required, reaches one terminal     *)
(* status, and may disappear at any time, alone or with others.  A         *)
(* terminal status is final, and a task that is gone does not come back.   *)
(***************************************************************************)
CONSTANT Tasks
VARIABLE status

Active == {"working", "input_required"}
Terminal == {"completed", "failed", "cancelled"}

May(s) == CASE s = "none" -> {"none", "working"}
            [] s \in Active -> Active \cup Terminal \cup {"gone"}
            [] OTHER -> {s, "gone"}

Init == status = [t \in Tasks |-> "none"]

Next == /\ status' \in [Tasks -> {"none", "gone"} \cup Active \cup Terminal]
        /\ \A t \in Tasks : status'[t] \in May(status[t])

Spec == Init /\ [][Next]_status
=============================================================================
