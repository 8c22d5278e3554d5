--------------------------- MODULE StatusMachine ---------------------------
(***************************************************************************)
(* What a reader of the API is promised about a status: an item appears    *)
(* with its first status and from then on moves only along the contract's  *)
(* table.  One statement of SQL may move several rows, so one step may     *)
(* move several items.  The devbox and the session tables implement it.    *)
(***************************************************************************)
CONSTANTS Items,          \* the devboxes, or the sessions
          First,          \* the status an item is created with
          Absent,         \* the "status" of an item not created yet
          Allowed(_, _)   \* may an item move from this status to that one?

VARIABLE status

Init == status = [i \in Items |-> Absent]

Created(i) == status[i] = Absent /\ status'[i] = First
Moved(i)   == status[i] # Absent /\ Allowed(status[i], status'[i])

Next ==
  /\ status' = [i \in Items |-> status'[i]]
  /\ \A i \in Items : Created(i) \/ Moved(i) \/ status'[i] = status[i]

Spec == Init /\ [][Next]_status
=============================================================================
