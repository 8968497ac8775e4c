------------------------------ MODULE RunSlots -------------------------------
(***************************************************************************)
(* What the scheduler of remote/scheduler.go promises, whatever the pool   *)
(* of workers and the queue behind it look like.                           *)
(*                                                                         *)
(* Every target owns one slot.  A run of the target goes through the slot: *)
(* it waits, it is on the router, it has reported its outcome (a result    *)
(* recorded or an error counted), and only then is the slot free again.    *)
(* Once the scheduler is closing no run begins, waiting runs may be        *)
(* discarded, and the scheduler closes when no run is under way.           *)
(***************************************************************************)
CONSTANT Targets

VARIABLES
  phase,   \* "open", "closing", "closed"
  slot     \* per target: "free", "waiting", "running", "reported"

svars == <<phase, slot>>

SlotTypeOK ==
  /\ phase \in {"open", "closing", "closed"}
  /\ slot \in [Targets -> {"free", "waiting", "running", "reported"}]

Move(t, from, to) ==
  /\ slot[t] = from
  /\ slot' = [slot EXCEPT ![t] = to]
  /\ UNCHANGED phase

Admit(t)   == phase # "closed" /\ Move(t, "free", "waiting")
Begin(t)   == phase = "open" /\ Move(t, "waiting", "running")
Report(t)  == phase # "closed" /\ Move(t, "running", "reported")
Release(t) == phase # "closed" /\ Move(t, "reported", "free")
Discard(t) == phase = "closing" /\ Move(t, "waiting", "free")

Closing == phase = "open" /\ phase' = "closing" /\ UNCHANGED slot

Closed ==
  /\ phase # "closed"
  /\ \A t \in Targets : slot[t] \in {"free", "waiting"}
  /\ phase' = "closed"
  /\ UNCHANGED slot

SlotInit == phase = "open" /\ slot = [t \in Targets |-> "free"]

SlotNext ==
  \/ \E t \in Targets :
       Admit(t) \/ Begin(t) \/ Report(t) \/ Release(t) \/ Discard(t)
  \/ Closing
  \/ Closed

SlotSpec == SlotInit /\ [][SlotNext]_svars
=============================================================================
