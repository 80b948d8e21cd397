----------------------------- MODULE AckPromise -----------------------------
(***************************************************************************)
(* What a caller of BroadcastOperator.Timeout(d).Emit(event, ..., callback) *)
(* is promised: the callback runs at most once, either without an error or *)
(* with ErrAckTimeout, and it does run when d is not zero.                 *)
(***************************************************************************)
CONSTANTS
  Bcast,   \* the broadcasts with an acknowledgement callback
  Timed    \* those emitted with a timeout other than zero

VARIABLE phase

Phase == {"new", "pending", "ok", "timeout"}

Init == phase = [b \in Bcast |-> "new"]

Emit(b) ==
  /\ phase[b] = "new"
  /\ phase' = [phase EXCEPT ![b] = "pending"]

Resolve(b) ==
  /\ phase[b] = "pending"
  /\ phase' = [phase EXCEPT ![b] = "ok"]

Expire(b) ==
  /\ phase[b] = "pending"
  /\ b \in Timed
  /\ phase' = [phase EXCEPT ![b] = "timeout"]

Next == \E b \in Bcast : Emit(b) \/ Resolve(b) \/ Expire(b)

Safety == Init /\ [][Next]_phase

Spec == Safety /\ \A b \in Timed : WF_phase(Resolve(b) \/ Expire(b))
=============================================================================
