---------------------------- MODULE ControlPipe ----------------------------
(***************************************************************************)
(* What the USB side of the firmware promises a host: one control request  *)
(* at a time is served or refused.  A request the device knows is refused  *)
(* only if it was sent early, that is before the device had returned from  *)
(* the handler of the last one; what is served is the request itself and   *)
(* not what another one left behind; and a request the host does not give  *)
(* up comes to an end.                                                     *)
(***************************************************************************)

CONSTANTS
  Requests,  \* The requests the host may send.
  Known,     \* Those of them the device has a handler for.
  Nothing    \* Not a request.

VARIABLES
  state,     \* Of the request: "idle", "pending", "served", "refused", "lost".
  req,       \* The request.
  early,     \* Whether it was sent before the device was ready for it.
  answer     \* The request the device has answered.

vars == <<state, req, early, answer>>

States == {"idle", "pending", "served", "refused", "lost"}

TypeOK ==
  /\ state \in States
  /\ req \in Requests \cup {Nothing}
  /\ early \in BOOLEAN
  /\ answer \in Requests \cup {Nothing}

Init == state = "idle" /\ req = Nothing /\ early = FALSE /\ answer = Nothing

Begin ==
  /\ state # "pending"
  /\ state' = "pending"
  /\ req' \in Requests
  /\ early' \in BOOLEAN
  /\ answer' = Nothing

Serve ==
  /\ state = "pending"
  /\ state' = "served"
  /\ answer' = req
  /\ UNCHANGED <<req, early>>

Refuse ==
  /\ state = "pending"
  /\ req \in Known => early
  /\ state' = "refused"
  /\ UNCHANGED <<req, early, answer>>

(* The host gives up, or the bus is disturbed.                             *)
Lose == state' = "lost" /\ req' = Nothing /\ early' = FALSE /\ answer' = Nothing

Next == Begin \/ Serve \/ Refuse \/ Lose

SafeSpec == Init /\ [][Next]_vars

Spec == SafeSpec /\ WF_vars(Serve \/ Refuse)
=============================================================================
