------------------------- MODULE GuidanceLifecycle -------------------------
(***************************************************************************)
(* The life cycle that CARMA Guidance promises to whoever watches it: one  *)
(* state, and the order in which its values may follow each other.  The    *)
(* state machine and every component's own copy of the state implement     *)
(* this specification (see GuidanceStateMachine).                          *)
(***************************************************************************)

State == {"STARTUP", "DRIVERS_READY", "ACTIVE", "INACTIVE", "ENGAGED", "SHUTDOWN"}

(* The states a state may be followed by.  SHUTDOWN is reachable from every
   other state and is final; ENGAGED is only reached from ACTIVE or INACTIVE,
   and leaving the route always goes back through DRIVERS_READY. *)
Successor ==
    [s \in State |->
        CASE s = "STARTUP"       -> {"DRIVERS_READY", "SHUTDOWN"}
          [] s = "DRIVERS_READY" -> {"ACTIVE", "SHUTDOWN"}
          [] s = "ACTIVE"        -> {"ENGAGED", "DRIVERS_READY", "SHUTDOWN"}
          [] s = "ENGAGED"       -> {"INACTIVE", "DRIVERS_READY", "SHUTDOWN"}
          [] s = "INACTIVE"      -> {"ENGAGED", "DRIVERS_READY", "SHUTDOWN"}
          [] s = "SHUTDOWN"      -> {}]

VARIABLE state

Init == state = "STARTUP"

Next == state' \in Successor[state]

Spec == Init /\ [][Next]_state
=============================================================================
