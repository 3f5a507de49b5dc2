-------------------------- MODULE DriverApplication --------------------------
(***************************************************************************)
(* What every driver of the platform promises (cav::DriverApplication): a  *)
(* status, bonds with the nodes that watch it, and a spin loop that ends   *)
(* after a FATAL or SHUTDOWN system alert.  A status that changes releases *)
(* every bond, and nothing changes any more once run() has returned.       *)
(***************************************************************************)

CONSTANT Client   \* ids of the nodes that may bind

VARIABLES phase,  \* where run() is
          status, \* status_.status
          bonds   \* the keys of bond_map_

vars == <<phase, status, bonds>>

Status == {"OFF", "OPERATIONAL", "DEGRADED", "FAULT"}

Phase == {"spin", "closing", "down", "crashed"}

Running == phase \in {"spin", "closing"}

Init == phase = "spin" /\ status = "OFF" /\ bonds = {}

setStatus(s) ==
    /\ Running /\ s # status
    /\ status' = s /\ bonds' = {}
    /\ UNCHANGED phase

bind_service_cb(c) ==
    /\ Running
    /\ bonds' = bonds \cup {c}
    /\ UNCHANGED <<phase, status>>

system_alert_cb ==
    /\ phase = "spin" /\ phase' = "closing"
    /\ UNCHANGED <<status, bonds>>

(* The loop ends, shutdown() does its work and run() returns. *)
Return ==
    /\ phase = "closing" /\ phase' = "down"
    /\ UNCHANGED <<status, bonds>>

(* The process dies. *)
Crash ==
    /\ Running /\ phase' = "crashed"
    /\ UNCHANGED <<status, bonds>>

Next == \/ \E s \in Status : setStatus(s)
        \/ \E c \in Client : bind_service_cb(c)
        \/ system_alert_cb \/ Return \/ Crash

Spec == Init /\ [][Next]_vars /\ WF_vars(Return)

=============================================================================
