----------------------------- MODULE EventLoop -----------------------------
(***************************************************************************)
(* What uwb_loop promises an algorithm, with no registers, no interrupt    *)
(* and no dwt_isr: whatever ends a reception or a transmission is remem-   *)
(* bered until on_event is called for it, one call at a time and one call  *)
(* for what happened; and the radio changes hands only in these calls.     *)
(***************************************************************************)
VARIABLES
  radio,     \* "off", "rx" or "tx", which includes a start that is armed
  happened,  \* the kinds of events that on_event has still to be called for
  handling   \* what on_event, or the algorithm's init, is handling, or "none"

vars == <<radio, happened, handling>>

Kinds == {"PACKET_RECEIVED", "PACKET_SENT", "RECEIVE_TIMEOUT", "RECEIVE_FAILED"}

TypeOK ==
  /\ radio \in {"off", "rx", "tx"}
  /\ happened \subseteq Kinds
  /\ handling \in Kinds \cup {"START", "TIMEOUT", "none"}

-----------------------------------------------------------------------------
(***************************************************************************)
(* The air.                                                                *)
(***************************************************************************)
\* A good frame may be reported as failed, too.
Endings == {{"PACKET_RECEIVED"}, {"PACKET_RECEIVED", "RECEIVE_FAILED"},
            {"RECEIVE_TIMEOUT"}, {"RECEIVE_FAILED"}}

\* What ends as the event being handled did may be taken for the same one.
ReceptionEnds ==
  /\ radio = "rx" /\ radio' = "off"
  /\ \E ending \in Endings :
       happened' \in {happened \cup ending, happened \cup (ending \ {handling})}
  /\ UNCHANGED handling

TransmissionEnds ==
  /\ radio = "tx" /\ radio' = "off"
  /\ happened' = happened \cup {"PACKET_SENT"}
  /\ UNCHANGED handling

-----------------------------------------------------------------------------
(***************************************************************************)
(* The thread.                                                             *)
(***************************************************************************)
Begin ==
  /\ handling = "none"
  /\ handling' \in happened
  /\ happened' = happened \ {handling'}
  /\ UNCHANGED radio

\* Nothing has happened for as long as the algorithm wanted to wait, or almost.
BeginTimeout ==
  /\ handling = "none" /\ handling' = "TIMEOUT"
  /\ UNCHANGED <<radio, happened>>

InHand == handling # "none" /\ UNCHANGED handling

Listen   == InHand /\ radio = "off" /\ radio' = "rx" /\ UNCHANGED happened
Transmit == InHand /\ radio = "off" /\ radio' = "tx" /\ UNCHANGED happened
Abort    == InHand /\ radio' = "off" /\ UNCHANGED happened

\* Before it starts anew, an algorithm may forget what has happened.
Forget == InHand /\ radio = "off" /\ happened' \subseteq happened /\ UNCHANGED radio

\* The last thing an algorithm does is to listen, or to give up a late start.
Finish ==
  /\ handling # "none" /\ handling' = "none"
  /\ \/ UNCHANGED radio
     \/ radio = "off" /\ radio' = "rx"
     \/ radio = "tx" /\ radio' = "off"
  /\ UNCHANGED happened

Init == radio = "off" /\ happened = {} /\ handling = "START"
Next == \/ ReceptionEnds \/ TransmissionEnds \/ Begin \/ BeginTimeout
        \/ Listen \/ Transmit \/ Abort \/ Forget \/ Finish
Spec == Init /\ [][Next]_vars
=============================================================================
