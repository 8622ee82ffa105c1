----------------------------- MODULE ConfigMap -----------------------------
(***************************************************************************)
(* What the configuration store promises, with no buffer and no TLV        *)
(* encoding: a working copy of a map from fields to values and the copy    *)
(* that survives a restart.                                                *)
(***************************************************************************)
CONSTANTS Fields, Values, Unset

VARIABLES
  ram,     \* the working copy, a value or Unset for each field
  nvs,     \* the stored copy: [present, map]
  pending  \* a change or the defaults have still to be stored

vars == <<ram, nvs, pending>>

Maps   == [Fields -> Values \cup {Unset}]
Empty  == [f \in Fields |-> Unset]
NoCopy == [present |-> FALSE, map |-> Empty]

TypeOK ==
  /\ ram \in Maps
  /\ nvs \in [present : BOOLEAN, map : Maps]
  /\ pending \in BOOLEAN

\* One field of the working copy is written.
Put == \E f \in Fields, v \in Values :
  /\ ~pending
  /\ ram' = [ram EXCEPT ![f] = v]
  /\ pending' = TRUE
  /\ UNCHANGED nvs

\* The restart found no valid copy: the working copy, as it is, is stored.
Defaults == ~pending /\ pending' = TRUE /\ UNCHANGED <<ram, nvs>>

Store == /\ pending
         /\ nvs' = [present |-> TRUE, map |-> ram]
         /\ pending' = FALSE
         /\ UNCHANGED ram

\* Storing fails: the working copy keeps the change.
StoreFails == pending /\ pending' = FALSE /\ UNCHANGED <<ram, nvs>>

\* The working copy is read from the stored one.
Load == /\ nvs.present /\ ~pending
        /\ ram' = nvs.map
        /\ UNCHANGED <<nvs, pending>>

Erase == ~pending /\ nvs' = NoCopy /\ UNCHANGED <<ram, pending>>

Restart == ram' = Empty /\ pending' = FALSE /\ UNCHANGED nvs

\* The stored copy before the first start may hold anything.
Init == ram = Empty /\ nvs \in [present : BOOLEAN, map : Maps] /\ pending = FALSE
Next == Put \/ Defaults \/ Store \/ StoreFails \/ Load \/ Erase \/ Restart
Spec == Init /\ [][Next]_vars
=============================================================================
