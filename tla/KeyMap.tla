------------------------------- MODULE KeyMap -------------------------------
(***************************************************************************)
(* What src/misc/xht.h promises: a map from strings to values.  A request  *)
(* gives one key a value, or none, and does nothing to the other keys.     *)
(***************************************************************************)
CONSTANTS Keys, Values, NoValue

VARIABLES
  map,      \* the value of each key
  request   \* the last request: the key and its value

Init ==
  /\ map = [k \in Keys |-> NoValue]
  /\ request = <<>>

Set(key, val) ==
  /\ request' = <<key, val>>
  /\ map' = [map EXCEPT ![key] = val]

Next == \E key \in Keys, val \in Values \cup {NoValue} : Set(key, val)

Spec == Init /\ [][Next]_<<map, request>>
=============================================================================
