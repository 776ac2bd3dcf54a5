---------------------------- MODULE ContentModel ----------------------------
(***************************************************************************)
(* What the check of a content model promises, as a stack of open groups:  *)
(* every group uses one connector, the comma or the bar, from its opening  *)
(* parenthesis to its closing one, whatever the groups inside it use.      *)
(***************************************************************************)
EXTENDS Sequences

VARIABLE stack

Init == stack = <<>>

Open == stack' = <<"none">> \o stack

Close == stack # <<>> /\ stack' = Tail(stack)

Join(c) ==
  /\ stack # <<>>
  /\ Head(stack) \in {"none", c}
  /\ stack' = <<c>> \o Tail(stack)

\* A syntax error, or a model of character data, gives the declaration up.
Leave == stack' = <<>>

Next == Open \/ Close \/ Leave \/ \E c \in {",", "|"} : Join(c)

Spec == Init /\ [][Next]_stack
=============================================================================
