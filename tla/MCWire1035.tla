----------------------------- MODULE MCWire1035 -----------------------------
(***************************************************************************)
(* Wire1035 with names that share some or all of their labels, one of them *)
(* with a label twice, and a table that four labels fill.  They end in one  *)
(* root label that no other place of a name has, as the daemon's names all  *)
(* end in "local."; PrefixNames has a name that begins another one.         *)
(***************************************************************************)
EXTENDS Wire1035

LocalNames == {<<98, Dot, 114>>, <<97, 97, Dot, 114, Dot>>, <<97, 97, Dot, 97, 97, Dot, 114>>}

PrefixNames == {<<97, Dot, 114>>, <<99, 99, Dot, 97, Dot, 114, Dot>>, <<99, 99>>}

Plain == [id |-> 0, qr |-> TRUE, opcode |-> 0, aa |-> TRUE, tc |-> FALSE, rd |-> FALSE,
          ra |-> FALSE, z |-> 0, rcode |-> 0]

MCTexts == {<<3, 97, 61, 192>>}

PlainHeader == {Plain}

FullHeader == {[id |-> 65281, qr |-> FALSE, opcode |-> 5, aa |-> FALSE, tc |-> TRUE, rd |-> TRUE,
                      ra |-> TRUE, z |-> 2, rcode |-> 9]}
=============================================================================
