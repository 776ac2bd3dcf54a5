-------------------------------- MODULE SdTxt --------------------------------
(***************************************************************************)
(* The TXT records of src/dns/sdtxt.c: a table of keys and values becomes  *)
(* a row of blocks, each after its length, and a table again.              *)
(***************************************************************************)
EXTENDS Xht

CONSTANT Behind   \* what may follow the data of the record in memory

Equals == 61

\* _sd2txt_write: an empty value is left out, and so is its equals sign.
Block(n) == IF n.val = <<>> THEN n.key ELSE n.key \o <<Equals>> \o n.val

\* sd2txt
sd2txt(table) ==
  LET nodes == xht_walk(table)
      upto[i \in 0..Len(nodes)] ==
        IF i = 0 THEN <<>> ELSE upto[i - 1] \o <<Len(Block(nodes[i])) % 256>> \o Block(nodes[i])
  IN  IF nodes = <<>> THEN <<0>> ELSE upto[Len(nodes)]

\* A mutant: the value is what follows the last equals sign.
SplitLast(block) ==
  LET at == {i \in DOMAIN block : block[i] = Equals} IN CHOOSE i \in at : \A j \in at : j <= i

\* strchr(key, '=')
Split(block) == First({i \in DOMAIN block : block[i] = Equals})

\* txt2sd: from txt, of which len bytes are said to be left.  len goes down by
\* the length of a block without its length byte, so the loop runs past the end
\* of the data and stops at what lies behind it.  A block without a value ends
\* the program: its length is taken of a NULL pointer.
Crash == <<>>
txt2sd(bytes, len) ==
  LET store(table, block) ==   \* xht_store does nothing for an empty key
        LET key == SubSeq(block, 1, Split(block) - 1)
            val == SubSeq(block, Split(block) + 1, Len(block))
        IN  IF key = <<>> THEN table ELSE _xht_set(table, key, val, TRUE, 1, FALSE).zen
      loop[at \in 1..(Len(bytes) + 1), left \in -1..len] ==
        LET n == bytes[at]
            block == SubSeq(bytes, at + 1, at + n)
        IN  IF n > left \/ left <= 0 \/ n = 0 THEN <<>> ELSE <<block>> \o loop[at + n + 1, left - n]
      blocks == loop[1, len]
      upto[i \in 0..Len(blocks)] == IF i = 0 THEN xht_new(23) ELSE store(upto[i - 1], blocks[i])
  IN  IF \E i \in DOMAIN blocks : Split(blocks[i]) = 0 THEN Crash ELSE upto[Len(blocks)]

(* A receiver finds in a TXT record each key that the table of the sender gives
   a value to, with that value, and no other key, whatever order the table's
   history left the nodes in and whatever follows the record in memory. *)
TxtRoundTrip ==
  \A behind \in Behind :
    LET txt == sd2txt(zen)
        received == txt2sd(txt \o behind, Len(txt))
    IN  /\ received # Crash
        /\ \A k \in Keys : xht_get(received, k) = xht_get(zen, k)
        /\ Len(xht_walk(received)) = Len(xht_walk(zen))
=============================================================================
