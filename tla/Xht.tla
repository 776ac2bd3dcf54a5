--------------------------------- MODULE Xht ---------------------------------
(***************************************************************************)
(* The hash table of src/misc/xht.c.  A bucket is a sequence of nodes: the *)
(* one in the array zen and those of its chain.  Keys and values are       *)
(* sequences of characters; those that xht_store copied are a copy, a      *)
(* number, that the table owns.                                            *)
(***************************************************************************)
EXTENDS Integers, Sequences, FiniteSets

CONSTANTS
  Keys,
  Values,
  Prime,    \* the buckets of the table
  Copies    \* bound: the copies that exist at the same time

\* No key is so long that _xhter reaches the bits it folds back.
ASSUME KeysShort == \A k \in Keys : Len(k) <= 6

ASSUME PrimePositive == Prime \in Nat \ {0}
ASSUME KeysAreStrings == Keys \subseteq Seq(1..255)
ASSUME CopiesNumbered == Copies \subseteq Nat \ {0}

NULL == <<-1>>   \* a value, or a key, that is a NULL pointer
ASSUME ValuesExist == NULL \notin Values

\* _xhter
Hash(key) ==
  LET h[i \in 0..Len(key)] == IF i = 0 THEN 0 ELSE 16 * h[i - 1] + key[i] IN h[Len(key)]

Bzeroed == [flag |-> FALSE, key |-> NULL, val |-> NULL, copy |-> 0]

xht_new(prime) == [i \in 0..(prime - 1) |-> <<Bzeroed>>]

\* _xht_node_find, the places of the nodes of a bucket with this key.
Find(bucket, key) == {n \in DOMAIN bucket : bucket[n].key = key}

\* The first of some places, which are positive, or 0.
First(places) == IF places = {} THEN 0 ELSE CHOOSE n \in places : \A o \in places : n <= o

\* A mutant: the first free node is taken before the key is looked for.
PlaceFree(bucket, key) ==
  LET free == {n \in DOMAIN bucket : bucket[n].val = NULL}
  IN  First(IF free # {} THEN free ELSE Find(bucket, key))

\* Where _xht_set puts the key: at its node, else at a free one; 0 for none.
Place(bucket, key) ==
  First(IF Find(bucket, key) # {} THEN Find(bucket, key)
        ELSE {n \in DOMAIN bucket : bucket[n].val = NULL})

\* The chain grows behind the node of the array.  Nobody sets the new node's
\* flag before it is read: stray is what malloc left there.
Grown(bucket, stray) == <<bucket[1], [Bzeroed EXCEPT !.flag = stray]>> \o SubSeq(bucket, 2, Len(bucket))

\* _xht_set, with the bucket after it and the node whose key and value it frees.
_xht_set(zen, key, val, flag, copy, stray) ==
  LET i == Hash(key) % Cardinality(DOMAIN zen)
      at == Place(zen[i], key)
      bucket == IF at = 0 THEN Grown(zen[i], stray) ELSE zen[i]
      n == IF at = 0 THEN 2 ELSE at
  IN  [zen |-> [zen EXCEPT ![i] = [bucket EXCEPT ![n] = [flag |-> flag, key |-> key, val |-> val, copy |-> copy]]],
       old |-> bucket[n]]

xht_get(zen, key) ==
  LET bucket == zen[Hash(key) % Cardinality(DOMAIN zen)]
      at == First(Find(bucket, key))
  IN  IF at = 0 THEN NULL ELSE bucket[at].val

\* xht_walk: the keys that have a value, in the order in which the walker is called.
xht_walk(zen) ==
  LET upto[i \in 0..Cardinality(DOMAIN zen)] ==
        IF i = 0 THEN <<>>
        ELSE upto[i - 1] \o SelectSeq(zen[i - 1], LAMBDA n : n.key # NULL /\ n.val # NULL)
  IN  upto[Cardinality(DOMAIN zen)]

-----------------------------------------------------------------------------

VARIABLES
  zen,       \* the buckets
  state,     \* "used", "freed", or "crashed": free was called on a stray pointer
  live,      \* the copies that were allocated and not freed
  twice,     \* history: a copy was freed that was not live
  request    \* history: the last key and value that were set

vars == <<zen, state, live, twice, request>>

Init ==
  /\ zen = xht_new(Prime)
  /\ state = "used"
  /\ live = {}
  /\ twice = FALSE
  /\ request = <<>>

\* A mutant: the key and the value of a node are not freed when it is set again.
ReleaseNone(old, copy) == twice' = twice /\ live' = live \cup copy

\* The flagged node gives its copy back, the new copy has been allocated before.
Release(old, copy) ==
  /\ live' = (live \cup copy) \ (IF old.flag THEN {old.copy} ELSE {})
  /\ twice' = (twice \/ (old.flag /\ old.copy \notin live))

Apply(set, key, val, copy) ==
  IF set.old.flag /\ set.old.key = NULL   \* a stray flag, and a stray pointer to free
  THEN state' = "crashed" /\ UNCHANGED <<zen, live, twice, request>>
  ELSE /\ zen' = set.zen
       /\ Release(set.old, copy)
       /\ request' = <<key, val>>
       /\ UNCHANGED state

xht_set(key, val) ==
  /\ state = "used"
  /\ \E stray \in BOOLEAN : Apply(_xht_set(zen, key, val, FALSE, 0, stray), key, val, {})

\* xht_store: a copy of an empty value is a value too.
xht_store(key, val) ==
  /\ state = "used"
  /\ Copies \ live # {}
  /\ key # <<>>
  /\ LET copy == First(Copies \ live) IN
     \E stray \in BOOLEAN : Apply(_xht_set(zen, key, val, TRUE, copy, stray), key, val, {copy})

\* xht_free: the nodes of the chains are freed with what they own, the nodes of
\* the array are freed with the array.
xht_free ==
  /\ state = "used"
  /\ state' = "freed"
  /\ live' = live \ UNION {{zen[i][n].copy : n \in {n \in 2..Len(zen[i]) : zen[i][n].flag}} : i \in DOMAIN zen}
  /\ UNCHANGED <<zen, twice, request>>

Next ==
  \/ \E key \in Keys, val \in Values \cup {NULL} : xht_set(key, val)
  \/ \E key \in Keys, val \in Values : xht_store(key, val)
  \/ xht_free

Spec == Init /\ [][Next]_vars

-----------------------------------------------------------------------------

(* The table is a map: a call changes the key it names, as it says, and no
   other one, whichever node is reused for it; also when the value is NULL, and
   when a copy replaces the caller's own memory or the other way round. *)
Map == INSTANCE KeyMap WITH map <- [k \in Keys |-> xht_get(zen, k)], NoValue <- NULL
TableIsMap == Map!Spec

(* Every copy that is allocated belongs to the one node that will free it, and
   no node frees what is gone: nothing leaks or is freed twice however copies
   and callers' memory follow each other.  When the table is freed, only nodes
   of the array leave their copies behind. *)
CopiesOwned ==
  /\ ~twice
  /\ LET all == UNION {{<<i, n>> : n \in DOMAIN zen[i]} : i \in DOMAIN zen}
         owners == {o \in all : zen[o[1]][o[2]].flag}
         copy(o) == zen[o[1]][o[2]].copy
     IN  /\ \A o, o2 \in owners : copy(o) = copy(o2) => o = o2
         /\ state # "freed" => live = {copy(o) : o \in owners}
         /\ state = "freed" => live = {copy(o) : o \in {o \in owners : o[2] = 1}}
=============================================================================
