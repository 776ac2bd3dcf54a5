------------------------------ MODULE XhtProofs ------------------------------
(***************************************************************************)
(* Proofs about Xht: the table implements the map of KeyMap, and every     *)
(* copy has one owner.  Both rest on what _xht_set does to one bucket: it  *)
(* sets a node at one place, and moves the others without losing any.      *)
(***************************************************************************)
EXTENDS Xht, Numbers, SequenceTheorems, FiniteSetTheorems

\* The strings of C without their end.
Text == Seq(1..255)

\* _xhter returns a natural number, although it is computed by a loop over the key.
LEMMA HashIsNatural ==
  ASSUME NEW key \in Text
  PROVE  Hash(key) \in Nat
<1> DEFINE L == Len(key)
<1>0. L \in Nat /\ \A i \in 1..L : key[i] \in Nat
  <2>0. key \in Seq(1..255)
    BY DEF Text
  <2>1. Len(key) \in Nat /\ key \in [1..Len(key) -> 1..255]
    <3> DEFINE S == 1..255
    <3>1. key \in Seq(S)
      BY <2>0
    <3> HIDE DEF S
    <3>2. Len(key) \in Nat /\ key \in [1..Len(key) -> S]
      BY ONLY <3>1, LenProperties
    <3>3. QED
      BY <3>2 DEF S
  <2> HIDE DEF L
  <2>2. ASSUME NEW i \in 1..Len(key) PROVE key[i] \in Nat
    <3>1. key[i] \in 1..255
      BY ONLY <2>1, i \in 1..Len(key)
    <3>2. 1..255 \subseteq Nat
      OBVIOUS
    <3>3. QED
      BY ONLY <3>1, <3>2
  <2>3. QED
    BY <2>1, <2>2 DEF L
<1> DEFINE Step(g, i) == IF i = 0 THEN 0 ELSE 16 * g[i - 1] + key[i]
           Good(g, n) == g \in [0..n -> Nat] /\ \A i \in 0..n : g[i] = Step(g, i)
           S == {n \in Nat : n <= L => \E g : Good(g, n)}
<1> HIDE DEF L
<1>1. 0 \in S
  <2>1. Good([i \in 0..0 |-> 0], 0)
    OBVIOUS
  <2> QED
    BY <2>1
<1>2. ASSUME NEW n \in S PROVE n + 1 \in S
  <2>a. CASE ~(n + 1 <= L)
    BY <2>a
  <2>b. CASE n + 1 <= L
  <3>1. n \in Nat /\ \E g : Good(g, n)
    BY <2>b, <1>0
  <3>2. PICK g : Good(g, n)
    BY <3>1
  <3> DEFINE f == [i \in 0..(n+1) |-> IF i <= n THEN g[i] ELSE 16 * g[n] + key[n+1]]
  <3>3. f \in [0..(n+1) -> Nat]
    <4>1. \A i \in 0..n : g[i] \in Nat
      BY <3>1, <3>2
    <4>2. n \in 0..n /\ n + 1 \in 1..L
      BY <1>0, <3>1, <2>b
    <4>3. g[n] \in Nat /\ key[n + 1] \in Nat
      BY <1>0, <4>1, <4>2
    <4>4. 16 * g[n] + key[n + 1] \in Nat
      BY <4>3
    <4>5. ASSUME NEW i \in 0..(n+1) PROVE (IF i <= n THEN g[i] ELSE 16 * g[n] + key[n+1]) \in Nat
      BY <3>1, <4>1, <4>4
    <4> QED BY <4>5
  <3>4. ASSUME NEW i \in 0..(n+1) PROVE f[i] = Step(f, i)
    <4>1. CASE i <= n  BY <3>1, <4>1, <3>2
    <4>2. CASE i = n + 1 BY <3>1, <4>2, <3>2
    <4> QED BY <3>1, <4>1, <4>2
  <3>5. Good(f, n + 1)
    BY <3>3, <3>4
  <3> HIDE DEF f, Good
  <3> QED BY <3>1, <3>5
  <2> QED BY <2>a, <2>b
<1>3. S = Nat
  <2> HIDE DEF S
  <2> QED BY <1>1, <1>2, InductiveSet DEF S
<1>4. PICK g : Good(g, L)
  <2>1. L \in S
    BY <1>0, <1>3
  <2> HIDE DEF Good
  <2> QED BY <1>0, <2>1
<1>5. g = [i \in 0..L |-> Step(g, i)]
  BY <1>4
<1> DEFINE h == CHOOSE f : f = [i \in 0..L |-> Step(f, i)]
<1>6. h = [i \in 0..L |-> Step(h, i)]
  BY <1>5
<1>7. Hash(key) = h[L]
  BY DEF Hash, L
<1> DEFINE T == {n \in Nat : n <= L => h[n] \in Nat}
<1> HIDE DEF h
<1>8. 0 \in T
  BY <1>6, <1>0
<1>9. ASSUME NEW n \in T PROVE n + 1 \in T
  BY <1>6, <1>0
<1>10. T = Nat
  <2> HIDE DEF T
  <2> QED BY <1>8, <1>9, InductiveSet DEF T
<1> QED BY <1>7, <1>10, <1>0

-----------------------------------------------------------------------------

Node == [flag : BOOLEAN, key : Keys \cup {NULL}, val : Values \cup {NULL}, copy : Copies \cup {0}]
Bucket == Seq(Node) \ {<<>>}
Home(key) == Hash(key) % Cardinality(DOMAIN zen)

\* xht_get within the bucket of the key.
Value(b, k) == LET at == First(Find(b, k)) IN IF at = 0 THEN NULL ELSE b[at].val

Distinct(b) == \A m, n \in DOMAIN b : b[m].key = b[n].key /\ b[m].key # NULL => m = n

\* What _xht_set does to the bucket: the place, the bucket before the assignments, and after them.
Where(b, key) == IF Place(b, key) = 0 THEN 2 ELSE Place(b, key)
Room(b, key, stray) == IF Place(b, key) = 0 THEN Grown(b, stray) ELSE b
After(b, key, stray, node) == [Room(b, key, stray) EXCEPT ![Where(b, key)] = node]

\* A key is a string, never a NULL pointer.
LEMMA KeysNotNull == NULL \notin Keys
<1>1. SUFFICES ASSUME NULL \in Keys PROVE FALSE
  OBVIOUS
<1>2. <<-1>> \in Seq(1..255)
  BY <1>1, KeysAreStrings DEF NULL
<1>3. Len(<<-1>>) = 1 /\ <<-1>>[1] = -1
  OBVIOUS
<1>4. <<-1>>[1] \in 1..255
  BY <1>2, <1>3, ElementOfSeq
<1>5. QED
  BY <1>3, <1>4

\* First finds an element of every nonempty set of places.
LEMMA FirstIsIn ==
  ASSUME NEW S \in SUBSET Nat, S # {}
  PROVE  First(S) \in S
<1>1. \E n \in S : \A o \in S : n <= o
  BY LeastNatural
<1>2. QED
  BY <1>1 DEF First

\* A bucket has at least the node of the array.
LEMMA BucketShape ==
  ASSUME NEW b \in Bucket
  PROVE  /\ Len(b) \in Nat \ {0}
         /\ DOMAIN b = 1..Len(b)
         /\ b \in [1..Len(b) -> Node]
  BY LenProperties, EmptySeq DEF Bucket

\* The node that _xht_set takes has the key, or no node has it and this one is free.
LEMMA PlaceFound ==
  ASSUME NEW b \in Bucket, NEW key
  PROVE  /\ Place(b, key) = 0 => Find(b, key) = {}
         /\ Place(b, key) # 0 =>
              /\ Place(b, key) \in DOMAIN b
              /\ b[Place(b, key)].key = key \/ (Find(b, key) = {} /\ b[Place(b, key)].val = NULL)
<1> DEFINE free == {n \in DOMAIN b : b[n].val = NULL}
           S == IF Find(b, key) # {} THEN Find(b, key) ELSE free
<1>1. S \subseteq Nat \ {0} /\ S \subseteq DOMAIN b
  BY BucketShape DEF Find
<1>2. Place(b, key) = First(S)
  BY DEF Place
<1>3. CASE S = {}
  BY <1>2, <1>3 DEF First
<1>4. CASE S # {}
  <2>1. First(S) \in S
    <3> HIDE DEF S
    <3> QED BY <1>1, <1>4, FirstIsIn
  <2>2. QED
    BY <1>1, <1>2, <2>1 DEF Find
<1>5. QED
  BY <1>3, <1>4

\* xht_get finds the node of a key: there is only one.
LEMMA ValueAt ==
  ASSUME NEW b \in Bucket, Distinct(b), NEW n \in DOMAIN b, b[n].key # NULL
  PROVE  Value(b, b[n].key) = b[n].val
<1>1. Find(b, b[n].key) = {n}
  BY DEF Find, Distinct
<1>2. n \in Nat \ {0}
  BY BucketShape
<1>3. First({n}) \in {n}
  BY <1>2, FirstIsIn
<1>4. QED
  BY <1>1, <1>2, <1>3 DEF Value

\* A key that no node has has no value.
LEMMA ValueNone ==
  ASSUME NEW b, NEW k, \A n \in DOMAIN b : b[n].key # k
  PROVE  Value(b, k) = NULL
<1>1. Find(b, k) = {}
  BY DEF Find
<1>2. QED
  BY <1>1 DEF Value, First

\* A node that is added stands behind the first; the others move up by one.
LEMMA GrownShape ==
  ASSUME NEW b \in Bucket, NEW stray \in BOOLEAN
  PROVE  /\ Grown(b, stray) \in Bucket
         /\ Len(Grown(b, stray)) = Len(b) + 1
         /\ Grown(b, stray)[2] = [Bzeroed EXCEPT !.flag = stray]
         /\ Grown(b, stray)[1] = b[1]
         /\ \A n \in 3..(Len(b) + 1) : Grown(b, stray)[n] = b[n - 1]
<1> DEFINE z == [Bzeroed EXCEPT !.flag = stray]
           front == <<b[1], z>>
           rest == SubSeq(b, 2, Len(b))
<1>1. z \in Node
  BY DEF Node, Bzeroed
<1>2. b[1] \in Node /\ Len(b) \in Nat \ {0} /\ \A i \in 2..Len(b) : b[i] \in Node
  BY BucketShape
<1>3. front \in Seq(Node) /\ Len(front) = 2 /\ front[1] = b[1] /\ front[2] = z
  <2> HIDE DEF z
  <2> QED BY <1>1, <1>2
<1>4. /\ rest \in Seq(Node)
      /\ Len(rest) = Len(b) - 1
      /\ \A i \in 1..Len(rest) : rest[i] = b[i + 1]
  <2>1. 2 \in Int /\ Len(b) \in Int
    BY <1>2
  <2>2. /\ rest \in Seq(Node)
        /\ Len(rest) = IF 2 <= Len(b) THEN Len(b) - 2 + 1 ELSE 0
        /\ \A i \in 1..(Len(b) - 2 + 1) : rest[i] = b[2 + i - 1]
    BY <1>2, <2>1, SubSeqProperties, Z3
  <2> HIDE DEF rest
  <2>3. Len(rest) = Len(b) - 1
    <3>1. Len(rest) = IF 2 <= Len(b) THEN Len(b) - 2 + 1 ELSE 0
      BY <2>2
    <3>2. Len(b) \in Nat \ {0}
      BY <1>2
    <3>3. QED
      BY <3>1, <3>2
  <2>4. ASSUME NEW i \in 1..Len(rest) PROVE rest[i] = b[i + 1]
    <3>1. i \in 1..(Len(b) - 2 + 1) /\ 2 + i - 1 = i + 1
      BY <1>2, <2>3
    <3>2. QED
      BY <2>2, <3>1
  <2>5. QED
    BY <2>2, <2>3, <2>4
<1>5. Grown(b, stray) = front \o rest
  BY DEF Grown
<1> HIDE DEF front, rest
<1>6. /\ front \o rest \in Seq(Node)
      /\ Len(front \o rest) = Len(b) + 1
      /\ \A i \in 1..(Len(b) + 1) : (front \o rest)[i] = IF i <= 2 THEN front[i] ELSE rest[i - 2]
  <2>1. front \in Seq(Node) /\ rest \in Seq(Node)
    BY <1>3, <1>4
  <2>2. /\ front \o rest \in Seq(Node)
        /\ Len(front \o rest) = Len(front) + Len(rest)
        /\ \A i \in 1..(Len(front) + Len(rest)) :
             (front \o rest)[i] = IF i <= Len(front) THEN front[i] ELSE rest[i - Len(front)]
    BY <2>1, ConcatProperties
  <2>3. Len(front) = 2 /\ Len(rest) = Len(b) - 1 /\ Len(b) \in Nat
    BY <1>2, <1>3, <1>4
  <2>4. Len(front) + Len(rest) = Len(b) + 1
    BY <2>3
  <2>5. Len(front \o rest) = Len(b) + 1
    BY ONLY <2>2, <2>4
  <2>6. ASSUME NEW i \in 1..(Len(b) + 1)
        PROVE  (front \o rest)[i] = IF i <= 2 THEN front[i] ELSE rest[i - 2]
    <3>1. i \in 1..(Len(front) + Len(rest))
      BY ONLY <2>4, i \in 1..(Len(b) + 1)
    <3>2. (front \o rest)[i] = IF i <= Len(front) THEN front[i] ELSE rest[i - Len(front)]
      BY ONLY <2>2, <3>1
    <3>3. QED
      BY ONLY <2>3, <3>2
  <2>7. QED
    BY <2>2, <2>5, <2>6
<1>7. front \o rest # <<>>
  BY <1>2, <1>6, EmptySeq
<1>8. ASSUME NEW n \in 3..(Len(b) + 1) PROVE (front \o rest)[n] = b[n - 1]
  <2>1. Len(b) \in Nat /\ n \in 1..(Len(b) + 1) /\ ~(n <= 2)
    BY <1>2
  <2>2. (front \o rest)[n] = rest[n - 2]
    BY ONLY <1>6, <2>1
  <2>3. n - 2 \in 1..(Len(b) - 1) /\ (n - 2) + 1 = n - 1
    BY ONLY <2>1, n \in 3..(Len(b) + 1)
  <2>4. QED
    BY <1>4, <2>2, <2>3
<1>9. (front \o rest)[1] = b[1] /\ (front \o rest)[2] = z
  <2>1. 1 \in 1..(Len(b) + 1) /\ 2 \in 1..(Len(b) + 1)
    BY <1>2
  <2>2. (front \o rest)[1] = front[1] /\ (front \o rest)[2] = front[2]
    BY <1>6, <2>1
  <2>3. QED
    BY <1>3, <2>2
<1>10. QED
  BY <1>5, <1>6, <1>7, <1>8, <1>9 DEF Bucket

\* The nodes of a bucket that _xht_set does not overwrite.
Kept(b, key) == IF Place(b, key) = 0 THEN DOMAIN b ELSE DOMAIN b \ {Where(b, key)}

\* prev says where each node of the bucket nb but the one that was set comes from.
Moves(b, key, nb, prev) ==
  LET rest == DOMAIN nb \ {Where(b, key)} IN
  /\ prev \in [rest -> Kept(b, key)]
  /\ \A m \in rest : nb[m] = b[prev[m]]
  /\ \A m, n \in rest : prev[m] = prev[n] => m = n
  /\ \A o \in Kept(b, key) : \E m \in rest : prev[m] = o

\* What _xht_set leaves in the bucket: the node it sets, and every other node
\* it held, each at one place, except the one that was reused.
LEMMA AfterShape ==
  ASSUME NEW b \in Bucket, NEW key, NEW stray \in BOOLEAN, NEW node \in Node
  PROVE  /\ After(b, key, stray, node) \in Bucket
         /\ Where(b, key) \in DOMAIN After(b, key, stray, node)
         /\ After(b, key, stray, node)[Where(b, key)] = node
         /\ \E prev : Moves(b, key, After(b, key, stray, node), prev)
<1> DEFINE at == Where(b, key)
           room == Room(b, key, stray)
           nb == [room EXCEPT ![at] = node]
           kept == Kept(b, key)
           rest == DOMAIN nb \ {at}
<1>1. After(b, key, stray, node) = nb
  BY DEF After
<1>2. /\ Len(b) \in Nat \ {0}
      /\ DOMAIN b = 1..Len(b)
  BY BucketShape
<1>3. CASE Place(b, key) = 0
  <2>1. at = 2 /\ room = Grown(b, stray)
    BY <1>3 DEF Where, Room
  <2>2. /\ room \in Bucket
        /\ Len(room) = Len(b) + 1
        /\ room[1] = b[1]
        /\ \A n \in 3..(Len(b) + 1) : room[n] = b[n - 1]
    <3>1. /\ Grown(b, stray) \in Bucket
          /\ Len(Grown(b, stray)) = Len(b) + 1
          /\ Grown(b, stray)[1] = b[1]
          /\ \A n \in 3..(Len(b) + 1) : Grown(b, stray)[n] = b[n - 1]
      BY GrownShape
    <3> HIDE DEF room
    <3>2. QED
      BY <2>1, <3>1
  <2>3. DOMAIN room = 1..(Len(b) + 1)
    BY <2>2, BucketShape
  <2>4. at \in DOMAIN room
    BY <1>2, <2>1, <2>3
  <2> DEFINE prev == [m \in rest |-> IF m = 1 THEN 1 ELSE m - 1]
  <2>5. rest = 1..(Len(b) + 1) \ {2} /\ kept = 1..Len(b)
    BY <1>2, <1>3, <2>1, <2>3 DEF Kept
  <2>6. \A m \in rest : nb[m] = room[m]
    BY <2>3, <2>5
  <2> HIDE DEF rest, nb, at, room, kept
  <2>7. prev \in [rest -> kept]
    BY <1>2, <2>5
  <2>8. ASSUME NEW m \in rest PROVE nb[m] = b[prev[m]]
    <3>1. CASE m = 1
      BY <2>2, <2>6, <3>1
    <3>2. CASE m # 1
      <4>1. m \in 3..(Len(b) + 1) /\ prev[m] = m - 1
        BY <1>2, <2>5, <3>2
      <4>2. room[m] = b[m - 1]
        BY <2>2, <4>1
      <4>3. QED
        BY <2>6, <4>1, <4>2
    <3>3. QED
      BY <3>1, <3>2
  <2>9. ASSUME NEW m \in rest, NEW n \in rest, prev[m] = prev[n] PROVE m = n
    <3>1. m \in Nat /\ n \in Nat /\ m # 2 /\ n # 2
      BY <1>2, <2>5
    <3>2. prev[m] = (IF m = 1 THEN 1 ELSE m - 1) /\ prev[n] = (IF n = 1 THEN 1 ELSE n - 1)
      OBVIOUS
    <3>3. QED
      BY <2>9, <3>1, <3>2
  <2>10. ASSUME NEW o \in kept PROVE \E m \in rest : prev[m] = o
    <3>1. CASE o = 1
      <4>1. 1 \in rest
        BY <1>2, <2>5
      <4>2. QED
        BY <3>1, <4>1
    <3>2. CASE o # 1
      <4>1. o + 1 \in rest /\ prev[o + 1] = o
        BY <1>2, <2>5, <3>2
      <4>2. QED
        BY <4>1
    <3>3. QED
      BY <3>1, <3>2
  <2>11. Moves(b, key, nb, prev)
    <3> HIDE DEF prev
    <3> QED BY <2>7, <2>8, <2>9, <2>10 DEF Moves, rest, at, kept
  <2>12. nb \in Bucket /\ at \in DOMAIN nb /\ nb[at] = node
    BY <2>2, <2>4, ExceptSeq, BucketShape DEF Bucket, nb
  <2>13. QED
    <3> HIDE DEF prev
    <3> QED BY <1>1, <2>11, <2>12 DEF at
<1>4. CASE Place(b, key) # 0
  <2>1. at = Place(b, key) /\ room = b /\ at \in DOMAIN b
    BY <1>4, PlaceFound DEF Where, Room
  <2> DEFINE prev == [m \in rest |-> m]
  <2>2. rest = kept /\ \A m \in rest : nb[m] = b[m]
    BY <1>4, <2>1 DEF Kept
  <2>3. nb \in Bucket /\ at \in DOMAIN nb /\ nb[at] = node
    BY <2>1, BucketShape, ExceptSeq DEF Bucket
  <2> HIDE DEF rest, nb, at, room, kept
  <2>4. Moves(b, key, nb, prev)
    BY <2>2 DEF Moves, rest, at, kept
  <2>5. QED
    <3> HIDE DEF prev
    <3> QED BY <1>1, <2>3, <2>4 DEF at
<1>5. QED
  BY <1>3, <1>4

\* A key is set in its bucket: it has the new value, and every other key the one it had.
LEMMA SetInBucket ==
  ASSUME NEW b \in Bucket, Distinct(b), NEW key \in Keys, NEW stray \in BOOLEAN,
         NEW node \in Node, node.key = key
  PROVE  LET nb == After(b, key, stray, node)
         IN  /\ nb \in Bucket
             /\ Distinct(nb)
             /\ Value(nb, key) = node.val
             /\ \A k \in Keys \ {key} : Value(nb, k) = Value(b, k)
<1> DEFINE at == Where(b, key)
           nb == After(b, key, stray, node)
           rest == DOMAIN nb \ {at}
           kept == Kept(b, key)
<1>1. /\ nb \in Bucket
      /\ at \in DOMAIN nb
      /\ nb[at] = node
  BY AfterShape
<1>2. PICK prev : Moves(b, key, nb, prev)
  BY AfterShape
<1>3. /\ prev \in [rest -> kept]
      /\ \A m \in rest : nb[m] = b[prev[m]]
      /\ \A m, n \in rest : prev[m] = prev[n] => m = n
  BY <1>2 DEF Moves
<1>4. \A o \in kept : \E m \in rest : prev[m] = o
  BY <1>2 DEF Moves
<1>5. key # NULL /\ NULL \notin Keys
  BY KeysNotNull
\* A key that is elsewhere in the bucket is not the one that is set.
<1>6. \A o \in kept : o \in DOMAIN b /\ b[o].key # key
  <2>1. \A o \in kept : o \in DOMAIN b /\ (Place(b, key) # 0 => o # at)
    BY DEF Kept
  <2>2. ASSUME NEW o \in kept, b[o].key = key PROVE FALSE
    <3>1. o \in Find(b, key)
      BY <2>1, <2>2 DEF Find
    <3>2. Place(b, key) # 0 /\ at = Place(b, key) /\ at \in DOMAIN b
      BY <3>1, PlaceFound DEF Where
    <3>3. b[at].key = key
      BY <3>1, <3>2, PlaceFound
    <3>4. at = o
      BY <1>5, <2>1, <2>2, <3>2, <3>3 DEF Distinct
    <3>5. QED
      BY <2>1, <3>2, <3>4
  <2>3. QED
    BY <2>1, <2>2
\* A node that is reused for another key had no value.
<1>7. \A o \in DOMAIN b \ kept : b[o].key = key \/ b[o].val = NULL
  BY PlaceFound DEF Where, Kept
<1> HIDE DEF nb, at, rest, kept
<1>8. ASSUME NEW m \in DOMAIN nb, NEW n \in DOMAIN nb, nb[m].key = nb[n].key, nb[m].key # NULL
      PROVE  m = n
  <2>1. CASE m = at /\ n = at
    BY <2>1
  <2>2. CASE m = at /\ n # at
    <3>1. n \in rest /\ prev[n] \in kept /\ nb[n] = b[prev[n]]
      BY <1>3, <2>2 DEF rest
    <3>2. QED
      BY <1>1, <1>6, <1>8, <2>2, <3>1
  <2>3. CASE m # at /\ n = at
    <3>1. m \in rest /\ prev[m] \in kept /\ nb[m] = b[prev[m]]
      BY <1>3, <2>3 DEF rest
    <3>2. QED
      BY <1>1, <1>6, <1>8, <2>3, <3>1
  <2>4. CASE m # at /\ n # at
    <3>1. m \in rest /\ prev[m] \in kept /\ nb[m] = b[prev[m]]
      BY <1>3, <2>4 DEF rest
    <3>2. n \in rest /\ prev[n] \in kept /\ nb[n] = b[prev[n]]
      BY <1>3, <2>4 DEF rest
    <3>3. prev[m] = prev[n]
      BY <1>6, <1>8, <3>1, <3>2 DEF Distinct
    <3>4. QED
      BY <1>3, <3>1, <3>2, <3>3
  <2>5. QED
    BY <2>1, <2>2, <2>3, <2>4
<1>9. Distinct(nb)
  BY <1>8 DEF Distinct
<1>10. Value(nb, key) = node.val
  BY <1>1, <1>5, <1>9, ValueAt
<1>11. ASSUME NEW k \in Keys \ {key} PROVE Value(nb, k) = Value(b, k)
  <2>1. CASE \E m \in rest : nb[m].key = k
    <3>1. PICK m \in rest : nb[m].key = k
      BY <2>1
    <3>2. m \in DOMAIN nb /\ prev[m] \in DOMAIN b /\ nb[m] = b[prev[m]]
      BY <1>3, <1>6, <3>1 DEF rest
    <3>3. Value(nb, k) = nb[m].val
      BY <1>1, <1>5, <1>9, <3>1, <3>2, ValueAt
    <3>4. Value(b, k) = b[prev[m]].val
      BY <1>5, <3>1, <3>2, ValueAt
    <3>5. QED
      BY <3>2, <3>3, <3>4
  <2>2. CASE \A m \in rest : nb[m].key # k
    <3>1. \A m \in DOMAIN nb : nb[m].key # k
      BY <1>1, <2>2 DEF rest
    <3>2. Value(nb, k) = NULL
      BY <3>1, ValueNone
    <3>3. CASE \A o \in DOMAIN b : b[o].key # k
      BY <3>2, <3>3, ValueNone
    <3>4. CASE \E o \in DOMAIN b : b[o].key = k
      <4>1. PICK o \in DOMAIN b : b[o].key = k
        BY <3>4
      <4>2. o \notin kept
        <5>1. SUFFICES ASSUME o \in kept PROVE FALSE
          OBVIOUS
        <5>2. PICK m \in rest : prev[m] = o
          BY <1>4, <5>1
        <5>3. nb[m] = b[o]
          BY <1>3, <5>2
        <5>4. QED
          BY <2>2, <4>1, <5>2, <5>3
      <4>3. b[o].val = NULL
        BY <1>7, <4>1, <4>2
      <4>4. Value(b, k) = b[o].val
        BY <1>5, <4>1, ValueAt
      <4>5. QED
        BY <3>2, <4>3, <4>4
    <3>5. QED
      BY <3>3, <3>4
  <2>3. QED
    BY <2>1, <2>2
<1>12. QED
  BY <1>1, <1>9, <1>10, <1>11 DEF nb

-----------------------------------------------------------------------------

\* The table is an array of buckets, and a key has one node at most.
Shape ==
  /\ zen \in [0..(Prime - 1) -> Bucket]
  /\ \A i \in DOMAIN zen : Distinct(zen[i])

\* The bucket of a key exists.
LEMMA HomeInTable ==
  ASSUME Shape, NEW key \in Keys
  PROVE  Home(key) \in DOMAIN zen
<1>1. DOMAIN zen = 0..(Prime - 1)
  BY DEF Shape
<1>2. Cardinality(0..(Prime - 1)) = Prime
  <2>1. 0 \in Int /\ Prime - 1 \in Int /\ ~(0 > Prime - 1)
    BY PrimePositive
  <2>2. Cardinality(0..(Prime - 1)) = Prime - 1 - 0 + 1
    BY <2>1, FS_Interval
  <2>3. QED
    BY <2>2, PrimePositive
<1>3. Hash(key) \in Nat
  BY HashIsNatural, KeysAreStrings DEF Text
<1>4. Hash(key) % Prime \in 0..(Prime - 1)
  BY <1>3, PrimePositive
<1>5. QED
  BY <1>1, <1>2, <1>4 DEF Home

\* xht_get and _xht_set, in terms of the bucket of the key.
LEMMA GetIsValue ==
  ASSUME NEW key
  PROVE  xht_get(zen, key) = Value(zen[Home(key)], key)
  BY DEF xht_get, Value, Home

NodeOf(key, val, flag, copy) == [flag |-> flag, key |-> key, val |-> val, copy |-> copy]

LEMMA SetIsAfter ==
  ASSUME NEW key, NEW val, NEW flag, NEW copy, NEW stray
  PROVE  LET b == zen[Home(key)] IN
         _xht_set(zen, key, val, flag, copy, stray) =
           [zen |-> [zen EXCEPT ![Home(key)] = After(b, key, stray, NodeOf(key, val, flag, copy))],
            old |-> Room(b, key, stray)[Where(b, key)]]
  BY DEF _xht_set, Home, After, Room, Where, NodeOf

LEMMA InitShape == Init => Shape
<1>1. SUFFICES ASSUME Init PROVE Shape
  OBVIOUS
<1>2. Bzeroed \in Node
  BY DEF Bzeroed, Node
<1>3. <<Bzeroed>> \in Bucket /\ DOMAIN <<Bzeroed>> = {1}
  BY <1>2 DEF Bucket
<1>4. Distinct(<<Bzeroed>>)
  BY <1>3 DEF Distinct
<1>5. zen = [i \in 0..(Prime - 1) |-> <<Bzeroed>>]
  BY <1>1 DEF Init, xht_new
<1>6. QED
  BY <1>3, <1>4, <1>5 DEF Shape

\* A call of _xht_set that ends: the table is the table with one bucket set.
LEMMA SetShape ==
  ASSUME Shape, NEW key \in Keys, NEW stray \in BOOLEAN, NEW node \in Node, node.key = key,
         zen' = [zen EXCEPT ![Home(key)] = After(zen[Home(key)], key, stray, node)]
  PROVE  /\ Shape'
         /\ [k \in Keys |-> xht_get(zen, k)]' = [[k \in Keys |-> xht_get(zen, k)] EXCEPT ![key] = node.val]
<1> DEFINE i == Home(key)
           nb == After(zen[i], key, stray, node)
<1>1. i \in DOMAIN zen /\ zen[i] \in Bucket /\ Distinct(zen[i])
  BY HomeInTable DEF Shape
<1>2. /\ nb \in Bucket
      /\ Distinct(nb)
      /\ Value(nb, key) = node.val
      /\ \A k \in Keys \ {key} : Value(nb, k) = Value(zen[i], k)
  <2> HIDE DEF i
  <2> QED BY <1>1, SetInBucket
<1>3. zen' = [zen EXCEPT ![i] = nb]
  OBVIOUS
<1> HIDE DEF i, nb
<1>4. Shape'
  BY <1>1, <1>2, <1>3 DEF Shape
<1>5. DOMAIN zen' = DOMAIN zen
  BY <1>3
<1>6. \A k : Home(k)' = Home(k)
  BY <1>5 DEF Home
<1>7. ASSUME NEW k \in Keys
      PROVE  xht_get(zen, k)' = IF k = key THEN node.val ELSE xht_get(zen, k)
  <2>1. xht_get(zen, k) = Value(zen[Home(k)], k)
    BY GetIsValue
  <2>2. xht_get(zen, k)' = Value(zen'[Home(k)], k)
    BY <1>5 DEF xht_get, Value, Home
  <2>3. Home(k) \in DOMAIN zen
    BY HomeInTable
  <2>4. zen'[Home(k)] = IF Home(k) = i THEN nb ELSE zen[Home(k)]
    BY <1>3, <2>3
  <2>5. Home(key) = i
    BY DEF i
  <2>6. QED
    BY <1>2, <2>1, <2>2, <2>4, <2>5
<1>8. QED
  BY <1>4, <1>7

\* Each action is a call of _xht_set that ends, or leaves the table alone.
Call(key, val) ==
  \E flag, stray \in BOOLEAN, copy \in Copies \cup {0} :
    /\ zen' = _xht_set(zen, key, val, flag, copy, stray).zen
    /\ request' = <<key, val>>

LEMMA CallsOrNothing ==
  ASSUME Next
  PROVE  \/ \E key \in Keys, val \in Values \cup {NULL} : Call(key, val)
         \/ UNCHANGED <<zen, request>>
<1>1. ASSUME NEW key \in Keys, NEW val \in Values \cup {NULL}, xht_set(key, val)
      PROVE  Call(key, val) \/ UNCHANGED <<zen, request>>
  <2>1. PICK stray \in BOOLEAN : Apply(_xht_set(zen, key, val, FALSE, 0, stray), key, val, {})
    BY <1>1 DEF xht_set
  <2>2. QED
    BY <2>1 DEF Apply, Call
<1>2. ASSUME NEW key \in Keys, NEW val \in Values, xht_store(key, val)
      PROVE  Call(key, val) \/ UNCHANGED <<zen, request>>
  <2> DEFINE copy == First(Copies \ live)
  <2>1. copy \in Copies
    BY <1>2, CopiesNumbered, FirstIsIn DEF xht_store
  <2>2. PICK stray \in BOOLEAN : Apply(_xht_set(zen, key, val, TRUE, copy, stray), key, val, {copy})
    BY <1>2 DEF xht_store
  <2> HIDE DEF copy
  <2>3. QED
    BY <2>1, <2>2 DEF Apply, Call
<1>3. CASE xht_free
  BY <1>3 DEF xht_free
<1>4. QED
  BY <1>1, <1>2, <1>3 DEF Next

LEMMA CallStep ==
  ASSUME Shape, NEW key \in Keys, NEW val \in Values \cup {NULL}, Call(key, val)
  PROVE  Shape' /\ Map!Set(key, val)
<1>1. PICK flag \in BOOLEAN, stray \in BOOLEAN, copy \in Copies \cup {0} :
        zen' = _xht_set(zen, key, val, flag, copy, stray).zen
  BY DEF Call
<1> DEFINE node == NodeOf(key, val, flag, copy)
<1>2. node \in Node /\ node.key = key /\ node.val = val
  BY DEF NodeOf, Node
<1>3. zen' = [zen EXCEPT ![Home(key)] = After(zen[Home(key)], key, stray, node)]
  BY <1>1, SetIsAfter
<1>4. request' = <<key, val>>
  BY DEF Call
<1> HIDE DEF node
<1>5. QED
  BY <1>2, <1>3, <1>4, SetShape DEF Map!Set

LEMMA ShapeStep == Shape /\ [Next]_vars => Shape'
<1>1. SUFFICES ASSUME Shape, [Next]_vars PROVE Shape'
  OBVIOUS
<1>2. CASE UNCHANGED <<zen, request>>
  BY <1>1, <1>2 DEF Shape
<1>3. CASE \E key \in Keys, val \in Values \cup {NULL} : Call(key, val)
  BY <1>1, <1>3, CallStep
<1>4. CASE Next
  BY <1>2, <1>3, <1>4, CallsOrNothing
<1>5. CASE UNCHANGED vars
  BY <1>2, <1>5 DEF vars
<1>6. QED
  BY <1>1, <1>4, <1>5

LEMMA ShapeAlways == Spec => []Shape
  BY InitShape, ShapeStep, PTL DEF Spec

(* The table implements the map that xht.h promises, for every set of keys and
   values and every number of buckets: a call changes the key it names and no
   other, whichever node of the bucket it reuses. *)
THEOREM ImplementsMap == Spec => TableIsMap
<1>1. Init => Map!Init
  <2>1. SUFFICES ASSUME Init PROVE Map!Init
    OBVIOUS
  <2>2. ASSUME NEW k \in Keys PROVE xht_get(zen, k) = NULL
    <3>1. Shape
      BY <2>1, InitShape
    <3>2. zen[Home(k)] = <<Bzeroed>>
      <4>1. zen = [i \in 0..(Prime - 1) |-> <<Bzeroed>>]
        BY <2>1 DEF Init, xht_new
      <4>2. Home(k) \in DOMAIN zen
        BY <3>1, HomeInTable
      <4>3. QED
        BY <4>1, <4>2
    <3>3. k # NULL
      BY KeysNotNull
    <3>4. \A n \in DOMAIN zen[Home(k)] : zen[Home(k)][n].key # k
      BY <3>2, <3>3 DEF Bzeroed
    <3>5. QED
      BY <3>4, ValueNone, GetIsValue
  <2>3. request = <<>>
    BY <2>1 DEF Init
  <2>4. QED
    BY <2>2, <2>3 DEF Map!Init
<1>2. Shape /\ [Next]_vars => [Map!Next]_<<[k \in Keys |-> xht_get(zen, k)], request>>
  <2>1. SUFFICES ASSUME Shape, [Next]_vars
                 PROVE  [Map!Next]_<<[k \in Keys |-> xht_get(zen, k)], request>>
    OBVIOUS
  <2>2. CASE UNCHANGED <<zen, request>>
    <3>1. \A k : xht_get(zen, k)' = xht_get(zen, k)
      BY <2>2 DEF xht_get
    <3>2. QED
      BY <2>2, <3>1
  <2>3. CASE \E key \in Keys, val \in Values \cup {NULL} : Call(key, val)
    BY <2>1, <2>3, CallStep DEF Map!Next
  <2>4. CASE Next
    BY <2>2, <2>3, <2>4, CallsOrNothing
  <2>5. CASE UNCHANGED vars
    BY <2>2, <2>5 DEF vars
  <2>6. QED
    BY <2>1, <2>4, <2>5
<1>3. QED
  BY <1>1, <1>2, ShapeAlways, PTL DEF Spec, TableIsMap, Map!Spec

-----------------------------------------------------------------------------

\* A node that owns copies, and its copy.
Owner(z, i, n) == i \in DOMAIN z /\ n \in DOMAIN z[i] /\ z[i][n].flag

\* Two nodes never own the same copy, and a node that owns one has a key.
Apart(z) ==
  /\ \A i, j \in DOMAIN z : \A m \in DOMAIN z[i], n \in DOMAIN z[j] :
       Owner(z, i, m) /\ Owner(z, j, n) /\ z[i][m].copy = z[j][n].copy => i = j /\ m = n
  /\ \A i \in DOMAIN z : \A n \in DOMAIN z[i] : Owner(z, i, n) => z[i][n].key # NULL

\* The copies that the nodes own, or those of the array only.
Owns(z, c, all) ==
  \E i \in DOMAIN z : \E n \in DOMAIN z[i] : Owner(z, i, n) /\ z[i][n].copy = c /\ (all \/ n = 1)

OwnInv ==
  /\ ~twice
  /\ Apart(zen)
  /\ \A c : c \in live <=> Owns(zen, c, state # "freed")

\* The table after a call of _xht_set, and the node that the call overwrites.
TableAfter(key, stray, node) ==
  [zen EXCEPT ![Home(key)] = After(zen[Home(key)], key, stray, node)]
Overwritten(key, stray) == Room(zen[Home(key)], key, stray)[Where(zen[Home(key)], key)]

\* The copies after one bucket was set: the new one, and those of the nodes kept.
LEMMA SetOwns ==
  ASSUME Shape, Apart(zen), NEW key \in Keys, NEW stray \in BOOLEAN, NEW node \in Node, node.key = key,
         node.flag => ~Owns(zen, node.copy, TRUE),
         ~(Overwritten(key, stray).flag /\ Overwritten(key, stray).key = NULL)
  PROVE  LET old == Overwritten(key, stray)
             z == TableAfter(key, stray, node)
         IN  /\ Apart(z)
             /\ old.flag => Owns(zen, old.copy, TRUE)
             /\ \A c : Owns(z, c, TRUE) <=>
                  (node.flag /\ node.copy = c) \/ (Owns(zen, c, TRUE) /\ ~(old.flag /\ old.copy = c))
<1> DEFINE old == Overwritten(key, stray)
           z == TableAfter(key, stray, node)
<1>0. /\ z = [zen EXCEPT ![Home(key)] = After(zen[Home(key)], key, stray, node)]
      /\ old = Room(zen[Home(key)], key, stray)[Where(zen[Home(key)], key)]
      /\ ~(old.flag /\ old.key = NULL)
  BY DEF TableAfter, Overwritten
<1> HIDE DEF old, z
<1> DEFINE h == Home(key)
           b == zen[h]
           at == Where(b, key)
           nb == After(b, key, stray, node)
           rest == DOMAIN nb \ {at}
           kept == Kept(b, key)
<1>1. h \in DOMAIN zen /\ b \in Bucket
  BY HomeInTable DEF Shape
<1>2. /\ nb \in Bucket
      /\ at \in DOMAIN nb
      /\ nb[at] = node
      /\ \E prev : Moves(b, key, nb, prev)
  <2> HIDE DEF b
  <2> QED BY <1>1, AfterShape
<1>3. PICK prev : Moves(b, key, nb, prev)
  BY <1>2
<1>4. /\ prev \in [rest -> kept]
      /\ \A m \in rest : nb[m] = b[prev[m]]
      /\ \A m, n \in rest : prev[m] = prev[n] => m = n
  BY <1>3 DEF Moves
<1>5. \A o \in kept : \E m \in rest : prev[m] = o
  BY <1>3 DEF Moves
<1>6. /\ DOMAIN z = DOMAIN zen
      /\ z[h] = nb
      /\ \A i \in DOMAIN zen \ {h} : z[i] = zen[i]
  BY <1>0, <1>1
<1>7. kept \subseteq DOMAIN b
  BY DEF Kept
\* The node that is overwritten: the one that is not kept, or a new one that owns nothing.
<1>8. /\ old.flag => at \in DOMAIN b \ kept /\ b[at] = old
      /\ \A o \in DOMAIN b \ kept : b[o] = old
  <2>1. CASE Place(b, key) = 0
    <3>1. old = [Bzeroed EXCEPT !.flag = stray]
      BY <1>0, <1>1, <2>1, GrownShape DEF Room, Where
    <3>2. old.key = NULL
      BY <3>1 DEF Bzeroed
    <3>3. QED
      BY <1>0, <2>1, <3>2 DEF Kept
  <2>2. CASE Place(b, key) # 0
    <3>1. at \in DOMAIN b /\ old = b[at]
      BY <1>0, <1>1, <2>2, PlaceFound DEF Room, Where
    <3>2. QED
      BY <2>2, <3>1 DEF Kept
  <2>3. QED
    BY <2>1, <2>2
<1> DEFINE src(i, n) == IF i = h THEN prev[n] ELSE n
           New(i, n) == i = h /\ n = at
<1> HIDE DEF h, b, at, nb, rest, kept
<1>9. ASSUME NEW i \in DOMAIN z, NEW n \in DOMAIN z[i], ~New(i, n)
      PROVE  /\ i \in DOMAIN zen
             /\ src(i, n) \in DOMAIN zen[i]
             /\ z[i][n] = zen[i][src(i, n)]
             /\ i = h => n \in rest /\ src(i, n) \in kept
  <2>1. CASE i = h
    <3>1. n \in rest /\ zen[i] = b /\ z[i] = nb
      BY <1>6, <1>9, <2>1 DEF rest, b
    <3>2. prev[n] \in kept /\ nb[n] = b[prev[n]]
      BY <1>4, <3>1
    <3>3. QED
      BY <1>6, <1>7, <2>1, <3>1, <3>2
  <2>2. CASE i # h
    BY <1>6, <2>2
  <2>3. QED
    BY <2>1, <2>2
<1>10. ASSUME NEW i \in DOMAIN z, NEW n \in DOMAIN z[i], Owner(z, i, n), ~New(i, n)
       PROVE  Owner(zen, i, src(i, n)) /\ Owns(zen, z[i][n].copy, TRUE)
  <2>1. Owner(zen, i, src(i, n))
    BY <1>9, <1>10 DEF Owner
  <2>2. QED
    BY <1>9, <1>10, <2>1 DEF Owns
<1>11. z[h][at] = node /\ h \in DOMAIN z /\ at \in DOMAIN z[h]
  BY <1>1, <1>2, <1>6
<1>12. ASSUME NEW i \in DOMAIN z, NEW j \in DOMAIN z, NEW m \in DOMAIN z[i], NEW n \in DOMAIN z[j],
              Owner(z, i, m), Owner(z, j, n), z[i][m].copy = z[j][n].copy
       PROVE  i = j /\ m = n
  <2>1. CASE New(i, m) /\ New(j, n)
    BY <2>1
  <2>2. CASE New(i, m) /\ ~New(j, n)
    <3>1. z[i][m] = node /\ node.flag
      BY <1>11, <1>12, <2>2 DEF Owner
    <3>2. Owns(zen, z[j][n].copy, TRUE)
      BY <1>10, <1>12, <2>2
    <3>3. z[j][n].copy = node.copy
      BY <1>12, <3>1
    <3>4. QED
      BY <3>1, <3>2, <3>3
  <2>3. CASE ~New(i, m) /\ New(j, n)
    <3>1. z[j][n] = node /\ node.flag
      BY <1>11, <1>12, <2>3 DEF Owner
    <3>2. Owns(zen, z[i][m].copy, TRUE)
      BY <1>10, <1>12, <2>3
    <3>3. z[i][m].copy = node.copy
      BY <1>12, <3>1
    <3>4. QED
      BY <3>1, <3>2, <3>3
  <2>4. CASE ~New(i, m) /\ ~New(j, n)
    <3>1. Owner(zen, i, src(i, m)) /\ Owner(zen, j, src(j, n))
      BY <1>10, <1>12, <2>4
    <3>2. zen[i][src(i, m)].copy = zen[j][src(j, n)].copy
      BY <1>9, <1>12, <2>4
    <3>3. i = j /\ src(i, m) = src(j, n)
      BY <3>1, <3>2 DEF Apart, Owner
    <3>4. CASE i = h
      <4>1. m \in rest /\ n \in rest /\ prev[m] = prev[n]
        BY <1>9, <2>4, <3>3, <3>4
      <4>2. QED
        BY <1>4, <3>3, <4>1
    <3>5. CASE i # h
      BY <3>3, <3>5
    <3>6. QED
      BY <3>4, <3>5
  <2>5. QED
    BY <2>1, <2>2, <2>3, <2>4
<1>13. ASSUME NEW i \in DOMAIN z, NEW n \in DOMAIN z[i], Owner(z, i, n)
       PROVE  z[i][n].key # NULL
  <2>1. CASE New(i, n)
    BY <1>11, <2>1, KeysNotNull
  <2>2. CASE ~New(i, n)
    BY <1>9, <1>10, <1>13, <2>2 DEF Apart, Owner
  <2>3. QED
    BY <2>1, <2>2
<1>14. Apart(z)
  <2>1. \A i, j \in DOMAIN z : \A m \in DOMAIN z[i], n \in DOMAIN z[j] :
          Owner(z, i, m) /\ Owner(z, j, n) /\ z[i][m].copy = z[j][n].copy => i = j /\ m = n
    BY <1>12
  <2>2. \A i \in DOMAIN z : \A n \in DOMAIN z[i] : Owner(z, i, n) => z[i][n].key # NULL
    BY <1>13
  <2>3. QED
    BY <2>1, <2>2 DEF Apart
<1>15. old.flag => Owner(zen, h, at) /\ zen[h][at] = old
  BY <1>1, <1>8 DEF Owner, b
<1>16. old.flag => Owns(zen, old.copy, TRUE)
  BY <1>15 DEF Owns, Owner
<1>17. ASSUME NEW c, Owns(z, c, TRUE)
       PROVE  \/ node.flag /\ node.copy = c
              \/ Owns(zen, c, TRUE) /\ ~(old.flag /\ old.copy = c)
  <2>1. PICK i \in DOMAIN z : \E n \in DOMAIN z[i] : Owner(z, i, n) /\ z[i][n].copy = c
    BY <1>17 DEF Owns
  <2>2. PICK n \in DOMAIN z[i] : Owner(z, i, n) /\ z[i][n].copy = c
    BY <2>1
  <2>3. CASE New(i, n)
    BY <1>11, <2>2, <2>3 DEF Owner
  <2>4. CASE ~New(i, n)
    <3>0. Owner(zen, i, src(i, n)) /\ Owns(zen, z[i][n].copy, TRUE)
      BY <1>10, <2>2, <2>4
    <3>1. Owner(zen, i, src(i, n)) /\ Owns(zen, c, TRUE) /\ zen[i][src(i, n)].copy = c
      BY <1>9, <2>2, <2>4, <3>0
    <3>2. ASSUME old.flag, old.copy = c PROVE FALSE
      <4>1. i = h /\ src(i, n) = at
        BY <1>15, <3>1, <3>2 DEF Apart, Owner
      <4>2. at \in kept
        BY <1>9, <2>4, <4>1
      <4>3. QED
        BY <1>8, <3>2, <4>2
    <3>3. QED
      BY <3>1, <3>2
  <2>5. QED
    BY <2>3, <2>4
<1>18. ASSUME NEW c, node.flag, node.copy = c
       PROVE  Owns(z, c, TRUE)
  <2>1. Owner(z, h, at) /\ z[h][at].copy = c
    BY <1>11, <1>18 DEF Owner
  <2>2. QED
    BY <1>11, <2>1 DEF Owns
<1>19. ASSUME NEW c, Owns(zen, c, TRUE), ~(old.flag /\ old.copy = c)
       PROVE  Owns(z, c, TRUE)
  <2>1. PICK i \in DOMAIN zen : \E n \in DOMAIN zen[i] : Owner(zen, i, n) /\ zen[i][n].copy = c
    BY <1>19 DEF Owns
  <2>2. PICK n \in DOMAIN zen[i] : Owner(zen, i, n) /\ zen[i][n].copy = c
    BY <2>1
  <2>3. CASE i = h
    <3>1. n \in kept
      BY <1>8, <1>19, <2>2, <2>3 DEF Owner, b
    <3>2. PICK m \in rest : prev[m] = n
      BY <1>5, <3>1
    <3>3. nb[m] = b[n] /\ m \in DOMAIN nb
      BY <1>4, <3>2 DEF rest
    <3>4. m \in DOMAIN z[h] /\ z[h][m] = zen[h][n]
      BY <1>6, <3>3 DEF b
    <3>5. QED
      BY <1>11, <2>2, <2>3, <3>4 DEF Owns, Owner
  <2>4. CASE i # h
    BY <1>6, <2>2, <2>4 DEF Owns, Owner
  <2>5. QED
    BY <2>3, <2>4
<1>20. QED
  BY <1>14, <1>16, <1>17, <1>18, <1>19 DEF old, z

\* A call of _xht_set, with the copies cs that were allocated for it.
LEMMA ApplyOwns ==
  ASSUME Shape, OwnInv, state = "used", NEW key \in Keys, NEW val \in Values \cup {NULL},
         NEW flag \in BOOLEAN, NEW copy \in Copies \cup {0}, NEW stray \in BOOLEAN,
         NEW cs, cs = (IF flag THEN {copy} ELSE {}), flag => copy \notin live,
         Apply(_xht_set(zen, key, val, flag, copy, stray), key, val, cs)
  PROVE  OwnInv'
<1> DEFINE node == NodeOf(key, val, flag, copy)
           z == TableAfter(key, stray, node)
           old == Overwritten(key, stray)
           set == _xht_set(zen, key, val, flag, copy, stray)
<1>1. set.zen = z /\ set.old = old
  BY SetIsAfter DEF TableAfter, Overwritten
<1>2. node \in Node /\ node.key = key /\ node.flag = flag /\ node.copy = copy
  BY DEF NodeOf, Node
<1>3. \A c : c \in live <=> Owns(zen, c, TRUE)
  BY DEF OwnInv
<1>4. CASE old.flag /\ old.key = NULL
  <2>1. state' = "crashed" /\ UNCHANGED <<zen, live, twice>>
    BY <1>1, <1>4 DEF Apply
  <2>2. QED
    BY <1>3, <2>1 DEF OwnInv, Owns
<1>5. CASE ~(old.flag /\ old.key = NULL)
  <2>1. /\ zen' = z
        /\ live' = (live \cup cs) \ (IF old.flag THEN {old.copy} ELSE {})
        /\ twice' = (twice \/ (old.flag /\ old.copy \notin live))
        /\ state' = "used"
    BY <1>1, <1>5 DEF Apply, Release
  <2>2. Apart(zen) /\ ~twice
    BY DEF OwnInv
  <2>3. node.flag => ~Owns(zen, node.copy, TRUE)
    BY <1>2, <1>3
  <2>4. /\ Apart(z)
        /\ old.flag => Owns(zen, old.copy, TRUE)
        /\ \A c : Owns(z, c, TRUE) <=>
               (node.flag /\ node.copy = c) \/ (Owns(zen, c, TRUE) /\ ~(old.flag /\ old.copy = c))
    <3> HIDE DEF node
    <3> QED BY <1>2, <1>5, <2>2, <2>3, SetOwns
  <2> HIDE DEF node, z, old, set
  <2>5. ~twice'
    BY <1>3, <2>1, <2>2, <2>4
  <2>6. ASSUME NEW c PROVE c \in live' <=> Owns(z, c, TRUE)
    <3>1. c \in cs <=> node.flag /\ node.copy = c
      BY <1>2
    <3>2. flag => ~(old.flag /\ old.copy = copy)
      BY <1>3, <2>4
    <3>3. c \in live' <=> (c \in live \/ c \in cs) /\ ~(old.flag /\ old.copy = c)
      BY <2>1
    <3>4. QED
      BY <1>2, <1>3, <2>4, <3>1, <3>2, <3>3
  <2>7. QED
    BY <2>1, <2>4, <2>5, <2>6 DEF OwnInv
<1>6. QED
  BY <1>4, <1>5

LEMMA InitOwns == Init => OwnInv
<1>1. SUFFICES ASSUME Init PROVE OwnInv
  OBVIOUS
<1>2. zen = [i \in 0..(Prime - 1) |-> <<Bzeroed>>] /\ live = {} /\ twice = FALSE
  BY <1>1 DEF Init, xht_new
<1>3. \A i, n : ~Owner(zen, i, n)
  BY <1>2 DEF Owner, Bzeroed
<1>4. QED
  BY <1>2, <1>3 DEF OwnInv, Apart, Owns

\* When the table is freed, what the nodes of the chains own is freed with it.
LEMMA FreeOwns ==
  ASSUME Shape, OwnInv, xht_free
  PROVE  OwnInv'
<1>1. state = "used" /\ state' = "freed" /\ UNCHANGED <<zen, twice>>
  BY DEF xht_free
<1>2. \A c : c \in live <=> Owns(zen, c, TRUE)
  BY <1>1 DEF OwnInv
<1> DEFINE chain(i) == {n \in 2..Len(zen[i]) : zen[i][n].flag}
<1>3. live' = live \ UNION {{zen[i][n].copy : n \in chain(i)} : i \in DOMAIN zen}
  BY DEF xht_free
<1>4. ASSUME NEW i \in DOMAIN zen
      PROVE  DOMAIN zen[i] = 1..Len(zen[i]) /\ Len(zen[i]) \in Nat \ {0}
  BY BucketShape DEF Shape
<1>5. ASSUME NEW i \in DOMAIN zen, NEW n
      PROVE  n \in chain(i) <=> Owner(zen, i, n) /\ n # 1
  BY <1>4 DEF Owner
<1> HIDE DEF chain
<1>6. ASSUME NEW c PROVE c \in live' <=> Owns(zen, c, FALSE)
  <2>1. c \in live' <=> c \in live /\ ~ \E i \in DOMAIN zen : \E n \in chain(i) : zen[i][n].copy = c
    BY <1>3
  <2>2. ASSUME c \in live' PROVE Owns(zen, c, FALSE)
    <3>1. Owns(zen, c, TRUE)
      BY <1>2, <2>1, <2>2
    <3>2. PICK i \in DOMAIN zen : \E n \in DOMAIN zen[i] : Owner(zen, i, n) /\ zen[i][n].copy = c
      BY <3>1 DEF Owns
    <3>3. PICK n \in DOMAIN zen[i] : Owner(zen, i, n) /\ zen[i][n].copy = c
      BY <3>2
    <3>4. n = 1
      BY <1>5, <2>1, <2>2, <3>3
    <3>5. QED
      BY <3>3, <3>4 DEF Owns
  <2>3. ASSUME Owns(zen, c, FALSE) PROVE c \in live'
    <3>1. PICK i \in DOMAIN zen : Owner(zen, i, 1) /\ zen[i][1].copy = c /\ 1 \in DOMAIN zen[i]
      BY <2>3 DEF Owns
    <3>2. c \in live
      BY <1>2, <3>1 DEF Owns
    <3>3. ASSUME NEW j \in DOMAIN zen, NEW n \in chain(j), zen[j][n].copy = c PROVE FALSE
      <4>1. Owner(zen, j, n) /\ n # 1
        BY <1>5
      <4>2. Apart(zen) /\ n \in DOMAIN zen[j]
        BY <4>1 DEF OwnInv, Owner
      <4>3. j = i /\ n = 1
        BY <3>1, <3>3, <4>1, <4>2 DEF Apart
      <4>4. QED
        BY <4>1, <4>3
    <3>4. QED
      BY <2>1, <3>2, <3>3
  <2>4. QED
    BY <2>2, <2>3
<1>7. QED
  BY <1>1, <1>6 DEF OwnInv

LEMMA OwnStep == Shape /\ OwnInv /\ [Next]_vars => OwnInv'
<1>1. SUFFICES ASSUME Shape, OwnInv, [Next]_vars PROVE OwnInv'
  OBVIOUS
<1>2. ASSUME NEW key \in Keys, NEW val \in Values \cup {NULL}, xht_set(key, val) PROVE OwnInv'
  <2>1. state = "used" /\ FALSE \in BOOLEAN /\ 0 \in Copies \cup {0}
    BY <1>2 DEF xht_set
  <2>2. PICK stray \in BOOLEAN : Apply(_xht_set(zen, key, val, FALSE, 0, stray), key, val, {})
    BY <1>2 DEF xht_set
  <2>3. QED
    BY <1>1, <2>1, <2>2, ApplyOwns
<1>3. ASSUME NEW key \in Keys, NEW val \in Values, xht_store(key, val) PROVE OwnInv'
  <2> DEFINE copy == First(Copies \ live)
  <2>1. copy \in Copies \ live
    BY <1>3, CopiesNumbered, FirstIsIn DEF xht_store
  <2>2. state = "used" /\ TRUE \in BOOLEAN /\ val \in Values \cup {NULL} /\ copy \in Copies \cup {0}
    BY <1>3, <2>1 DEF xht_store
  <2>3. PICK stray \in BOOLEAN : Apply(_xht_set(zen, key, val, TRUE, copy, stray), key, val, {copy})
    BY <1>3 DEF xht_store
  <2> HIDE DEF copy
  <2>4. QED
    BY <1>1, <2>1, <2>2, <2>3, ApplyOwns
<1>4. CASE xht_free
  BY <1>1, <1>4, FreeOwns
<1>5. CASE UNCHANGED vars
  BY <1>1, <1>5 DEF vars, OwnInv, Owns, Apart, Owner
<1>6. QED
  BY <1>1, <1>2, <1>3, <1>4, <1>5 DEF Next

LEMMA OwnInvOwns == OwnInv => CopiesOwned
<1>1. SUFFICES ASSUME OwnInv PROVE CopiesOwned
  OBVIOUS
<1> DEFINE all == UNION {{<<i, n>> : n \in DOMAIN zen[i]} : i \in DOMAIN zen}
           owners == {o \in all : zen[o[1]][o[2]].flag}
           copy(o) == zen[o[1]][o[2]].copy
<1>2. \A o \in all : o = <<o[1], o[2]>> /\ o[1] \in DOMAIN zen /\ o[2] \in DOMAIN zen[o[1]]
  OBVIOUS
<1>3. \A i \in DOMAIN zen : \A n \in DOMAIN zen[i] : <<i, n>> \in all
  OBVIOUS
<1> HIDE DEF all
<1>4. ASSUME NEW o \in owners, NEW o2 \in owners, copy(o) = copy(o2) PROVE o = o2
  BY <1>1, <1>2, <1>4 DEF OwnInv, Apart, Owner
<1>5. ASSUME NEW c PROVE Owns(zen, c, TRUE) <=> c \in {copy(o) : o \in owners}
  <2>1. ASSUME Owns(zen, c, TRUE) PROVE \E o \in owners : c = copy(o)
    <3>1. PICK i \in DOMAIN zen : \E n \in DOMAIN zen[i] : Owner(zen, i, n) /\ zen[i][n].copy = c
      BY <2>1 DEF Owns
    <3>2. PICK n \in DOMAIN zen[i] : Owner(zen, i, n) /\ zen[i][n].copy = c
      BY <3>1
    <3>3. <<i, n>> \in owners /\ copy(<<i, n>>) = c
      BY <1>3, <3>2 DEF Owner
    <3>4. QED
      BY <3>3
  <2>2. ASSUME NEW o \in owners, c = copy(o) PROVE Owns(zen, c, TRUE)
    BY <1>2, <2>2 DEF Owns, Owner
  <2>3. QED
    BY <2>1, <2>2
<1>6. ASSUME NEW c PROVE Owns(zen, c, FALSE) <=> c \in {copy(o) : o \in {o \in owners : o[2] = 1}}
  <2>1. ASSUME Owns(zen, c, FALSE) PROVE \E o \in owners : o[2] = 1 /\ c = copy(o)
    <3>1. PICK i \in DOMAIN zen : 1 \in DOMAIN zen[i] /\ Owner(zen, i, 1) /\ zen[i][1].copy = c
      BY <2>1 DEF Owns
    <3>2. <<i, 1>> \in owners /\ copy(<<i, 1>>) = c
      BY <1>3, <3>1 DEF Owner
    <3>3. QED
      BY <3>2
  <2>2. ASSUME NEW o \in owners, o[2] = 1, c = copy(o) PROVE Owns(zen, c, FALSE)
    BY <1>2, <2>2 DEF Owns, Owner
  <2>3. QED
    BY <2>1, <2>2
<1> HIDE DEF owners, copy
<1>7. state # "freed" => live = {copy(o) : o \in owners}
  BY <1>1, <1>5 DEF OwnInv
<1>8. state = "freed" => live = {copy(o) : o \in {o \in owners : o[2] = 1}}
  BY <1>1, <1>6 DEF OwnInv
<1>9. QED
  BY <1>1, <1>4, <1>7, <1>8 DEF CopiesOwned, OwnInv, all, owners, copy

(* No copy that xht_store made is lost or freed twice, for every set of keys and
   values and every number of buckets and copies, however xht_store and xht_set
   alternate and whatever malloc left in the flag of a new node. *)
THEOREM CopiesAreOwned == Spec => []CopiesOwned
<1>1. Spec => []OwnInv
  BY InitOwns, OwnStep, ShapeAlways, PTL DEF Spec
<1>2. QED
  BY <1>1, OwnInvOwns, PTL
=============================================================================
