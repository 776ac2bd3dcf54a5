---------------------------- MODULE XmlTreeProofs ----------------------------
(***************************************************************************)
(* Proofs about XmlTree: whatever its client calls, on however many nodes, *)
(* the lists of children and of attributes read backwards as they read     *)
(* forwards and end where the tag says, and a child is in its parent's.    *)
(*                                                                         *)
(* The property speaks of lists as they are read; the argument speaks of   *)
(* the sets of nodes they hold.  Good says that for each node there are    *)
(* two sets, its children and its attributes, each linked in both          *)
(* directions from its first to its last member (Chain); what was hidden   *)
(* or merged is in none, although it still points into one.  A sibling is  *)
(* behind its node in the heap, so a list that is read ends (SiblingsIs),  *)
(* and yields its set (ListIsLinked).                                      *)
(*                                                                         *)
(* A copy reads a tree that it also changes: it adds nodes, and merges the *)
(* chunks it reads.  That it visits anything, and ends, needs a rank that  *)
(* falls along the pointers to the next and to the first (RankedBy,        *)
(* VisitExists).  Follows says what each step of a copy leaves to the      *)
(* steps after it: the members of all lists but for some chunks, the order *)
(* of the ranks, and no node behind a chunk that was behind none.  The     *)
(* nodes that a copy still has to visit are never among those chunks,      *)
(* since it visits only the first of a run (Heads, Ready).                 *)
(***************************************************************************)
EXTENDS XmlTree, Numbers, SequenceTheorems

-----------------------------------------------------------------------------
\* Walks along a link of the heap

\* f is the walk that begins at each node: along nxt, until a node of stop.
Walks(f, L, nxt, stop) ==
  f = [k \in 0..L |-> IF k \in stop THEN <<>> ELSE <<k>> \o f[nxt[k]]]

\* A link leads to a node with a higher index, or to none.
Forward(L, nxt, stop) ==
  /\ L \in Nat /\ nxt \in [0..L -> 0..L] /\ 0 \in stop
  /\ \A k \in 1..L : nxt[k] = 0 \/ nxt[k] > k

\* A link that leads forward can be walked from every node.
LEMMA WalkExists ==
  ASSUME NEW L, NEW nxt, NEW stop, Forward(L, nxt, stop)
  PROVE  \E f : Walks(f, L, nxt, stop)
<1> DEFINE Step(f, k) == IF k \in stop THEN <<>> ELSE <<k>> \o f[nxt[k]]
           Good(f, n) == /\ DOMAIN f = 0..L /\ f = [k \in 0..L |-> f[k]]
                         /\ \A k \in 0..L : k = 0 \/ k > L - n => f[k] = Step(f, k)
           S == {n \in Nat : n <= L => \E f : Good(f, n)}
<1>0. L \in Nat
  BY DEF Forward
<1>1. 0 \in S
  <2> DEFINE f == [k \in 0..L |-> <<>>]
  <2>1. \A k \in 0..L : k = 0 \/ k > L - 0 => k = 0
    BY <1>0
  <2>2. Good(f, 0)
    BY <2>1 DEF Forward
  <2> HIDE DEF Good
  <2>3. QED BY <2>2
<1>2. ASSUME NEW n \in S PROVE n + 1 \in S
  <2>1. n \in Nat
    OBVIOUS
  <2>2. SUFFICES ASSUME n + 1 <= L PROVE \E f : Good(f, n + 1)
    BY <2>1
  <2>3. PICK f : Good(f, n)
    BY <1>0, <2>1, <2>2
  <2> DEFINE m == L - n
             e == [k \in 0..L |-> IF k = m THEN Step(f, m) ELSE f[k]]
  <2>4. m \in 1..L
    BY <1>0, <2>1, <2>2
  <2>5. \A k \in 0..L : k = 0 \/ k > L - (n + 1) => k = 0 \/ k > L - n \/ k = m
    BY <1>0, <2>1
  <2> HIDE DEF m
  <2>6. \A k \in 0..L : k = 0 \/ k > m => (k \in stop \/ nxt[k] # m)
    BY <1>0, <2>4 DEF Forward
  <2>7. nxt[m] # m /\ nxt[m] \in 0..L /\ \A k \in 0..L : nxt[k] \in 0..L
    BY <1>0, <2>4 DEF Forward
  <2>8. ASSUME NEW k \in 0..L, k = 0 \/ k > L - (n + 1) PROVE e[k] = Step(e, k)
    <3>1. CASE k = m
      BY <3>1, <2>7
    <3>2. CASE k # m
      <4>1. f[k] = Step(f, k)
        BY <2>3, <2>5, <2>8, <3>2
      <4>2. k \in stop \/ nxt[k] # m
        BY <2>5, <2>6, <2>8, <3>2 DEF m
      <4>3. QED BY <2>7, <3>2, <4>1, <4>2
    <3>3. QED BY <3>1, <3>2
  <2>9. DOMAIN e = 0..L /\ e = [k \in 0..L |-> e[k]]
    OBVIOUS
  <2> HIDE DEF e
  <2>10. Good(e, n + 1)
    BY <2>8, <2>9
  <2> HIDE DEF Good
  <2>11. QED BY <2>10
<1>3. S = Nat
  <2> HIDE DEF S
  <2> QED BY <1>1, <1>2, InductiveSet DEF S
<1>4. PICK f : Good(f, L)
  <2>1. L \in S /\ L <= L
    BY <1>0, <1>3
  <2> HIDE DEF Good
  <2> QED BY <2>1
<1>5. \A k \in 0..L : f[k] = Step(f, k)
  <2>1. \A k \in 0..L : k = 0 \/ k > L - L
    BY <1>0
  <2>2. QED BY <1>4, <2>1
<1>6. QED BY <1>4, <1>5 DEF Walks

\* A path: what a walk from k yields.
Path(s, k, L, nxt, stop) ==
  /\ s \in Seq(1..L)
  /\ k \in stop => s = <<>>
  /\ k \notin stop => /\ s # <<>> /\ s[1] = k
                      /\ nxt[s[Len(s)]] \in stop
  /\ \A i \in 1..Len(s) : s[i] \notin stop
  /\ \A i \in 1..(Len(s) - 1) : nxt[s[i]] = s[i + 1]

\* What a walk yields.
LEMMA WalkIsPath ==
  ASSUME NEW L, NEW nxt, NEW stop, Forward(L, nxt, stop),
         NEW f, Walks(f, L, nxt, stop), NEW k \in 0..L
  PROVE  Path(f[k], k, L, nxt, stop)
<1> DEFINE S == {n \in Nat : \A x \in 0..L : x = 0 \/ x > L - n => Path(f[x], x, L, nxt, stop)}
<1>0. L \in Nat /\ nxt \in [0..L -> 0..L]
  BY DEF Forward
<1>a. Path(f[0], 0, L, nxt, stop)
  <2>1. f[0] = <<>> /\ 0 \in stop
    BY <1>0 DEF Walks, Forward
  <2>2. <<>> \in Seq(1..L) /\ Len(<<>>) = 0
    OBVIOUS
  <2>3. QED BY <2>1, <2>2 DEF Path
<1>1. 0 \in S
  <2>1. \A x \in 0..L : x = 0 \/ x > L - 0 => x = 0
    BY <1>0
  <2>2. QED BY <1>a, <2>1
<1>2. ASSUME NEW n \in S PROVE n + 1 \in S
  <2>1. SUFFICES ASSUME NEW x \in 0..L, x > L - (n + 1), ~(x = 0 \/ x > L - n)
                 PROVE  Path(f[x], x, L, nxt, stop)
    BY <1>a
  <2>2. x \in 1..L
    BY <1>0, <2>1
  <2> DEFINE y == nxt[x]
             s == f[y]
  <2>3. y \in 0..L /\ (y = 0 \/ y > L - n)
    BY <1>0, <2>1, <2>2 DEF Forward
  <2>4. Path(s, y, L, nxt, stop)
    BY <2>3
  <2>5. CASE x \in stop
    <3>1. f[x] = <<>>
      BY <2>5 DEF Walks
    <3>2. <<>> \in Seq(1..L) /\ Len(<<>>) = 0
      OBVIOUS
    <3>3. QED BY <2>5, <3>1, <3>2 DEF Path
  <2>6. CASE x \notin stop
    <3>1. f[x] = <<x>> \o s
      BY <2>6 DEF Walks
    <3> HIDE DEF s
    <3>2. s \in Seq(1..L) /\ Len(s) \in Nat
      BY <2>4 DEF Path
    <3> DEFINE r == <<x>> \o s
    <3>3. <<x>> \in Seq(1..L) /\ Len(<<x>>) = 1 /\ <<x>>[1] = x
      BY <2>2
    <3>4. r \in Seq(1..L) /\ Len(r) = 1 + Len(s)
      BY <3>2, <3>3, ConcatProperties
    <3>5. \A i \in 1..(1 + Len(s)) : r[i] = IF i <= 1 THEN <<x>>[i] ELSE s[i - 1]
      BY <3>2, <3>3, ConcatProperties
    <3>6. r[1] = x /\ \A i \in 2..(1 + Len(s)) : i - 1 \in 1..Len(s) /\ r[i] = s[i - 1]
      <4>1. r[1] = x
        BY <3>2, <3>3, <3>5
      <4>2. ASSUME NEW i \in 2..(1 + Len(s)) PROVE i - 1 \in 1..Len(s) /\ r[i] = s[i - 1]
        <5>1. i \in 1..(1 + Len(s)) /\ ~(i <= 1) /\ i - 1 \in 1..Len(s)
          BY <3>2
        <5>2. QED BY <3>5, <5>1
      <4>3. QED BY <4>1, <4>2
    <3> HIDE DEF r
    <3>7. r # <<>>
      BY <3>2, <3>4, EmptySeq
    <3>8. \A i \in 1..Len(r) : r[i] \notin stop
      <4>1. ASSUME NEW i \in 1..Len(r) PROVE r[i] \notin stop
        <5>1. i = 1 \/ i \in 2..(1 + Len(s))
          BY <3>2, <3>4
        <5>2. QED BY <2>4, <2>6, <3>6, <5>1 DEF Path
      <4>2. QED BY <4>1
    <3>9. CASE y \in stop
      <4>1. s = <<>> /\ Len(s) = 0
        BY <2>4, <3>9 DEF Path
      <4>2. Len(r) = 1
        BY <3>4, <4>1
      <4>3. nxt[r[Len(r)]] \in stop
        BY <3>6, <3>9, <4>2
      <4>4. \A i \in 1..(Len(r) - 1) : nxt[r[i]] = r[i + 1]
        BY <4>2
      <4>5. QED BY <2>6, <3>1, <3>4, <3>6, <3>7, <3>8, <4>3, <4>4 DEF Path, r
    <3>10. CASE y \notin stop
      <4>1. s # <<>> /\ s[1] = y /\ nxt[s[Len(s)]] \in stop
        BY <2>4, <3>10 DEF Path
      <4>2. Len(s) \in Nat \ {0}
        BY <3>2, <4>1, EmptySeq
      <4>3. r[Len(r)] = s[Len(s)]
        <5>1. Len(r) \in 2..(1 + Len(s)) /\ Len(r) - 1 = Len(s)
          BY <3>4, <4>2
        <5>2. QED BY <3>6, <5>1
      <4>4. ASSUME NEW i \in 1..(Len(r) - 1) PROVE nxt[r[i]] = r[i + 1]
        <5>1. CASE i = 1
          <6>1. 2 \in 2..(1 + Len(s)) /\ 2 - 1 = 1
            BY <4>2
          <6>2. r[2] = s[1]
            BY <3>6, <6>1
          <6>3. QED BY <3>6, <4>1, <5>1, <6>2
        <5>2. CASE i # 1
          <6>1. i \in 2..(1 + Len(s)) /\ i + 1 \in 2..(1 + Len(s))
            BY <3>2, <3>4, <5>2
          <6>2. i - 1 \in 1..(Len(s) - 1) /\ (i + 1) - 1 = (i - 1) + 1
            BY <3>2, <3>4, <5>2
          <6>3. nxt[s[i - 1]] = s[(i - 1) + 1]
            BY <2>4, <6>2 DEF Path
          <6>4. r[i] = s[i - 1] /\ r[i + 1] = s[(i + 1) - 1]
            BY <3>6, <6>1
          <6>5. QED BY <6>2, <6>3, <6>4
        <5>3. QED BY <5>1, <5>2
      <4>5. QED BY <2>6, <3>1, <3>4, <3>6, <3>7, <3>8, <4>1, <4>3, <4>4 DEF Path, r
    <3>11. QED BY <3>9, <3>10
  <2>7. QED BY <2>5, <2>6
<1>3. S = Nat
  <2> HIDE DEF S
  <2> QED BY <1>1, <1>2, InductiveSet DEF S
<1>4. k = 0 \/ k > L - L
  BY <1>0
<1>5. L \in S
  <2> HIDE DEF S
  <2> QED BY <1>0, <1>3
<1>6. QED BY <1>4, <1>5

-----------------------------------------------------------------------------
\* Nodes and their fields

Fields == {"type", "name", "data", "parent", "first", "last", "next", "prev", "fatt", "latt",
           "complete"}
IsNode(r) == DOMAIN r = Fields /\ r = [f \in Fields |-> r[f]]

\* A sequence of nodes, whatever names and data they hold.
IsHeap(h) == (\E S : h \in Seq(S)) /\ \A x \in 1..Len(h) : IsNode(h[x])

\* A heap has a length.
LEMMA HeapLength ==
  ASSUME NEW h, IsHeap(h)
  PROVE  Len(h) \in Nat /\ DOMAIN h = 1..Len(h)
<1>1. PICK S : h \in Seq(S)
  BY DEF IsHeap
<1>2. QED BY <1>1, LenProperties

\* An assignment to the field f of the node a.
SetTo(h, a, f, v) == [h EXCEPT ![a] = [h[a] EXCEPT ![f] = v]]

\* h2 is h with the field f of the node a set to v.
Put(h, h2, a, f, v) ==
  /\ IsHeap(h2) /\ Len(h2) = Len(h)
  /\ h2[a][f] = v
  /\ \A x \in 1..Len(h), g \in Fields : x # a \/ g # f => h2[x][g] = h[x][g]

\* An assignment changes one field of one node.
LEMMA PutIs ==
  ASSUME NEW h, IsHeap(h), NEW a \in 1..Len(h), NEW f \in Fields, NEW v
  PROVE  Put(h, SetTo(h, a, f, v), a, f, v)
<1> DEFINE r == [h[a] EXCEPT ![f] = v]
           h2 == [h EXCEPT ![a] = r]
<1>1. PICK S : h \in Seq(S)
  BY DEF IsHeap
<1>2. IsNode(h[a])
  BY DEF IsHeap
<1>3. IsNode(r) /\ r[f] = v /\ \A g \in Fields : g # f => r[g] = h[a][g]
  BY <1>2 DEF IsNode
<1> HIDE DEF r
<1>4. h \in Seq(S \cup {r}) /\ r \in S \cup {r}
  BY <1>1, SeqMonotonic
<1>5. h2 \in Seq(S \cup {r}) /\ Len(h2) = Len(h)
      /\ \A j \in 1..Len(h) : h2[j] = IF j = a THEN r ELSE h[j]
  BY <1>4, ExceptSeq
<1> HIDE DEF h2
<1>6. IsHeap(h2)
  BY <1>3, <1>5 DEF IsHeap
<1>7. h2[a][f] = v
  BY <1>3, <1>5
<1>8. ASSUME NEW x \in 1..Len(h), NEW g \in Fields, x # a \/ g # f PROVE h2[x][g] = h[x][g]
  <2>1. CASE x # a
    BY <1>5, <2>1
  <2>2. CASE x = a
    BY <1>3, <1>5, <1>8, <2>2
  <2>3. QED BY <2>1, <2>2
<1>9. Put(h, h2, a, f, v)
  BY <1>5, <1>6, <1>7, <1>8 DEF Put
<1>10. QED BY <1>9 DEF h2, r, SetTo

\* h2 is h with the node r behind it.
Grows(h, h2, r) ==
  /\ IsHeap(h2) /\ Len(h2) = Len(h) + 1
  /\ h2[Len(h) + 1] = r
  /\ \A x \in 1..Len(h) : h2[x] = h[x]

\* Append adds one node.
LEMMA GrowsIs ==
  ASSUME NEW h, IsHeap(h), NEW r, IsNode(r)
  PROVE  Grows(h, Append(h, r), r)
<1> DEFINE h2 == Append(h, r)
<1>1. PICK S : h \in Seq(S)
  BY DEF IsHeap
<1>2. h \in Seq(S \cup {r}) /\ r \in S \cup {r}
  BY <1>1, SeqMonotonic
<1>3. /\ h2 \in Seq(S \cup {r}) /\ Len(h2) = Len(h) + 1
      /\ \A i \in 1..Len(h) : h2[i] = h[i]
      /\ h2[Len(h) + 1] = r
  BY <1>2, AppendProperties
<1> HIDE DEF h2
<1>4. Len(h) \in Nat
  BY HeapLength
<1>5. IsHeap(h2)
  BY <1>3, <1>4 DEF IsHeap
<1>6. QED BY <1>3, <1>5 DEF Grows, h2

\* A new node points nowhere.
LEMMA NodeIs ==
  ASSUME NEW type, NEW name
  PROVE  LET r == Node(type, name) IN
         /\ IsNode(r) /\ r.type = type /\ r.parent = NULL /\ r.first = NULL /\ r.last = NULL
         /\ r.next = NULL /\ r.prev = NULL /\ r.fatt = NULL /\ r.latt = NULL
  BY DEF Node, IsNode, Fields

\* _xmlnode_new and _xmlnode_append_sibling.
LEMMA NewIs ==
  ASSUME NEW h, IsHeap(h), NEW name, NEW type
  PROVE  Grows(h, new(h, name, type), Node(type, name))
  BY NodeIs, GrowsIs DEF new

\* _xmlnode_append_sibling: a new node, and then a pointer to it.
LEMMA AppendSiblingIs ==
  ASSUME NEW h, IsHeap(h), NEW last \in 1..Len(h), NEW name, NEW type
  PROVE  \E g, r : /\ IsNode(r) /\ r.type = type /\ r.parent = NULL /\ r.first = NULL
                   /\ r.last = NULL /\ r.next = NULL /\ r.prev = last /\ r.fatt = NULL
                   /\ r.latt = NULL
                   /\ Grows(h, g, r)
                   /\ Put(g, append_sibling(h, last, name, type), last, "next", Len(h) + 1)
<1> DEFINE r == [Node(type, name) EXCEPT !.prev = last]
           g == Append(h, r)
<1>1. IsNode(r) /\ r.type = type /\ r.parent = NULL /\ r.first = NULL
      /\ r.last = NULL /\ r.next = NULL /\ r.prev = last /\ r.fatt = NULL /\ r.latt = NULL
  BY DEF Node, IsNode, Fields
<1> HIDE DEF r
<1>2. Grows(h, g, r)
  BY <1>1, GrowsIs
<1>3. append_sibling(h, last, name, type) = SetTo(g, last, "next", Len(h) + 1)
  <2>1. append_sibling(h, last, name, type) = [g EXCEPT ![last].next = Len(h) + 1]
    BY DEF append_sibling, r
  <2> HIDE DEF g
  <2>2. [g EXCEPT ![last].next = Len(h) + 1]
          = [g EXCEPT ![last] = [g[last] EXCEPT !["next"] = Len(h) + 1]]
    OBVIOUS
  <2>3. QED BY <2>1, <2>2 DEF SetTo
<1> HIDE DEF g
<1>4. IsHeap(g) /\ last \in 1..Len(g)
  BY <1>2, HeapLength DEF Grows
<1>5. "next" \in Fields
  BY DEF Fields
<1>6. Put(g, append_sibling(h, last, name, type), last, "next", Len(h) + 1)
  BY <1>3, <1>4, <1>5, PutIs
<1>7. QED BY <1>1, <1>2, <1>6

-----------------------------------------------------------------------------
\* Lists

\* The nodes M are linked in both directions, from f to l.
Chain(h, M, f, l) ==
  /\ f = NULL <=> l = NULL
  /\ f # NULL => f \in M /\ h[f].prev = NULL
  /\ l # NULL => l \in M /\ h[l].next = NULL
  /\ \A x \in M : IF h[x].next = NULL THEN x = l
                  ELSE h[x].next \in M /\ h[h[x].next].prev = x
  /\ \A x \in M : IF h[x].prev = NULL THEN x = f
                  ELSE h[x].prev \in M /\ h[h[x].prev].next = x

\* A list whose links stay is the same list.
LEMMA ChainFrame ==
  ASSUME NEW h, NEW h2, NEW M, NEW f, NEW l, Chain(h, M, f, l),
         \A x \in M : h2[x].next = h[x].next /\ h2[x].prev = h[x].prev
  PROVE  Chain(h2, M, f, l)
  BY DEF Chain

\* A node goes behind the last one.
LinkedBehind(h, h2, M, f, l, n) ==
  /\ \A x \in M : /\ h2[x].next = IF f # NULL /\ x = l THEN n ELSE h[x].next
                  /\ h2[x].prev = h[x].prev
  /\ h2[n].next = NULL
  /\ h2[n].prev = IF f = NULL THEN NULL ELSE l

\* Behind the last node goes one more.
LEMMA ChainAppend ==
  ASSUME NEW h, NEW h2, NEW M, NULL \notin M, NEW f, NEW l, Chain(h, M, f, l),
         NEW n, n \notin M, n # NULL, LinkedBehind(h, h2, M, f, l, n)
  PROVE  Chain(h2, M \cup {n}, IF f = NULL THEN n ELSE f, n)
<1> DEFINE D == M \cup {n}
<1>0. /\ \A x \in M : /\ h2[x].next = IF f # NULL /\ x = l THEN n ELSE h[x].next
                      /\ h2[x].prev = h[x].prev
      /\ h2[n].next = NULL
      /\ h2[n].prev = IF f = NULL THEN NULL ELSE l
  BY DEF LinkedBehind
<1> USE <1>0
<1>1. \A x \in M : x # n /\ x # NULL
  OBVIOUS
<1>2. CASE f = NULL
  <2>1. l = NULL /\ \A x \in M : h2[x].next = h[x].next /\ h2[x].prev = h[x].prev
    BY <1>2 DEF Chain
  <2>2. \A x \in M : h[x].next # NULL /\ h[x].prev # NULL
    BY <1>1, <1>2, <2>1 DEF Chain
  <2>3. ASSUME NEW x \in D
        PROVE  /\ IF h2[x].next = NULL THEN x = n ELSE h2[x].next \in D /\ h2[h2[x].next].prev = x
               /\ IF h2[x].prev = NULL THEN x = n ELSE h2[x].prev \in D /\ h2[h2[x].prev].next = x
    <3>1. CASE x = n
      BY <1>2, <3>1
    <3>2. CASE x \in M
      BY <2>1, <2>2, <3>2 DEF Chain
    <3>3. QED BY <3>1, <3>2
  <2>4. QED BY <1>2, <2>3 DEF Chain
<1>3. CASE f # NULL
  <2>1. l \in M /\ h[l].next = NULL /\ f \in M /\ h[f].prev = NULL
    BY <1>3 DEF Chain
  <2>2. h2[l].next = n /\ h2[n].prev = l /\ h2[f].prev = NULL
    BY <1>3, <2>1
  <2>3. ASSUME NEW x \in M
        PROVE  /\ IF h2[x].next = NULL THEN x = n ELSE h2[x].next \in D /\ h2[h2[x].next].prev = x
               /\ IF h2[x].prev = NULL THEN x = f ELSE h2[x].prev \in D /\ h2[h2[x].prev].next = x
    <3>1. IF h2[x].next = NULL THEN x = n ELSE h2[x].next \in D /\ h2[h2[x].next].prev = x
      <4>1. CASE x = l
        BY <2>2, <4>1
      <4>2. CASE x # l
        BY <4>2 DEF Chain
      <4>3. QED BY <4>1, <4>2
    <3>2. CASE h[x].prev = NULL
      BY <3>1, <3>2 DEF Chain
    <3>3. CASE h[x].prev # NULL
      <4>1. h[x].prev \in M /\ h[h[x].prev].next = x /\ x # NULL
        BY <3>3 DEF Chain
      <4>2. h[x].prev # l
        BY <2>1, <4>1
      <4>3. h2[x].prev = h[x].prev /\ h2[h[x].prev].next = x
        BY <4>1, <4>2
      <4>4. QED BY <3>1, <3>3, <4>1, <4>3
    <3>4. QED BY <3>2, <3>3
  <2>4. /\ IF h2[n].next = NULL THEN n = n ELSE h2[n].next \in D /\ h2[h2[n].next].prev = n
        /\ IF h2[n].prev = NULL THEN n = f ELSE h2[n].prev \in D /\ h2[h2[n].prev].next = n
    BY <1>1, <2>1, <2>2
  <2>5. QED BY <1>3, <2>1, <2>2, <2>3, <2>4 DEF Chain
<1>4. QED BY <1>2, <1>3

\* A node leaves its list.
Unlinked(h, h2, M, x) ==
  \A y \in M : /\ h2[y].next = IF y = h[x].prev THEN h[x].next ELSE h[y].next
               /\ h2[y].prev = IF y = h[x].next THEN h[x].prev ELSE h[y].prev

\* A node that its neighbours link past is out of the list, wherever it was.
LEMMA ChainRemove ==
  ASSUME NEW h, NEW h2, NEW M, NULL \notin M, NEW f, NEW l, Chain(h, M, f, l),
         NEW x \in M, h[x].next # x, h[x].prev # x, Unlinked(h, h2, M, x)
  PROVE  Chain(h2, M \ {x}, IF f = x THEN h[x].next ELSE f, IF l = x THEN h[x].prev ELSE l)
<1> DEFINE D == M \ {x}
           f2 == IF f = x THEN h[x].next ELSE f
           l2 == IF l = x THEN h[x].prev ELSE l
<1>0. \A y \in M : /\ h2[y].next = IF y = h[x].prev THEN h[x].next ELSE h[y].next
                   /\ h2[y].prev = IF y = h[x].next THEN h[x].prev ELSE h[y].prev
  BY DEF Unlinked
<1> USE <1>0
<1>1. ASSUME NEW y \in D
      PROVE  IF h2[y].next = NULL THEN y = l2 ELSE h2[y].next \in D /\ h2[h2[y].next].prev = y
  <2>1. CASE y = h[x].prev
    BY <2>1 DEF Chain
  <2>2. CASE y # h[x].prev
    BY <2>2 DEF Chain
  <2>3. QED BY <2>1, <2>2
<1>2. ASSUME NEW y \in D
      PROVE  IF h2[y].prev = NULL THEN y = f2 ELSE h2[y].prev \in D /\ h2[h2[y].prev].next = y
  <2>1. CASE y = h[x].next
    BY <2>1 DEF Chain
  <2>2. CASE y # h[x].next
    BY <2>2 DEF Chain
  <2>3. QED BY <2>1, <2>2
<1>3. f2 # NULL => f2 \in D /\ h2[f2].prev = NULL
  BY DEF Chain
<1>4. l2 # NULL => l2 \in D /\ h2[l2].next = NULL
  BY DEF Chain
<1>5. f2 = NULL <=> l2 = NULL
  BY DEF Chain
<1> HIDE DEF f2, l2, D
<1>6. Chain(h2, D, f2, l2)
  BY <1>1, <1>2, <1>3, <1>4, <1>5 DEF Chain
<1>7. QED BY <1>6 DEF D, f2, l2

\* The nodes D behind x leave the list: they end before cur.
Merged(h, h2, M, x, D, cur) ==
  /\ x \notin D /\ cur \notin D \cup {x}
  /\ \A d \in D : h[d].prev \in D \cup {x}
  /\ \A d \in D \cup {x} : h[d].next \in D \cup {cur}
  /\ \E e \in D \cup {x} : h[e].next = cur
  /\ \A y \in M : /\ h2[y].next = IF y = x THEN cur ELSE h[y].next
                  /\ h2[y].prev = IF y = cur THEN x ELSE h[y].prev

\* The nodes D behind x are out of the list when x links past them.
LEMMA ChainMerge ==
  ASSUME NEW h, NEW h2, NEW M, NULL \notin M, NEW f, NEW l, Chain(h, M, f, l),
         NEW x \in M, NEW D \in SUBSET M, NEW cur, Merged(h, h2, M, x, D, cur)
  PROVE  Chain(h2, M \ D, f, IF cur = NULL THEN x ELSE l)
<1> DEFINE E == M \ D
           l2 == IF cur = NULL THEN x ELSE l
<1>a. /\ x \notin D /\ cur \notin D \cup {x}
      /\ \A d \in D : h[d].prev \in D \cup {x}
      /\ \A d \in D \cup {x} : h[d].next \in D \cup {cur}
      /\ \A y \in M : /\ h2[y].next = IF y = x THEN cur ELSE h[y].next
                      /\ h2[y].prev = IF y = cur THEN x ELSE h[y].prev
  BY DEF Merged
<1>b. PICK e \in D \cup {x} : h[e].next = cur
  BY DEF Merged
<1> USE <1>a, <1>b
<1>0. cur # NULL => cur \in M /\ h[cur].prev = e
  BY DEF Chain
<1>1. ASSUME NEW y \in E
      PROVE  IF h2[y].next = NULL THEN y = l2 ELSE h2[y].next \in E /\ h2[h2[y].next].prev = y
  <2>1. CASE y = x
    BY <1>0, <2>1
  <2>2. CASE y # x
    <3>1. h2[y].next = h[y].next
      BY <2>2
    <3>2. CASE h[y].next = NULL
      <4>1. y = l
        BY <3>2 DEF Chain
      <4>2. cur # NULL
        BY <2>2, <3>2, <4>1 DEF Chain
      <4>3. QED BY <3>1, <3>2, <4>1, <4>2
    <3>3. CASE h[y].next # NULL
      <4>1. h[y].next \in M /\ h[h[y].next].prev = y
        BY <3>3 DEF Chain
      <4>2. h[y].next \notin D /\ h[y].next # cur
        BY <1>0, <2>2, <3>3, <4>1
      <4>3. QED BY <3>1, <3>3, <4>1, <4>2
    <3>4. QED BY <3>2, <3>3
  <2>3. QED BY <2>1, <2>2
<1>2. ASSUME NEW y \in E
      PROVE  IF h2[y].prev = NULL THEN y = f ELSE h2[y].prev \in E /\ h2[h2[y].prev].next = y
  <2>1. CASE y = cur
    BY <2>1
  <2>2. CASE y # cur
    <3>1. h2[y].prev = h[y].prev
      BY <2>2
    <3>2. CASE h[y].prev = NULL
      BY <3>1, <3>2 DEF Chain
    <3>3. CASE h[y].prev # NULL
      <4>1. h[y].prev \in M /\ h[h[y].prev].next = y
        BY <3>3 DEF Chain
      <4>2. h[y].prev \notin D /\ h[y].prev # x
        BY <2>2, <4>1
      <4>3. QED BY <3>1, <3>3, <4>1, <4>2
    <3>4. QED BY <3>2, <3>3
  <2>3. QED BY <2>1, <2>2
<1>3. f # NULL => f \in E /\ h2[f].prev = NULL
  <2>1. SUFFICES ASSUME f # NULL PROVE f \in E /\ h2[f].prev = NULL
    OBVIOUS
  <2>2. f \in M /\ h[f].prev = NULL
    BY <2>1 DEF Chain
  <2>3. f \notin D
    BY <2>2
  <2>4. f # cur
    BY <1>0, <2>1, <2>2
  <2>5. QED BY <2>2, <2>3, <2>4
<1>4. l2 # NULL => l2 \in E /\ h2[l2].next = NULL
  <2>1. CASE cur = NULL
    BY <2>1
  <2>2. CASE cur # NULL
    BY <2>2 DEF Chain
  <2>3. QED BY <2>1, <2>2
<1>5. f = NULL <=> l2 = NULL
  <2>1. CASE cur = NULL
    BY <2>1 DEF Chain
  <2>2. CASE cur # NULL
    BY <2>2 DEF Chain
  <2>3. QED BY <2>1, <2>2
<1> HIDE DEF l2, E
<1>6. Chain(h2, E, f, l2)
  BY <1>1, <1>2, <1>3, <1>4, <1>5 DEF Chain
<1>7. QED BY <1>6 DEF E, l2

-----------------------------------------------------------------------------
\* The invariant of the heap

Types == {"TAG", "ATTRIB", "CDATA"}

\* Every pointer is one, and a sibling has a higher index.
Shape(h) ==
  /\ IsHeap(h)
  /\ \A x \in 1..Len(h) :
       /\ h[x].type \in Types
       /\ h[x].first \in 0..Len(h) /\ h[x].last \in 0..Len(h)
       /\ h[x].fatt \in 0..Len(h) /\ h[x].latt \in 0..Len(h)
       /\ h[x].next \in 0..Len(h) /\ h[x].prev \in 0..Len(h) /\ h[x].parent \in 0..Len(h)
       /\ h[x].next = NULL \/ h[x].next > x

\* kids and atts say which nodes are in the lists of each node.  What was hidden
\* or merged is in none, although it still points into one.
Good(h, kids, atts) ==
  /\ Shape(h)
  /\ kids \in [1..Len(h) -> SUBSET (1..Len(h))] /\ atts \in [1..Len(h) -> SUBSET (1..Len(h))]
  /\ \A t \in 1..Len(h) : /\ Chain(h, kids[t], h[t].first, h[t].last)
                          /\ Chain(h, atts[t], h[t].fatt, h[t].latt)
                          /\ \A x \in kids[t] : h[x].parent = t /\ h[x].type # "ATTRIB"
                          /\ \A x \in atts[t] : h[x].type = "ATTRIB"
  /\ \A t, u \in 1..Len(h) : t # u => atts[t] \cap atts[u] = {}
  /\ \A x \in 1..Len(h) : h[x].parent = NULL /\ h[x].type # "ATTRIB" =>
                            h[x].next = NULL /\ h[x].prev = NULL

\* r falls along every pointer that leads on or down.
RankedBy(h, r) ==
  /\ r \in [1..Len(h) -> Nat]
  /\ \A x \in 1..Len(h) : /\ h[x].next # NULL => r[h[x].next] < r[x]
                          /\ h[x].first # NULL => r[h[x].first] < r[x]
                          /\ h[x].fatt # NULL => r[h[x].fatt] < r[x]

Kept(h2) == \E kids, atts, r : Good(h2, kids, atts) /\ RankedBy(h2, r)

TreeInv == Kept(heap)

\* The lists of h2 hold what they held, but for the nodes gone.
ListsKept(h, kids, h2, gone) ==
  \E kids2, atts2 : /\ Good(h2, kids2, atts2)
                    /\ \A t \in 1..Len(h) : kids[t] \ gone \subseteq kids2[t]

\* The nodes have a rank in h2, and in the same order.
RankKept(h, r, h2) ==
  \E r2 : RankedBy(h2, r2) /\ \A x, y \in 1..Len(h) : r[x] <= r[y] => r2[x] <= r2[y]

\* Lists and ranks together.
LEMMA KeptBoth ==
  ASSUME NEW h, NEW kids, NEW r, NEW h2, NEW gone, ListsKept(h, kids, h2, gone), RankKept(h, r, h2)
  PROVE  Kept(h2)
  BY DEF ListsKept, RankKept, Kept

\* A step that only lets pointers lead further down keeps the ranks.
LEMMA RankStays ==
  ASSUME NEW h, NEW r, RankedBy(h, r), NEW h2, Len(h2) = Len(h),
         \A x \in 1..Len(h) : /\ h2[x].next # NULL => r[h2[x].next] < r[x]
                              /\ h2[x].first # NULL => r[h2[x].first] < r[x]
                              /\ h2[x].fatt # NULL => r[h2[x].fatt] < r[x]
  PROVE  RankKept(h, r, h2)
<1>1. RankedBy(h2, r)
  BY DEF RankedBy
<1>2. QED BY <1>1 DEF RankKept

\* A new node, that points nowhere, ranks below all others.
LEMMA RankGrows ==
  ASSUME NEW h, Shape(h), NEW r, RankedBy(h, r), NEW h2, NEW n, n = Len(h) + 1, Len(h2) = n,
         h2[n].next = NULL, h2[n].first = NULL, h2[n].fatt = NULL,
         \A x \in 1..Len(h) : /\ h2[x].next = h[x].next \/ h2[x].next = n
                              /\ h2[x].first = h[x].first \/ h2[x].first = n
                              /\ h2[x].fatt = h[x].fatt \/ h2[x].fatt = n
  PROVE  RankKept(h, r, h2)
<1> DEFINE r2 == [x \in 1..n |-> IF x = n THEN 0 ELSE r[x] + 1]
<1>0. Len(h) \in Nat /\ n \notin 1..Len(h) /\ n \in 1..n /\ 1..n = 1..Len(h) \cup {n} /\ n # NULL
      /\ \A v \in 0..Len(h) : v # NULL => v \in 1..Len(h)
  <2>1. Len(h) \in Nat
    BY HeapLength DEF Shape
  <2>2. QED BY ONLY <2>1, n = Len(h) + 1 DEF NULL
<1>1. \A x \in 1..Len(h) : r[x] \in Nat
  BY DEF RankedBy
<1>2. r2 \in [1..n -> Nat]
  BY <1>0, <1>1
<1>3. r2[n] = 0 /\ \A x \in 1..Len(h) : r2[x] = r[x] + 1
  BY <1>0
<1> HIDE DEF r2
<1>4. ASSUME NEW x \in 1..Len(h), NEW u \in 0..Len(h), u # NULL => r[u] < r[x],
             NEW v, v = u \/ v = n
      PROVE  v # NULL => r2[v] < r2[x]
  <2>1. r2[x] = r[x] + 1 /\ r[x] \in Nat
    BY <1>1, <1>3
  <2>2. CASE v = n
    BY <1>3, <2>1, <2>2
  <2>3. CASE v = u /\ v # NULL
    <3>1. u \in 1..Len(h) /\ r[u] < r[x]
      BY <1>0, <1>4, <2>3
    <3>2. r2[u] = r[u] + 1 /\ r[u] \in Nat
      BY <1>1, <1>3, <3>1
    <3>3. QED BY <2>1, <2>3, <3>1, <3>2
  <2>4. QED BY <1>4, <2>2, <2>3
<1>5. ASSUME NEW x \in 1..Len(h)
      PROVE  /\ h2[x].next # NULL => r2[h2[x].next] < r2[x]
             /\ h2[x].first # NULL => r2[h2[x].first] < r2[x]
             /\ h2[x].fatt # NULL => r2[h2[x].fatt] < r2[x]
  <2>1. h[x].next \in 0..Len(h) /\ h[x].first \in 0..Len(h) /\ h[x].fatt \in 0..Len(h)
    BY DEF Shape
  <2>2. h2[x].next # NULL => r2[h2[x].next] < r2[x]
    BY <1>4, <2>1 DEF RankedBy
  <2>3. h2[x].first # NULL => r2[h2[x].first] < r2[x]
    BY <1>4, <2>1 DEF RankedBy
  <2>4. h2[x].fatt # NULL => r2[h2[x].fatt] < r2[x]
    BY <1>4, <2>1 DEF RankedBy
  <2>5. QED BY <2>2, <2>3, <2>4
<1>6. RankedBy(h2, r2)
  <2>1. Len(h2) = n
    OBVIOUS
  <2>2. \A x \in 1..n : /\ h2[x].next # NULL => r2[h2[x].next] < r2[x]
                        /\ h2[x].first # NULL => r2[h2[x].first] < r2[x]
                        /\ h2[x].fatt # NULL => r2[h2[x].fatt] < r2[x]
    BY <1>0, <1>5
  <2>3. QED BY ONLY <1>2, <2>1, <2>2 DEF RankedBy
<1>7. ASSUME NEW x \in 1..Len(h), NEW y \in 1..Len(h), r[x] <= r[y] PROVE r2[x] <= r2[y]
  BY <1>1, <1>3, <1>7
<1>8. QED BY <1>6, <1>7 DEF RankKept

\* What a call that copies relies on: but for the nodes gone every node is where it
\* was, and none is behind character data that was not behind any.
Follows(h, kids, r, h2, gone) ==
  /\ ListsKept(h, kids, h2, gone) /\ RankKept(h, r, h2)
  /\ Len(h) <= Len(h2)
  /\ \A x \in 1..Len(h) :
       /\ h2[x].type = h[x].type
       /\ Pointer(h2, h2[x].prev) = "CDATA" => Pointer(h, h[x].prev) = "CDATA"

\* What Follows says is enough for the invariant.
LEMMA FollowsKept ==
  ASSUME NEW h, NEW kids, NEW r, NEW h2, NEW gone, Follows(h, kids, r, h2, gone)
  PROVE  Kept(h2)
  BY KeptBoth DEF Follows

\* Nothing happens.
LEMMA FollowsSame ==
  ASSUME NEW h, NEW kids, NEW atts, NEW r, Good(h, kids, atts), RankedBy(h, r)
  PROVE  Follows(h, kids, r, h, {})
<1>1. ListsKept(h, kids, h, {})
  BY DEF ListsKept
<1>2. RankKept(h, r, h)
  BY DEF RankKept
<1>3. Len(h) <= Len(h)
  BY HeapLength DEF Good, Shape
<1>4. QED BY <1>1, <1>2, <1>3 DEF Follows

-----------------------------------------------------------------------------
\* Insertion

\* A node of the type is behind the last child of p.
Inserted(h, h2, p, type) ==
  LET n == Len(h) + 1 IN
  /\ IsHeap(h2) /\ Len(h2) = n
  /\ h2[n].type = type /\ h2[n].parent = p /\ h2[n].next = NULL
  /\ h2[n].first = NULL /\ h2[n].last = NULL /\ h2[n].fatt = NULL /\ h2[n].latt = NULL
  /\ h2[n].prev = IF h[p].first = NULL THEN NULL ELSE h[p].last
  /\ \A x \in 1..Len(h) :
       /\ h2[x].type = h[x].type /\ h2[x].parent = h[x].parent /\ h2[x].prev = h[x].prev
       /\ h2[x].fatt = h[x].fatt /\ h2[x].latt = h[x].latt
       /\ h2[x].next = IF h[p].first # NULL /\ x = h[p].last THEN n ELSE h[x].next
       /\ h2[x].first = IF h[p].first = NULL /\ x = p THEN n ELSE h[x].first
       /\ h2[x].last = IF x = p THEN n ELSE h[x].last

\* _xmlnode_insert: what it sets, with and without children before.
LEMMA InsertIs ==
  ASSUME NEW h, IsHeap(h), NEW p \in 1..Len(h), NEW name, NEW type,
         h[p].first # NULL => h[p].last \in 1..Len(h)
  PROVE  Inserted(h, insert(h, p, name, type), p, type)
<1> DEFINE n == Len(h) + 1
           h2 == insert(h, p, name, type)
<1>0. Len(h) \in Nat /\ p \in 1..n /\ n \in 1..n /\ n \notin 1..Len(h) /\ p # n
  BY HeapLength
<1>a. /\ "first" \in Fields /\ "last" \in Fields /\ "next" \in Fields /\ "parent" \in Fields
      /\ "type" \in Fields /\ "prev" \in Fields /\ "fatt" \in Fields /\ "latt" \in Fields
  BY DEF Fields
<1>1. ASSUME NEW g, IsHeap(g), Len(g) = n
      PROVE  \E k : /\ Put(g, k, n, "parent", p)
                    /\ Put(k, [g EXCEPT ![n].parent = p, ![p].last = n], p, "last", n)
  <2> DEFINE k == SetTo(g, n, "parent", p)
  <2>1. Put(g, k, n, "parent", p)
    BY <1>0, <1>1, <1>a, PutIs
  <2>2. k = [g EXCEPT ![n].parent = p]
    BY DEF SetTo
  <2> HIDE DEF k
  <2>3. [g EXCEPT ![n].parent = p, ![p].last = n] = [k EXCEPT ![p].last = n]
    BY <2>2
  <2>4. [k EXCEPT ![p].last = n] = SetTo(k, p, "last", n)
    BY DEF SetTo
  <2>5. IsHeap(k) /\ p \in 1..Len(k)
    BY <1>0, <1>1, <2>1 DEF Put
  <2>6. Put(k, SetTo(k, p, "last", n), p, "last", n)
    BY <1>a, <2>5, PutIs
  <2>7. QED BY <2>1, <2>3, <2>4, <2>6
<1>2. CASE h[p].first = NULL
  <2> DEFINE m == new(h, name, type)
             g == [m EXCEPT ![p].first = n]
  <2>1. Grows(h, m, Node(type, name))
    BY NewIs
  <2> HIDE DEF m
  <2>2. g = SetTo(m, p, "first", n)
    BY DEF SetTo
  <2>3. Put(m, g, p, "first", n)
    BY <1>0, <1>a, <2>1, <2>2, PutIs DEF Grows
  <2>4. h2 = [g EXCEPT ![n].parent = p, ![p].last = n]
    BY <1>2 DEF insert, m
  <2> HIDE DEF g, h2
  <2>5. IsHeap(g) /\ Len(g) = n
    BY <2>1, <2>3 DEF Put, Grows
  <2>6. PICK k : Put(g, k, n, "parent", p) /\ Put(k, h2, p, "last", n)
    BY <1>1, <2>4, <2>5
  <2>7. /\ Len(m) = n /\ Len(k) = n /\ Len(h2) = n /\ IsHeap(h2)
        /\ \A x \in 1..Len(h) : m[x] = h[x] /\ x \in 1..n
    BY <1>0, <2>1, <2>3, <2>5, <2>6 DEF Put, Grows
  <2>8. LET r == m[n] IN
          /\ r.type = type /\ r.next = NULL /\ r.prev = NULL
          /\ r.first = NULL /\ r.last = NULL /\ r.fatt = NULL /\ r.latt = NULL
    BY <2>1, NodeIs DEF Grows
  <2>9. ASSUME NEW x \in 1..n, NEW f \in Fields
        PROVE  h2[x][f] = IF x = p /\ f = "last" THEN n ELSE IF x = n /\ f = "parent" THEN p
                          ELSE IF x = p /\ f = "first" THEN n ELSE m[x][f]
    BY <1>0, <2>3, <2>5, <2>6, <2>7 DEF Put
  <2>10. /\ h2[n].type = type /\ h2[n].parent = p /\ h2[n].next = NULL /\ h2[n].prev = NULL
         /\ h2[n].first = NULL /\ h2[n].last = NULL /\ h2[n].fatt = NULL /\ h2[n].latt = NULL
    BY <1>0, <1>a, <2>8, <2>9
  <2>11. ASSUME NEW x \in 1..Len(h)
         PROVE  /\ h2[x].type = h[x].type /\ h2[x].parent = h[x].parent /\ h2[x].prev = h[x].prev
                /\ h2[x].fatt = h[x].fatt /\ h2[x].latt = h[x].latt /\ h2[x].next = h[x].next
                /\ h2[x].first = IF x = p THEN n ELSE h[x].first
                /\ h2[x].last = IF x = p THEN n ELSE h[x].last
    BY <1>0, <1>a, <2>7, <2>9
  <2>12. QED BY <1>2, <2>7, <2>10, <2>11 DEF Inserted, h2
<1>3. CASE h[p].first # NULL
  <2> DEFINE l == h[p].last
             g == append_sibling(h, l, name, type)
  <2>0. l \in 1..Len(h)
    BY <1>3
  <2>1. PICK m, r : /\ IsNode(r) /\ r.type = type /\ r.parent = NULL /\ r.first = NULL
                    /\ r.last = NULL /\ r.next = NULL /\ r.prev = l /\ r.fatt = NULL
                    /\ r.latt = NULL
                    /\ Grows(h, m, r) /\ Put(m, g, l, "next", Len(h) + 1)
    <3> HIDE DEF l
    <3>1. QED BY <2>0, AppendSiblingIs
  <2>4. h2 = [g EXCEPT ![n].parent = p, ![p].last = n]
    BY <1>3 DEF insert
  <2> HIDE DEF g, h2, l
  <2>5. IsHeap(g) /\ Len(g) = n
    BY <2>1 DEF Put, Grows
  <2>6. PICK k : Put(g, k, n, "parent", p) /\ Put(k, h2, p, "last", n)
    BY <1>1, <2>4, <2>5
  <2>7. /\ Len(m) = n /\ Len(k) = n /\ Len(h2) = n /\ IsHeap(h2)
        /\ \A x \in 1..Len(h) : m[x] = h[x] /\ x \in 1..n
    BY <1>0, <2>1, <2>5, <2>6 DEF Put, Grows
  <2>8. m[n] = r /\ l # n /\ l \in 1..n
    BY <1>0, <2>0, <2>1 DEF Grows
  <2>9. ASSUME NEW x \in 1..n, NEW f \in Fields
        PROVE  h2[x][f] = IF x = p /\ f = "last" THEN n ELSE IF x = n /\ f = "parent" THEN p
                          ELSE IF x = l /\ f = "next" THEN n ELSE m[x][f]
    BY <1>0, <2>1, <2>5, <2>6, <2>7 DEF Put
  <2>10. /\ h2[n].type = type /\ h2[n].parent = p /\ h2[n].next = NULL /\ h2[n].prev = l
         /\ h2[n].first = NULL /\ h2[n].last = NULL /\ h2[n].fatt = NULL /\ h2[n].latt = NULL
    BY <1>0, <1>a, <2>1, <2>8, <2>9
  <2>11. ASSUME NEW x \in 1..Len(h)
         PROVE  /\ h2[x].type = h[x].type /\ h2[x].parent = h[x].parent /\ h2[x].prev = h[x].prev
                /\ h2[x].fatt = h[x].fatt /\ h2[x].latt = h[x].latt
                /\ h2[x].next = IF x = l THEN n ELSE h[x].next
                /\ h2[x].first = h[x].first
                /\ h2[x].last = IF x = p THEN n ELSE h[x].last
    BY <1>0, <1>a, <2>7, <2>9
  <2>12. QED BY <1>3, <2>7, <2>10, <2>11 DEF Inserted, h2, l
<1>4. QED BY <1>2, <1>3

-----------------------------------------------------------------------------
\* Lists read forwards

NextOf(h) == [k \in 0..Len(h) |-> IF k = NULL THEN NULL ELSE h[k].next]
End == {NULL}
NotText(h) == {k \in 0..Len(h) : Pointer(h, k) # "CDATA"}

\* The pointer to the next leads forward.
LEMMA NextForward ==
  ASSUME NEW h, Shape(h)
  PROVE  Forward(Len(h), NextOf(h), End) /\ Forward(Len(h), NextOf(h), NotText(h))
<1>1. Len(h) \in Nat
  BY HeapLength DEF Shape
<1>2. NextOf(h) \in [0..Len(h) -> 0..Len(h)]
  <2>1. ASSUME NEW k \in 0..Len(h) PROVE (IF k = NULL THEN NULL ELSE h[k].next) \in 0..Len(h)
    BY <1>1 DEF Shape, NULL
  <2>2. QED BY <2>1 DEF NextOf
<1>3. \A k \in 1..Len(h) : NextOf(h)[k] = 0 \/ NextOf(h)[k] > k
  BY <1>1 DEF Shape, NULL, NextOf
<1>4. 0 \in End /\ 0 \in NotText(h)
  BY <1>1 DEF NULL, End, NotText, Pointer
<1>5. QED BY <1>1, <1>2, <1>3, <1>4 DEF Forward

\* Siblings is a path to the end.
LEMMA SiblingsIs ==
  ASSUME NEW h, Shape(h), NEW x \in 0..Len(h)
  PROVE  Path(Siblings(h, x), x, Len(h), NextOf(h), End)
<1> DEFINE Is(f) == f = [k \in 0..Len(h) |-> IF k = NULL THEN <<>> ELSE <<k>> \o f[h[k].next]]
           from == CHOOSE f : Is(f)
<1>1. ASSUME NEW f PROVE Walks(f, Len(h), NextOf(h), End) <=> Is(f)
  <2>1. ASSUME NEW k \in 0..Len(h)
        PROVE  (IF k \in End THEN <<>> ELSE <<k>> \o f[NextOf(h)[k]])
                 = (IF k = NULL THEN <<>> ELSE <<k>> \o f[h[k].next])
    BY DEF NextOf, End
  <2>2. QED BY <2>1 DEF Walks
<1>2. \E f : Is(f)
  <2> HIDE DEF Is
  <2> QED BY <1>1, NextForward, WalkExists
<1>3. Is(from)
  <2> HIDE DEF Is
  <2> QED BY <1>2
<1>4. Siblings(h, x) = from[x]
  BY DEF Siblings
<1> HIDE DEF Is, from
<1>5. QED BY <1>1, <1>3, <1>4, NextForward, WalkIsPath

\* Chunks is a path to the first node that is not character data.
LEMMA ChunksIs ==
  ASSUME NEW h, Shape(h), NEW x \in 0..Len(h)
  PROVE  Path(Chunks(h, x), x, Len(h), NextOf(h), NotText(h))
<1> DEFINE Is(f) == f = [k \in 0..Len(h) |->
                           IF Pointer(h, k) # "CDATA" THEN <<>> ELSE <<k>> \o f[h[k].next]]
           from == CHOOSE f : Is(f)
<1>1. ASSUME NEW f PROVE Walks(f, Len(h), NextOf(h), NotText(h)) <=> Is(f)
  <2>1. ASSUME NEW k \in 0..Len(h)
        PROVE  (IF k \in NotText(h) THEN <<>> ELSE <<k>> \o f[NextOf(h)[k]])
                 = (IF Pointer(h, k) # "CDATA" THEN <<>> ELSE <<k>> \o f[h[k].next])
    <3>1. k \in NotText(h) <=> Pointer(h, k) # "CDATA"
      BY DEF NotText
    <3>2. CASE k = NULL
      BY <3>1, <3>2 DEF Pointer
    <3>3. CASE k # NULL
      BY <3>1, <3>3 DEF NextOf
    <3>4. QED BY <3>2, <3>3
  <2>2. QED BY <2>1 DEF Walks
<1>2. \E f : Is(f)
  <2> HIDE DEF Is
  <2> QED BY <1>1, NextForward, WalkExists
<1>3. Is(from)
  <2> HIDE DEF Is
  <2> QED BY <1>2
<1>4. Chunks(h, x) = from[x]
  BY DEF Chunks
<1> HIDE DEF Is, from
<1>5. QED BY <1>1, <1>3, <1>4, NextForward, WalkIsPath

\* A path rises, and one that begins in a list stays in it.
LEMMA PathRises ==
  ASSUME NEW L, NEW nxt, NEW stop, Forward(L, nxt, stop), NEW k, NEW s, Path(s, k, L, nxt, stop)
  PROVE  \A i \in 2..Len(s) : s[1] < s[i]
<1> DEFINE S == {n \in Nat : n + 2 \in 2..Len(s) => s[1] < s[n + 2]}
<1>0. s \in Seq(1..L) /\ L \in Nat
  BY DEF Path, Forward
<1>1. L \in Nat /\ Len(s) \in Nat /\ \A i \in 1..Len(s) : s[i] \in 1..L
  BY ONLY <1>0
<1>2. ASSUME NEW i \in 1..(Len(s) - 1) PROVE s[i] < s[i + 1]
  <2>1. i \in 1..Len(s) /\ i + 1 \in 1..Len(s) /\ nxt[s[i]] = s[i + 1]
    BY <1>1 DEF Path
  <2>2. nxt[s[i]] = 0 \/ nxt[s[i]] > s[i]
    BY <1>1, <2>1 DEF Forward
  <2>3. s[i] \in Int /\ s[i + 1] \in Int /\ s[i + 1] # 0
    BY ONLY <1>1, <2>1
  <2>4. QED BY ONLY <2>1, <2>2, <2>3
<1>3. 0 \in S
  BY <1>2
<1>4. ASSUME NEW n \in S PROVE n + 1 \in S
  <2>1. SUFFICES ASSUME n + 3 \in 2..Len(s) PROVE s[1] < s[n + 3]
    BY <1>1
  <2>2. n + 2 \in 2..Len(s) /\ n + 2 \in 1..(Len(s) - 1) /\ (n + 2) + 1 = n + 3 /\ n \in Nat
    BY <1>1, <2>1
  <2>3. s[1] < s[n + 2]
    BY <2>2
  <2>4. s[n + 2] < s[n + 3]
    BY <1>2, <2>2
  <2>5. s[1] \in Nat /\ s[n + 2] \in Nat /\ s[n + 3] \in Nat
    BY <1>1, <2>1, <2>2
  <2>6. QED BY <2>3, <2>4, <2>5
<1>5. S = Nat
  <2> HIDE DEF S
  <2> QED BY <1>3, <1>4, InductiveSet DEF S
<1>6. ASSUME NEW i \in 2..Len(s) PROVE s[1] < s[i]
  <2>1. i - 2 \in S /\ (i - 2) + 2 = i
    <3> HIDE DEF S
    <3> QED BY <1>1, <1>5
  <2>2. QED BY <2>1
<1>7. QED BY <1>6

\* The rank falls along a path.
LEMMA PathFalls ==
  ASSUME NEW L, NEW nxt, NEW stop, Forward(L, nxt, stop), NEW k, NEW s, Path(s, k, L, nxt, stop),
         NEW r \in [1..L -> Nat], \A x \in 1..L : nxt[x] # 0 => r[nxt[x]] < r[x]
  PROVE  \A i \in 2..Len(s) : r[s[i]] < r[s[1]]
<1> DEFINE S == {n \in Nat : n + 2 \in 2..Len(s) => r[s[n + 2]] < r[s[1]]}
<1>0. s \in Seq(1..L) /\ L \in Nat
  BY DEF Path, Forward
<1>1. L \in Nat /\ Len(s) \in Nat /\ \A i \in 1..Len(s) : s[i] \in 1..L
  BY ONLY <1>0
<1>a. \A i \in 1..Len(s) : r[s[i]] \in Nat
  BY <1>1
<1>2. ASSUME NEW i \in 1..(Len(s) - 1) PROVE r[s[i + 1]] < r[s[i]]
  <2>1. i \in 1..Len(s) /\ i + 1 \in 1..Len(s) /\ nxt[s[i]] = s[i + 1]
    BY <1>1 DEF Path
  <2>2. s[i] \in 1..L /\ s[i + 1] \in 1..L /\ s[i + 1] # 0
    BY ONLY <1>1, <2>1
  <2>3. QED BY <2>1, <2>2
<1>3. 0 \in S
  BY <1>2
<1>4. ASSUME NEW n \in S PROVE n + 1 \in S
  <2>1. SUFFICES ASSUME n + 3 \in 2..Len(s) PROVE r[s[n + 3]] < r[s[1]]
    BY <1>1
  <2>2. n + 2 \in 2..Len(s) /\ n + 2 \in 1..(Len(s) - 1) /\ (n + 2) + 1 = n + 3 /\ n \in Nat
        /\ 1 \in 1..Len(s) /\ n + 2 \in 1..Len(s) /\ n + 3 \in 1..Len(s)
    BY <1>1, <2>1
  <2>3. r[s[n + 2]] < r[s[1]]
    BY <2>2
  <2>4. r[s[n + 3]] < r[s[n + 2]]
    BY <1>2, <2>2
  <2>5. r[s[1]] \in Nat /\ r[s[n + 2]] \in Nat /\ r[s[n + 3]] \in Nat
    BY <1>a, <2>2
  <2>6. QED BY <2>3, <2>4, <2>5
<1>5. S = Nat
  <2> HIDE DEF S
  <2> QED BY <1>3, <1>4, InductiveSet DEF S
<1>6. ASSUME NEW i \in 2..Len(s) PROVE r[s[i]] < r[s[1]]
  <2>1. i - 2 \in S /\ (i - 2) + 2 = i
    <3> HIDE DEF S
    <3> QED BY <1>1, <1>5
  <2>2. QED BY <2>1
<1>7. QED BY <1>6

\* The nodes s of M follow each other.
InOrder(h, M, s) ==
  /\ \A i \in 1..Len(s) : s[i] \in M
  /\ \A i \in 1..(Len(s) - 1) : h[s[i]].next = s[i + 1] /\ h[s[i + 1]].prev = s[i]

\* A path that begins in a list stays in it, in its order.
LEMMA PathInChain ==
  ASSUME NEW h, NEW M \in SUBSET (1..Len(h)), NEW f, NEW l, Chain(h, M, f, l),
         NEW stop, Forward(Len(h), NextOf(h), stop),
         NEW k, k = NULL \/ k \in M, NEW s, Path(s, k, Len(h), NextOf(h), stop)
  PROVE  InOrder(h, M, s)
<1> DEFINE S == {n \in Nat : n + 1 \in 1..Len(s) => s[n + 1] \in M}
<1>0. s \in Seq(1..Len(h))
  BY DEF Path
<1>1. Len(s) \in Nat /\ \A i \in 1..Len(s) : s[i] \in 1..Len(h)
  BY ONLY <1>0
<1>2. ASSUME NEW i \in 1..(Len(s) - 1), s[i] \in M
      PROVE  h[s[i]].next = s[i + 1] /\ s[i + 1] \in M /\ h[s[i + 1]].prev = s[i]
  <2>1. i \in 1..Len(s) /\ i + 1 \in 1..Len(s) /\ NextOf(h)[s[i]] = s[i + 1]
    BY <1>1 DEF Path
  <2>2. s[i] \in 0..Len(h) /\ s[i] # NULL /\ s[i + 1] # NULL
    <3>1. s[i] \in 1..Len(h) /\ s[i + 1] \in 1..Len(h)
      BY <1>1, <2>1
    <3>2. QED BY ONLY <3>1 DEF NULL
  <2>3. h[s[i]].next = s[i + 1]
    BY <2>1, <2>2 DEF NextOf
  <2>4. QED BY <1>2, <2>2, <2>3 DEF Chain
<1>3. 0 \in S
  <2>1. ASSUME 1 \in 1..Len(s) PROVE s[1] \in M
    <3>1. s # <<>>
      BY <2>1
    <3>2. k \notin stop /\ s[1] = k
      BY <3>1 DEF Path
    <3>3. NULL \in stop
      BY DEF Forward, NULL
    <3>4. QED BY <3>2, <3>3
  <2>2. QED BY <2>1
<1>4. ASSUME NEW n \in S PROVE n + 1 \in S
  <2>1. SUFFICES ASSUME n + 2 \in 1..Len(s) PROVE s[n + 2] \in M
    BY <1>1
  <2>2. n + 1 \in 1..Len(s) /\ n + 1 \in 1..(Len(s) - 1) /\ (n + 1) + 1 = n + 2 /\ n \in Nat
    BY <1>1, <2>1
  <2>3. QED BY <1>2, <2>2
<1>5. S = Nat
  <2> HIDE DEF S
  <2> QED BY <1>3, <1>4, InductiveSet DEF S
<1>6. ASSUME NEW i \in 1..Len(s) PROVE s[i] \in M
  <2>1. i - 1 \in S /\ (i - 1) + 1 = i
    <3> HIDE DEF S
    <3> QED BY <1>1, <1>5
  <2>2. QED BY <2>1
<1>7. QED
  <2>1. \A i \in 1..(Len(s) - 1) : i \in 1..Len(s)
    BY <1>1
  <2>2. QED BY <1>2, <1>6, <2>1 DEF InOrder

\* xs are the nodes of M that a list to l holds, each pointing back at the one before.
ReadsAs(h, M, l, xs) ==
  /\ xs \in Seq(M)
  /\ l = IF xs = <<>> THEN NULL ELSE xs[Len(xs)]
  /\ \A i \in DOMAIN xs : h[xs[i]].prev = IF i = 1 THEN NULL ELSE xs[i - 1]

\* The siblings of the first node are the list, read from its first node to its last.
LEMMA ListIsLinked ==
  ASSUME NEW h, Shape(h), NEW M \in SUBSET (1..Len(h)), NEW f \in 0..Len(h), NEW l, Chain(h, M, f, l)
  PROVE  ReadsAs(h, M, l, Siblings(h, f))
<1> DEFINE xs == Siblings(h, f)
<1>1. Path(xs, f, Len(h), NextOf(h), End)
  BY SiblingsIs
<1> HIDE DEF xs
<1>2. xs \in Seq(1..Len(h)) /\ Len(xs) \in Nat /\ DOMAIN xs = 1..Len(xs)
      /\ \A i \in 1..Len(xs) : xs[i] \in 1..Len(h)
  BY <1>1 DEF Path
<1>3. f = NULL \/ f \in M
  BY DEF Chain
<1>4. /\ \A i \in 1..Len(xs) : xs[i] \in M
      /\ \A i \in 1..(Len(xs) - 1) : h[xs[i]].next = xs[i + 1] /\ h[xs[i + 1]].prev = xs[i]
  <2>1. InOrder(h, M, xs)
    BY <1>1, <1>3, NextForward, PathInChain
  <2>2. QED BY <2>1 DEF InOrder
<1>5. xs \in Seq(M)
  BY <1>2, <1>4
<1>6. CASE xs = <<>>
  <2>1. f = NULL
    BY <1>1, <1>6 DEF Path, End
  <2>2. l = NULL /\ DOMAIN xs = {}
    BY <1>6, <2>1 DEF Chain
  <2>3. QED BY <1>5, <1>6, <2>2 DEF xs, ReadsAs
<1>7. CASE xs # <<>>
  <2>1. f # NULL /\ xs[1] = f /\ NextOf(h)[xs[Len(xs)]] = NULL
    BY <1>1, <1>7 DEF Path, End
  <2>2. Len(xs) \in 1..Len(xs)
    BY <1>2, <1>7, EmptySeq
  <2>3. xs[Len(xs)] \in 0..Len(h) /\ xs[Len(xs)] # NULL /\ xs[Len(xs)] \in M
    BY <1>2, <1>4, <2>2 DEF NULL
  <2>4. l = xs[Len(xs)]
    BY <2>1, <2>3 DEF Chain, NextOf
  <2>5. ASSUME NEW i \in 1..Len(xs) PROVE h[xs[i]].prev = IF i = 1 THEN NULL ELSE xs[i - 1]
    <3>1. CASE i = 1
      BY <2>1, <3>1 DEF Chain
    <3>2. CASE i # 1
      <4>1. i - 1 \in 1..(Len(xs) - 1) /\ (i - 1) + 1 = i
        BY <1>2, <3>2
      <4>2. QED BY <1>4, <3>2, <4>1
    <3>3. QED BY <3>1, <3>2
  <2>6. QED BY <1>2, <1>5, <1>7, <2>4, <2>5 DEF xs, ReadsAs
<1>8. QED BY <1>6, <1>7

\* What FirstOf finds is one of those it was to find.
LEMMA FirstOfIs ==
  ASSUME NEW S, NEW xs \in Seq(S), NEW hits, FirstOf(xs, hits) # NULL
  PROVE  \E i \in DOMAIN xs : FirstOf(xs, hits) = xs[i] /\ xs[i] \in hits
<1> DEFINE Hit(i) == xs[i] \in hits /\ \A j \in 1..(i - 1) : xs[j] \notin hits
           I == {i \in DOMAIN xs : xs[i] \in hits}
<1>1. I # {}
  BY DEF FirstOf
<1>2. DOMAIN xs = 1..Len(xs) /\ Len(xs) \in Nat
  OBVIOUS
<1>3. PICK i \in I : \A j \in I : i <= j
  <2>1. I \in SUBSET Nat
    BY <1>2
  <2> HIDE DEF I
  <2>2. QED BY <1>1, <2>1, LeastNatural
<1>4. Hit(i)
  <2>1. ASSUME NEW j \in 1..(i - 1) PROVE xs[j] \notin hits
    <3>1. i \in Nat /\ i \in DOMAIN xs
      BY <1>2
    <3>2. j \in DOMAIN xs /\ ~(i <= j)
      BY <1>2, <3>1
    <3>3. QED BY <1>3, <3>2
  <2>2. QED BY <2>1
<1>5. FirstOf(xs, hits) = xs[CHOOSE k \in DOMAIN xs : Hit(k)]
  BY <1>1 DEF FirstOf
<1>6. i \in DOMAIN xs
  OBVIOUS
<1> DEFINE k == CHOOSE m \in DOMAIN xs : Hit(m)
<1>7. k \in DOMAIN xs /\ Hit(k)
  <2> HIDE DEF Hit
  <2> QED BY <1>4, <1>6
<1>8. QED BY <1>5, <1>7

\* Text is not a pointer.
LEMMA GoodData ==
  ASSUME NEW h, NEW kids, NEW atts, Good(h, kids, atts), NEW h2, NEW a, NEW v, Put(h, h2, a, "data", v)
  PROVE  Good(h2, kids, atts)
<1>1. /\ IsHeap(h2) /\ Len(h2) = Len(h)
      /\ \A x \in 1..Len(h) :
           /\ h2[x].type = h[x].type /\ h2[x].parent = h[x].parent
           /\ h2[x].first = h[x].first /\ h2[x].last = h[x].last
           /\ h2[x].fatt = h[x].fatt /\ h2[x].latt = h[x].latt
           /\ h2[x].next = h[x].next /\ h2[x].prev = h[x].prev
  BY DEF Put, Fields
<1>2. Shape(h2)
  <2>1. ASSUME NEW x \in 1..Len(h2)
        PROVE  /\ h2[x].type \in Types
               /\ h2[x].first \in 0..Len(h2) /\ h2[x].last \in 0..Len(h2)
               /\ h2[x].fatt \in 0..Len(h2) /\ h2[x].latt \in 0..Len(h2)
               /\ h2[x].next \in 0..Len(h2) /\ h2[x].prev \in 0..Len(h2)
               /\ h2[x].parent \in 0..Len(h2)
               /\ h2[x].next = NULL \/ h2[x].next > x
    <3>1. x \in 1..Len(h)
      BY <1>1
    <3>2. /\ h[x].type \in Types
          /\ h[x].first \in 0..Len(h) /\ h[x].last \in 0..Len(h)
          /\ h[x].fatt \in 0..Len(h) /\ h[x].latt \in 0..Len(h)
          /\ h[x].next \in 0..Len(h) /\ h[x].prev \in 0..Len(h) /\ h[x].parent \in 0..Len(h)
          /\ h[x].next = NULL \/ h[x].next > x
      BY <3>1 DEF Good, Shape
    <3>3. QED BY ONLY <1>1, <3>1, <3>2
  <2>2. QED BY <1>1, <2>1 DEF Shape
<1>3. ASSUME NEW t \in 1..Len(h)
      PROVE  Chain(h2, kids[t], h[t].first, h[t].last) /\ Chain(h2, atts[t], h[t].fatt, h[t].latt)
  <2>1. kids[t] \subseteq 1..Len(h) /\ atts[t] \subseteq 1..Len(h)
    BY DEF Good
  <2>2. Chain(h, kids[t], h[t].first, h[t].last) /\ Chain(h, atts[t], h[t].fatt, h[t].latt)
    BY DEF Good
  <2>3. \A x \in kids[t] : h2[x].next = h[x].next /\ h2[x].prev = h[x].prev
    BY <1>1, <2>1
  <2>4. \A x \in atts[t] : h2[x].next = h[x].next /\ h2[x].prev = h[x].prev
    BY <1>1, <2>1
  <2>5. Chain(h2, kids[t], h[t].first, h[t].last)
    BY <2>2, <2>3, ChainFrame
  <2>6. Chain(h2, atts[t], h[t].fatt, h[t].latt)
    BY <2>2, <2>4, ChainFrame
  <2>7. QED BY <2>5, <2>6
<1>4. \A t \in 1..Len(h) : kids[t] \subseteq 1..Len(h) /\ atts[t] \subseteq 1..Len(h)
  BY DEF Good
<1>5. \A t \in 1..Len(h) : /\ Chain(h2, kids[t], h2[t].first, h2[t].last)
                           /\ Chain(h2, atts[t], h2[t].fatt, h2[t].latt)
                           /\ \A x \in kids[t] : h2[x].parent = t /\ h2[x].type # "ATTRIB"
                           /\ \A x \in atts[t] : h2[x].type = "ATTRIB"
  BY <1>1, <1>3, <1>4 DEF Good
<1>6. \A x \in 1..Len(h) : h2[x].parent = NULL /\ h2[x].type # "ATTRIB" =>
                             h2[x].next = NULL /\ h2[x].prev = NULL
  BY <1>1 DEF Good
<1>7. QED BY <1>1, <1>2, <1>5, <1>6 DEF Good

\* Neither for the steps of a copy.
LEMMA FollowsData ==
  ASSUME NEW h, IsHeap(h), NEW kids, NEW r, NEW g, NEW gone, Follows(h, kids, r, g, gone),
         NEW h2, NEW a, NEW v, Put(g, h2, a, "data", v)
  PROVE  Follows(h, kids, r, h2, gone)
<1>1. PICK kids2, atts2 : /\ Good(g, kids2, atts2)
                          /\ \A t \in 1..Len(h) : kids[t] \ gone \subseteq kids2[t]
  BY DEF Follows, ListsKept
<1>2. /\ Len(h2) = Len(g)
      /\ \A x \in 1..Len(g) : /\ h2[x].type = g[x].type /\ h2[x].prev = g[x].prev
                              /\ h2[x].first = g[x].first /\ h2[x].fatt = g[x].fatt
                              /\ h2[x].next = g[x].next
  BY DEF Put, Fields
<1>3. ListsKept(h, kids, h2, gone)
  BY <1>1, GoodData DEF ListsKept
<1>4. RankKept(h, r, h2)
  <2>1. PICK r2 : RankedBy(g, r2) /\ \A x, y \in 1..Len(h) : r[x] <= r[y] => r2[x] <= r2[y]
    BY DEF Follows, RankKept
  <2>2. RankedBy(h2, r2)
    BY <1>2, <2>1 DEF RankedBy
  <2>3. QED BY <2>1, <2>2 DEF RankKept
<1>5. Len(h) \in Nat /\ Len(g) \in Nat /\ Len(h) <= Len(g) /\ Len(h2) = Len(g)
  <2>1. Len(g) \in Nat
    BY <1>1, HeapLength DEF Good, Shape
  <2>2. Len(h) \in Nat
    BY HeapLength
  <2>3. QED BY <1>2, <2>1, <2>2 DEF Follows
<1>6. ASSUME NEW x \in 1..Len(h)
      PROVE  /\ h2[x].type = h[x].type
             /\ Pointer(h2, h2[x].prev) = "CDATA" => Pointer(h, h[x].prev) = "CDATA"
  <2>1. x \in 1..Len(g)
    BY <1>5
  <2>2. g[x].prev \in 0..Len(g)
    BY <1>1, <2>1 DEF Good, Shape
  <2>3. g[x].prev = NULL \/ g[x].prev \in 1..Len(g)
    BY <1>5, <2>2 DEF NULL
  <2>4. Pointer(h2, h2[x].prev) = Pointer(g, g[x].prev)
    BY <1>2, <2>1, <2>3 DEF Pointer
  <2>5. QED BY <1>2, <2>1, <2>4 DEF Follows
<1>7. QED BY <1>3, <1>4, <1>5, <1>6 DEF Follows

\* A new child is in the list of its parent, and no other list changes.
LEMMA InsertKeeps ==
  ASSUME NEW h, NEW kids, NEW atts, Good(h, kids, atts), NEW p \in 1..Len(h),
         NEW type \in Types \ {"ATTRIB"}, NEW h2, Inserted(h, h2, p, type)
  PROVE  ListsKept(h, kids, h2, {})
<1> DEFINE n == Len(h) + 1
           kids2 == [t \in 1..n |-> IF t = n THEN {} ELSE IF t = p THEN kids[p] \cup {n} ELSE kids[t]]
           atts2 == [t \in 1..n |-> IF t = n THEN {} ELSE atts[t]]
<1>0. Len(h) \in Nat /\ n \notin 1..Len(h) /\ n \in 1..n /\ 1..n = 1..Len(h) \cup {n} /\ n # NULL
      /\ NULL \notin 1..Len(h) /\ 0..Len(h) \subseteq 0..n /\ n \in 0..n
  <2>1. Len(h) \in Nat
    BY HeapLength DEF Good, Shape
  <2>2. QED BY ONLY <2>1 DEF NULL
<1>1. \A t \in 1..Len(h) : kids[t] \subseteq 1..Len(h) /\ atts[t] \subseteq 1..Len(h)
  BY DEF Good
<1>2. h[p].first # NULL => h[p].last \in kids[p] /\ h[p].last \in 1..Len(h)
                           /\ h[h[p].last].next = NULL
  BY <1>1 DEF Good, Chain
<1>3. \A x \in 1..Len(h) : n > x
  BY <1>0
<1>4. Shape(h2)
  <2>1. IsHeap(h2) /\ Len(h2) = n
    BY DEF Inserted
  <2>2. ASSUME NEW x \in 1..Len(h)
        PROVE  /\ h2[x].type \in Types
               /\ h2[x].first \in 0..n /\ h2[x].last \in 0..n
               /\ h2[x].fatt \in 0..n /\ h2[x].latt \in 0..n
               /\ h2[x].next \in 0..n /\ h2[x].prev \in 0..n /\ h2[x].parent \in 0..n
               /\ h2[x].next = NULL \/ h2[x].next > x
    <3>1. /\ h[x].type \in Types
          /\ h[x].first \in 0..n /\ h[x].last \in 0..n
          /\ h[x].fatt \in 0..n /\ h[x].latt \in 0..n
          /\ h[x].next \in 0..n /\ h[x].prev \in 0..n /\ h[x].parent \in 0..n
          /\ h[x].next = NULL \/ h[x].next > x
      BY <1>0 DEF Good, Shape
    <3>2. /\ h2[x].type = h[x].type /\ h2[x].parent = h[x].parent
          /\ h2[x].fatt = h[x].fatt /\ h2[x].latt = h[x].latt /\ h2[x].prev = h[x].prev
          /\ h2[x].first = h[x].first \/ h2[x].first = n
          /\ h2[x].last = h[x].last \/ h2[x].last = n
          /\ h2[x].next = h[x].next \/ h2[x].next = n
      BY DEF Inserted
    <3>3. n \in 0..n /\ n > x
      BY <1>0, <1>3
    <3> HIDE DEF n
    <3>4. QED BY ONLY <3>1, <3>2, <3>3
  <2>3. /\ h2[n].type \in Types /\ h2[n].first = NULL /\ h2[n].last = NULL /\ h2[n].fatt = NULL
        /\ h2[n].latt = NULL /\ h2[n].next = NULL /\ h2[n].parent = p
        /\ h2[n].prev \in 0..n
    BY <1>0, <1>2 DEF Inserted, NULL
  <2>4. p \in 0..n /\ NULL \in 0..n
    BY <1>0 DEF NULL
  <2>5. QED BY <1>0, <2>1, <2>2, <2>3, <2>4 DEF Shape
<1>5. kids2 \in [1..n -> SUBSET (1..n)] /\ atts2 \in [1..n -> SUBSET (1..n)]
  BY <1>0, <1>1
<1>6. ASSUME NEW t \in 1..n
      PROVE  /\ Chain(h2, kids2[t], h2[t].first, h2[t].last)
             /\ Chain(h2, atts2[t], h2[t].fatt, h2[t].latt)
             /\ \A x \in kids2[t] : h2[x].parent = t /\ h2[x].type # "ATTRIB"
             /\ \A x \in atts2[t] : h2[x].type = "ATTRIB"
  <2>1. CASE t = n
    <3>1. kids2[t] = {} /\ atts2[t] = {} /\ h2[t].first = NULL /\ h2[t].last = NULL
          /\ h2[t].fatt = NULL /\ h2[t].latt = NULL
      BY <2>1 DEF Inserted
    <3> HIDE DEF kids2, atts2
    <3>2. QED BY <3>1 DEF Chain
  <2>2. CASE t # n
    <3>1. t \in 1..Len(h) /\ atts2[t] = atts[t] /\ h2[t].fatt = h[t].fatt /\ h2[t].latt = h[t].latt
      BY <1>0, <2>2 DEF Inserted
    <3>2. /\ Chain(h, kids[t], h[t].first, h[t].last)
          /\ Chain(h, atts[t], h[t].fatt, h[t].latt)
          /\ \A x \in kids[t] : h[x].parent = t /\ h[x].type # "ATTRIB"
          /\ \A x \in atts[t] : h[x].type = "ATTRIB"
          /\ \A x \in kids[p] : h[x].parent = p /\ h[x].type # "ATTRIB"
      BY <3>1 DEF Good
    <3>3. \A x \in atts[t] : h2[x].next = h[x].next /\ h2[x].prev = h[x].prev /\ h2[x].type = "ATTRIB"
      BY <1>1, <1>2, <3>1, <3>2 DEF Inserted
    <3>4. Chain(h2, atts2[t], h2[t].fatt, h2[t].latt)
      BY <3>1, <3>2, <3>3, ChainFrame
    <3>5. CASE t # p
      <4>1. kids2[t] = kids[t] /\ h2[t].first = h[t].first /\ h2[t].last = h[t].last
        BY <2>2, <3>1, <3>5 DEF Inserted
      <4>2. \A x \in kids[t] : h2[x].next = h[x].next /\ h2[x].prev = h[x].prev
                               /\ h2[x].type = h[x].type /\ h2[x].parent = h[x].parent
        BY <1>1, <1>2, <3>1, <3>2, <3>5 DEF Inserted
      <4> HIDE DEF kids2, atts2
      <4>3. Chain(h2, kids2[t], h2[t].first, h2[t].last)
        BY <3>2, <4>1, <4>2, ChainFrame
      <4>4. QED BY <3>1, <3>2, <3>3, <3>4, <4>1, <4>2, <4>3
    <3>6. CASE t = p
      <4>1. /\ kids2[t] = kids[t] \cup {n}
            /\ h2[t].first = IF h[t].first = NULL THEN n ELSE h[t].first
            /\ h2[t].last = n
        BY <2>2, <3>1, <3>6 DEF Inserted
      <4>2. \A x \in kids[t] : /\ h2[x].next = IF h[t].first # NULL /\ x = h[t].last THEN n ELSE h[x].next
                               /\ h2[x].prev = h[x].prev
                               /\ h2[x].type = h[x].type /\ h2[x].parent = h[x].parent
        BY <1>1, <3>1, <3>6 DEF Inserted
      <4>3. /\ h2[n].next = NULL /\ h2[n].prev = IF h[t].first = NULL THEN NULL ELSE h[t].last
            /\ h2[n].parent = t /\ h2[n].type # "ATTRIB"
        BY <3>6 DEF Inserted
      <4>4. NULL \notin kids[t] /\ n \notin kids[t]
        BY <1>0, <1>1, <3>1
      <4> HIDE DEF n, kids2, atts2
      <4>5. Chain(h2, kids[t] \cup {n}, IF h[t].first = NULL THEN n ELSE h[t].first, n)
        <5>1. Chain(h, kids[t], h[t].first, h[t].last)
          BY <3>2
        <5>2. LinkedBehind(h, h2, kids[t], h[t].first, h[t].last, n)
          BY <4>2, <4>3 DEF LinkedBehind
        <5>3. QED BY ONLY <1>0, <4>4, <5>1, <5>2, ChainAppend
      <4>6. \A x \in kids2[t] : h2[x].parent = t /\ h2[x].type # "ATTRIB"
        BY <3>2, <4>1, <4>2, <4>3
      <4>7. Chain(h2, kids2[t], h2[t].first, h2[t].last)
        BY <4>1, <4>5
      <4>8. QED BY <3>1, <3>3, <3>4, <4>6, <4>7
    <3>7. QED BY <3>5, <3>6
  <2>3. QED BY <2>1, <2>2
<1>7. \A t, u \in 1..n : t # u => atts2[t] \cap atts2[u] = {}
  BY <1>0 DEF Good
<1>8. ASSUME NEW x \in 1..n, h2[x].parent = NULL, h2[x].type # "ATTRIB"
      PROVE  h2[x].next = NULL /\ h2[x].prev = NULL
  <2>1. x # n /\ x \in 1..Len(h)
    BY <1>0, <1>8 DEF Inserted
  <2>2. h[x].parent = NULL /\ h[x].type # "ATTRIB"
    BY <1>8, <2>1 DEF Inserted
  <2>3. h[x].next = NULL /\ h[x].prev = NULL
    BY <2>1, <2>2 DEF Good
  <2>4. h[p].first # NULL => h[h[p].last].parent # NULL
    BY <1>0, <1>2 DEF Good
  <2>5. QED BY <2>1, <2>2, <2>3, <2>4 DEF Inserted
<1>9. Len(h2) = n
  BY DEF Inserted
<1>10. Good(h2, kids2, atts2)
  <2> HIDE DEF n, kids2, atts2
  <2> QED BY <1>4, <1>5, <1>6, <1>7, <1>8, <1>9 DEF Good
<1>11. \A t \in 1..Len(h) : kids[t] \ {} \subseteq kids2[t]
  BY <1>0
<1>12. QED
  <2> HIDE DEF kids2, atts2
  <2> QED BY <1>10, <1>11 DEF ListsKept

\* _xmlnode_insert as a step of a copy.
LEMMA InsertFollows ==
  ASSUME NEW h, NEW kids, NEW atts, NEW r, Good(h, kids, atts), RankedBy(h, r), NEW p \in 1..Len(h),
         NEW type \in Types \ {"ATTRIB"}, NEW h2, Inserted(h, h2, p, type)
  PROVE  Follows(h, kids, r, h2, {})
<1>1. ListsKept(h, kids, h2, {})
  BY InsertKeeps
<1>2. RankKept(h, r, h2)
  <2> DEFINE n == Len(h) + 1
  <2>1. Shape(h) /\ Len(h2) = n
    BY DEF Good, Inserted
  <2>2. h2[n].next = NULL /\ h2[n].first = NULL /\ h2[n].fatt = NULL
    BY DEF Inserted
  <2>3. \A x \in 1..Len(h) : /\ h2[x].next = h[x].next \/ h2[x].next = n
                             /\ h2[x].first = h[x].first \/ h2[x].first = n
                             /\ h2[x].fatt = h[x].fatt \/ h2[x].fatt = n
    BY DEF Inserted
  <2>4. QED BY <2>1, <2>2, <2>3, RankGrows
<1>3. Len(h) \in Nat /\ Len(h) <= Len(h2)
  <2>1. Len(h) \in Nat /\ Len(h2) = Len(h) + 1
    BY HeapLength DEF Good, Shape, Inserted
  <2>2. QED BY ONLY <2>1
<1>4. ASSUME NEW x \in 1..Len(h)
      PROVE  /\ h2[x].type = h[x].type
             /\ Pointer(h2, h2[x].prev) = "CDATA" => Pointer(h, h[x].prev) = "CDATA"
  <2>1. h2[x].prev = h[x].prev /\ h2[x].type = h[x].type
    BY DEF Inserted
  <2>2. h[x].prev \in 0..Len(h)
    BY DEF Good, Shape
  <2>3. h[x].prev = NULL \/ h[x].prev \in 1..Len(h)
    BY <1>3, <2>2 DEF NULL
  <2>4. QED BY <2>1, <2>3 DEF Inserted, Pointer
<1>5. QED BY <1>1, <1>2, <1>3, <1>4 DEF Follows

-----------------------------------------------------------------------------
\* Attributes

\* A new attribute is behind the last one of p.
AttInserted(h, h2, p) ==
  LET n == Len(h) + 1 IN
  /\ IsHeap(h2) /\ Len(h2) = n
  /\ h2[n].type = "ATTRIB" /\ h2[n].parent = NULL /\ h2[n].next = NULL
  /\ h2[n].first = NULL /\ h2[n].last = NULL /\ h2[n].fatt = NULL /\ h2[n].latt = NULL
  /\ h2[n].prev = IF h[p].fatt = NULL THEN NULL ELSE h[p].latt
  /\ \A x \in 1..Len(h) :
       /\ h2[x].type = h[x].type /\ h2[x].parent = h[x].parent /\ h2[x].prev = h[x].prev
       /\ h2[x].first = h[x].first /\ h2[x].last = h[x].last
       /\ h2[x].next = IF h[p].fatt # NULL /\ x = h[p].latt THEN n ELSE h[x].next
       /\ h2[x].fatt = IF h[p].fatt = NULL /\ x = p THEN n ELSE h[x].fatt
       /\ h2[x].latt = IF x = p THEN n ELSE h[x].latt

\* A new attribute is in the list of its owner, and no other list changes.
LEMMA AttKeeps ==
  ASSUME NEW h, NEW kids, NEW atts, Good(h, kids, atts), NEW p \in 1..Len(h),
         NEW h2, AttInserted(h, h2, p)
  PROVE  ListsKept(h, kids, h2, {})
<1> DEFINE n == Len(h) + 1
           kids2 == [t \in 1..n |-> IF t = n THEN {} ELSE kids[t]]
           atts2 == [t \in 1..n |-> IF t = n THEN {} ELSE IF t = p THEN atts[p] \cup {n} ELSE atts[t]]
<1>0. Len(h) \in Nat /\ n \notin 1..Len(h) /\ n \in 1..n /\ 1..n = 1..Len(h) \cup {n} /\ n # NULL
      /\ NULL \notin 1..Len(h) /\ 0..Len(h) \subseteq 0..n /\ n \in 0..n
  <2>1. Len(h) \in Nat
    BY HeapLength DEF Good, Shape
  <2>2. QED BY ONLY <2>1 DEF NULL
<1>1. \A t \in 1..Len(h) : kids[t] \subseteq 1..Len(h) /\ atts[t] \subseteq 1..Len(h)
  BY DEF Good
<1>2. h[p].fatt # NULL => h[p].latt \in atts[p] /\ h[p].latt \in 1..Len(h)
                          /\ h[h[p].latt].next = NULL /\ h[h[p].latt].type = "ATTRIB"
  BY <1>1 DEF Good, Chain
<1>3. \A x \in 1..Len(h) : n > x
  BY <1>0
<1>4. Shape(h2)
  <2>1. IsHeap(h2) /\ Len(h2) = n
    BY DEF AttInserted
  <2>2. ASSUME NEW x \in 1..Len(h)
        PROVE  /\ h2[x].type \in Types
               /\ h2[x].first \in 0..n /\ h2[x].last \in 0..n
               /\ h2[x].fatt \in 0..n /\ h2[x].latt \in 0..n
               /\ h2[x].next \in 0..n /\ h2[x].prev \in 0..n /\ h2[x].parent \in 0..n
               /\ h2[x].next = NULL \/ h2[x].next > x
    <3>1. /\ h[x].type \in Types
          /\ h[x].first \in 0..n /\ h[x].last \in 0..n
          /\ h[x].fatt \in 0..n /\ h[x].latt \in 0..n
          /\ h[x].next \in 0..n /\ h[x].prev \in 0..n /\ h[x].parent \in 0..n
          /\ h[x].next = NULL \/ h[x].next > x
      BY <1>0 DEF Good, Shape
    <3>2. QED BY <1>0, <1>3, <3>1 DEF AttInserted
  <2>3. /\ h2[n].type \in Types /\ h2[n].first = NULL /\ h2[n].last = NULL /\ h2[n].fatt = NULL
        /\ h2[n].latt = NULL /\ h2[n].next = NULL /\ h2[n].parent = NULL
        /\ h2[n].prev \in 0..n
    BY <1>0, <1>2 DEF AttInserted, NULL, Types
  <2>4. NULL \in 0..n
    BY <1>0 DEF NULL
  <2>5. QED BY <1>0, <2>1, <2>2, <2>3, <2>4 DEF Shape
<1>5. kids2 \in [1..n -> SUBSET (1..n)] /\ atts2 \in [1..n -> SUBSET (1..n)]
  BY <1>0, <1>1
<1>6. ASSUME NEW t \in 1..n
      PROVE  /\ Chain(h2, kids2[t], h2[t].first, h2[t].last)
             /\ Chain(h2, atts2[t], h2[t].fatt, h2[t].latt)
             /\ \A x \in kids2[t] : h2[x].parent = t /\ h2[x].type # "ATTRIB"
             /\ \A x \in atts2[t] : h2[x].type = "ATTRIB"
  <2>1. CASE t = n
    <3>1. kids2[t] = {} /\ atts2[t] = {} /\ h2[t].first = NULL /\ h2[t].last = NULL
          /\ h2[t].fatt = NULL /\ h2[t].latt = NULL
      BY <2>1 DEF AttInserted
    <3> HIDE DEF kids2, atts2
    <3>2. QED BY <3>1 DEF Chain
  <2>2. CASE t # n
    <3>1. t \in 1..Len(h) /\ kids2[t] = kids[t] /\ h2[t].first = h[t].first /\ h2[t].last = h[t].last
      BY <1>0, <2>2 DEF AttInserted
    <3>2. /\ Chain(h, kids[t], h[t].first, h[t].last)
          /\ Chain(h, atts[t], h[t].fatt, h[t].latt)
          /\ \A x \in kids[t] : h[x].parent = t /\ h[x].type # "ATTRIB"
          /\ \A x \in atts[t] : h[x].type = "ATTRIB"
      BY <3>1 DEF Good
    <3>3. \A x \in kids[t] : /\ h2[x].next = h[x].next /\ h2[x].prev = h[x].prev
                             /\ h2[x].parent = t /\ h2[x].type # "ATTRIB"
      BY <1>1, <1>2, <3>1, <3>2 DEF AttInserted
    <3>4. Chain(h2, kids2[t], h2[t].first, h2[t].last)
      BY <3>1, <3>2, <3>3, ChainFrame
    <3>5. CASE t # p
      <4>1. atts2[t] = atts[t] /\ h2[t].fatt = h[t].fatt /\ h2[t].latt = h[t].latt
        BY <2>2, <3>1, <3>5 DEF AttInserted
      <4>2. atts[t] \cap atts[p] = {}
        BY <3>1, <3>5 DEF Good
      <4>3. \A x \in atts[t] : h2[x].next = h[x].next /\ h2[x].prev = h[x].prev
                               /\ h2[x].type = h[x].type
        BY <1>1, <1>2, <3>1, <4>2 DEF AttInserted
      <4> HIDE DEF kids2, atts2
      <4>4. Chain(h2, atts2[t], h2[t].fatt, h2[t].latt)
        BY <3>2, <4>1, <4>3, ChainFrame
      <4>5. QED BY <3>1, <3>2, <3>3, <3>4, <4>1, <4>3, <4>4
    <3>6. CASE t = p
      <4>1. /\ atts2[t] = atts[t] \cup {n}
            /\ h2[t].fatt = IF h[t].fatt = NULL THEN n ELSE h[t].fatt
            /\ h2[t].latt = n
        BY <2>2, <3>1, <3>6 DEF AttInserted
      <4>2. \A x \in atts[t] :
              /\ h2[x].next = IF h[t].fatt # NULL /\ x = h[t].latt THEN n ELSE h[x].next
              /\ h2[x].prev = h[x].prev
              /\ h2[x].type = h[x].type
        BY <1>1, <3>1, <3>6 DEF AttInserted
      <4>3. /\ h2[n].next = NULL
            /\ h2[n].prev = IF h[t].fatt = NULL THEN NULL ELSE h[t].latt
            /\ h2[n].type = "ATTRIB"
        BY <3>6 DEF AttInserted
      <4>4. NULL \notin atts[t] /\ n \notin atts[t]
        BY <1>0, <1>1, <3>1
      <4> HIDE DEF n, kids2, atts2
      <4>5. Chain(h2, atts[t] \cup {n}, IF h[t].fatt = NULL THEN n ELSE h[t].fatt, n)
        <5>1. Chain(h, atts[t], h[t].fatt, h[t].latt)
          BY <3>2
        <5>2. LinkedBehind(h, h2, atts[t], h[t].fatt, h[t].latt, n)
          BY <4>2, <4>3 DEF LinkedBehind
        <5>3. QED BY ONLY <1>0, <4>4, <5>1, <5>2, ChainAppend
      <4>6. \A x \in atts2[t] : h2[x].type = "ATTRIB"
        BY <3>2, <4>1, <4>2, <4>3
      <4>7. Chain(h2, atts2[t], h2[t].fatt, h2[t].latt)
        BY <4>1, <4>5
      <4>8. QED BY <3>1, <3>3, <3>4, <4>6, <4>7
    <3>7. QED BY <3>5, <3>6
  <2>3. QED BY <2>1, <2>2
<1>7. \A t, u \in 1..n : t # u => atts2[t] \cap atts2[u] = {}
  <2>1. \A t, u \in 1..Len(h) : t # u => atts[t] \cap atts[u] = {}
    BY DEF Good
  <2>2. \A t \in 1..Len(h) : n \notin atts[t]
    BY <1>0, <1>1
  <2>3. \A t \in 1..n : t \in 1..Len(h) \/ t = n
    BY ONLY <1>0
  <2>4. \A t \in 1..n : atts2[t] = IF t = n THEN {} ELSE IF t = p THEN atts[p] \cup {n} ELSE atts[t]
    OBVIOUS
  <2> HIDE DEF n, atts2
  <2>5. QED BY ONLY <2>1, <2>2, <2>3, <2>4
<1>8. ASSUME NEW x \in 1..n, h2[x].parent = NULL, h2[x].type # "ATTRIB"
      PROVE  h2[x].next = NULL /\ h2[x].prev = NULL
  <2>1. x # n /\ x \in 1..Len(h)
    BY <1>0, <1>8 DEF AttInserted
  <2>2. h[x].parent = NULL /\ h[x].type # "ATTRIB"
    BY <1>8, <2>1 DEF AttInserted
  <2>3. h[x].next = NULL /\ h[x].prev = NULL
    BY <2>1, <2>2 DEF Good
  <2>4. QED BY <1>2, <2>1, <2>2, <2>3 DEF AttInserted
<1>9. Len(h2) = n
  BY DEF AttInserted
<1>10. Good(h2, kids2, atts2)
  <2> HIDE DEF n, kids2, atts2
  <2> QED BY <1>4, <1>5, <1>6, <1>7, <1>8, <1>9 DEF Good
<1>11. \A t \in 1..Len(h) : kids[t] \ {} \subseteq kids2[t]
  BY <1>0
<1>12. QED
  <2> HIDE DEF kids2, atts2
  <2> QED BY <1>10, <1>11 DEF ListsKept

\* A new attribute as a step of a copy.
LEMMA AttFollows ==
  ASSUME NEW h, NEW kids, NEW atts, NEW r, Good(h, kids, atts), RankedBy(h, r), NEW p \in 1..Len(h),
         NEW h2, AttInserted(h, h2, p)
  PROVE  Follows(h, kids, r, h2, {})
<1>1. ListsKept(h, kids, h2, {})
  BY AttKeeps
<1>2. RankKept(h, r, h2)
  <2> DEFINE n == Len(h) + 1
  <2>1. Shape(h) /\ Len(h2) = n
    BY DEF Good, AttInserted
  <2>2. h2[n].next = NULL /\ h2[n].first = NULL /\ h2[n].fatt = NULL
    BY DEF AttInserted
  <2>3. \A x \in 1..Len(h) : /\ h2[x].next = h[x].next \/ h2[x].next = n
                             /\ h2[x].first = h[x].first \/ h2[x].first = n
                             /\ h2[x].fatt = h[x].fatt \/ h2[x].fatt = n
    BY DEF AttInserted
  <2>4. QED BY <2>1, <2>2, <2>3, RankGrows
<1>3. Len(h) \in Nat /\ Len(h) <= Len(h2)
  <2>1. Len(h) \in Nat /\ Len(h2) = Len(h) + 1
    BY HeapLength DEF Good, Shape, AttInserted
  <2>2. QED BY ONLY <2>1
<1>4. ASSUME NEW x \in 1..Len(h)
      PROVE  /\ h2[x].type = h[x].type
             /\ Pointer(h2, h2[x].prev) = "CDATA" => Pointer(h, h[x].prev) = "CDATA"
  <2>1. h2[x].prev = h[x].prev /\ h2[x].type = h[x].type
    BY DEF AttInserted
  <2>2. h[x].prev \in 0..Len(h)
    BY DEF Good, Shape
  <2>3. h[x].prev = NULL \/ h[x].prev \in 1..Len(h)
    BY <1>3, <2>2 DEF NULL
  <2>4. QED BY <2>1, <2>3 DEF AttInserted, Pointer
<1>5. QED BY <1>1, <1>2, <1>3, <1>4 DEF Follows

\* A search finds nothing or one of the nodes it is given.
LEMMA SearchIs ==
  ASSUME NEW h, Shape(h), NEW M \in SUBSET (1..Len(h)), NEW f \in 0..Len(h), NEW l, Chain(h, M, f, l),
         NEW name, NEW type, search(h, f, name, type) # NULL
  PROVE  search(h, f, name, type) \in M
<1> DEFINE hits == {k \in DOMAIN h : h[k].type = type /\ h[k].name = name}
           xs == Siblings(h, f)
<1>1. xs \in Seq(M)
  BY ListIsLinked DEF ReadsAs
<1>2. search(h, f, name, type) = FirstOf(xs, hits)
  BY DEF search
<1> HIDE DEF xs, hits
<1>3. QED BY <1>1, <1>2, FirstOfIs

\* xmlnode_put_attrib: a new value, or a new attribute.
LEMMA PutAttribFollows ==
  ASSUME NEW h, NEW kids, NEW atts, NEW r, Good(h, kids, atts), RankedBy(h, r), 
         NEW p \in 1..Len(h), NEW name, NEW value
  PROVE  Follows(h, kids, r, put_attrib(h, p, name, value), {})
<1> DEFINE n == Len(h) + 1
           old == search(h, h[p].fatt, name, "ATTRIB")
           h2 == put_attrib(h, p, name, value)
<1>0. Len(h) \in Nat /\ p \in 1..n /\ n \in 1..n /\ n \notin 1..Len(h) /\ p # n
  <2>1. Len(h) \in Nat
    BY HeapLength DEF Good, Shape
  <2>2. QED BY ONLY <2>1, p \in 1..Len(h)
<1>a. /\ "first" \in Fields /\ "last" \in Fields /\ "next" \in Fields /\ "parent" \in Fields
      /\ "type" \in Fields /\ "prev" \in Fields /\ "fatt" \in Fields /\ "latt" \in Fields
      /\ "data" \in Fields
  BY DEF Fields
<1>b. Shape(h) /\ IsHeap(h) /\ atts[p] \in SUBSET (1..Len(h)) /\ h[p].fatt \in 0..Len(h)
      /\ Chain(h, atts[p], h[p].fatt, h[p].latt)
  BY DEF Good, Shape
<1>1. ASSUME NEW b, Follows(h, kids, r, b, {}), NEW a \in 1..Len(b)
      PROVE  Follows(h, kids, r, SetTo(b, a, "data", value), {})
  <2>1. PICK k2, a2 : Good(b, k2, a2)
    BY <1>1 DEF Follows, ListsKept
  <2>2. IsHeap(b)
    BY <2>1 DEF Good, Shape
  <2>3. Put(b, SetTo(b, a, "data", value), a, "data", value)
    BY <1>a, <2>2, PutIs
  <2>4. QED BY <1>1, <1>b, <2>3, FollowsData
<1>2. CASE old # NULL
  <2>1. old \in atts[p] /\ old \in 1..Len(h)
    BY <1>b, <1>2, SearchIs
  <2>2. h2 = [h EXCEPT ![old].data = value]
    BY <1>2 DEF put_attrib
  <2> HIDE DEF old, h2
  <2>3. h2 = SetTo(h, old, "data", value)
    BY <2>2 DEF SetTo
  <2>4. Follows(h, kids, r, h, {})
    BY FollowsSame
  <2>5. QED BY <1>1, <2>1, <2>3, <2>4 DEF h2
<1>3. CASE old = NULL /\ h[p].fatt = NULL
  <2> DEFINE m == new(h, name, "ATTRIB")
             a == SetTo(m, p, "fatt", n)
             b == SetTo(a, p, "latt", n)
  <2>1. Grows(h, m, Node("ATTRIB", name))
    BY <1>b, NewIs
  <2>2. h2 = [m EXCEPT ![p].fatt = n, ![p].latt = n, ![n].data = value]
    BY <1>3 DEF put_attrib
  <2> HIDE DEF m, h2, old
  <2>3. Put(m, a, p, "fatt", n)
    BY <1>0, <1>a, <2>1, PutIs DEF Grows
  <2>4. a = [m EXCEPT ![p].fatt = n]
    BY DEF SetTo
  <2> HIDE DEF a
  <2>5. Put(a, b, p, "latt", n)
    BY <1>0, <1>a, <2>1, <2>3, PutIs DEF Grows, Put
  <2>6. b = [a EXCEPT ![p].latt = n]
    BY DEF SetTo
  <2> HIDE DEF b
  <2>7. h2 = [b EXCEPT ![n].data = value]
    BY <2>2, <2>4, <2>6
  <2>8. h2 = SetTo(b, n, "data", value)
    BY <2>7 DEF SetTo
  <2>9. /\ Len(m) = n /\ Len(a) = n /\ Len(b) = n /\ IsHeap(b)
        /\ \A x \in 1..Len(h) : m[x] = h[x] /\ x \in 1..n
    BY <1>0, <2>1, <2>3, <2>5 DEF Put, Grows
  <2>10. LET z == m[n] IN
           /\ z.type = "ATTRIB" /\ z.next = NULL /\ z.prev = NULL /\ z.parent = NULL
           /\ z.first = NULL /\ z.last = NULL /\ z.fatt = NULL /\ z.latt = NULL
    BY <2>1, NodeIs DEF Grows
  <2>11. ASSUME NEW x \in 1..n, NEW f \in Fields
         PROVE  b[x][f] = IF x = p /\ f = "latt" THEN n ELSE IF x = p /\ f = "fatt" THEN n ELSE m[x][f]
    BY <1>0, <2>3, <2>5, <2>9 DEF Put
  <2>12. /\ b[n].type = "ATTRIB" /\ b[n].parent = NULL /\ b[n].next = NULL /\ b[n].prev = NULL
         /\ b[n].first = NULL /\ b[n].last = NULL /\ b[n].fatt = NULL /\ b[n].latt = NULL
    BY <1>0, <1>a, <2>10, <2>11
  <2>13. ASSUME NEW x \in 1..Len(h)
         PROVE  /\ b[x].type = h[x].type /\ b[x].parent = h[x].parent /\ b[x].prev = h[x].prev
                /\ b[x].first = h[x].first /\ b[x].last = h[x].last /\ b[x].next = h[x].next
                /\ b[x].fatt = IF x = p THEN n ELSE h[x].fatt
                /\ b[x].latt = IF x = p THEN n ELSE h[x].latt
    BY <1>0, <1>a, <2>9, <2>11
  <2>14. AttInserted(h, b, p)
    BY <1>3, <2>9, <2>12, <2>13 DEF AttInserted
  <2>15. Follows(h, kids, r, b, {}) /\ n \in 1..Len(b)
    BY <1>0, <2>9, <2>14, AttFollows
  <2>16. QED BY <1>1, <2>8, <2>15 DEF h2
<1>4. CASE old = NULL /\ h[p].fatt # NULL
  <2> DEFINE l == h[p].latt
             a == append_sibling(h, l, name, "ATTRIB")
             b == SetTo(a, p, "latt", n)
  <2>0. l \in 1..Len(h)
    BY <1>b, <1>4 DEF Chain
  <2>1. PICK m, z : /\ IsNode(z) /\ z.type = "ATTRIB" /\ z.parent = NULL /\ z.first = NULL
                    /\ z.last = NULL /\ z.next = NULL /\ z.prev = l /\ z.fatt = NULL
                    /\ z.latt = NULL
                    /\ Grows(h, m, z) /\ Put(m, a, l, "next", Len(h) + 1)
    <3> HIDE DEF l
    <3>1. QED BY <1>b, <2>0, AppendSiblingIs
  <2>2. h2 = [a EXCEPT ![p].latt = n, ![n].data = value]
    BY <1>4 DEF put_attrib
  <2> HIDE DEF a, h2, old, l
  <2>3. IsHeap(a) /\ Len(a) = n
    BY <2>1 DEF Put, Grows
  <2>5. Put(a, b, p, "latt", n)
    BY <1>0, <1>a, <2>3, PutIs
  <2>6. b = [a EXCEPT ![p].latt = n]
    BY DEF SetTo
  <2> HIDE DEF b
  <2>7. h2 = [b EXCEPT ![n].data = value]
    BY <2>2, <2>6
  <2>8. h2 = SetTo(b, n, "data", value)
    BY <2>7 DEF SetTo
  <2>9. /\ Len(m) = n /\ Len(b) = n /\ IsHeap(b)
        /\ \A x \in 1..Len(h) : m[x] = h[x] /\ x \in 1..n
    BY <1>0, <2>1, <2>3, <2>5 DEF Put, Grows
  <2>10. m[n] = z /\ l # n /\ l \in 1..n
    BY <1>0, <2>0, <2>1 DEF Grows
  <2>11. ASSUME NEW x \in 1..n, NEW f \in Fields
         PROVE  b[x][f] = IF x = p /\ f = "latt" THEN n ELSE IF x = l /\ f = "next" THEN n ELSE m[x][f]
    BY <1>0, <2>1, <2>3, <2>5, <2>9 DEF Put
  <2>12. /\ b[n].type = "ATTRIB" /\ b[n].parent = NULL /\ b[n].next = NULL /\ b[n].prev = l
         /\ b[n].first = NULL /\ b[n].last = NULL /\ b[n].fatt = NULL /\ b[n].latt = NULL
    BY <1>0, <1>a, <2>1, <2>10, <2>11
  <2>13. ASSUME NEW x \in 1..Len(h)
         PROVE  /\ b[x].type = h[x].type /\ b[x].parent = h[x].parent /\ b[x].prev = h[x].prev
                /\ b[x].first = h[x].first /\ b[x].last = h[x].last
                /\ b[x].next = IF x = l THEN n ELSE h[x].next
                /\ b[x].fatt = h[x].fatt
                /\ b[x].latt = IF x = p THEN n ELSE h[x].latt
    BY <1>0, <1>a, <2>9, <2>11
  <2>14. AttInserted(h, b, p)
    BY <1>4, <2>9, <2>12, <2>13 DEF AttInserted, l
  <2>15. Follows(h, kids, r, b, {}) /\ n \in 1..Len(b)
    BY <1>0, <2>9, <2>14, AttFollows
  <2>16. QED BY <1>1, <2>8, <2>15 DEF h2
<1>5. QED BY <1>2, <1>3, <1>4

-----------------------------------------------------------------------------
\* Hiding

\* x leaves its list, and nothing else happens.
SiblingHidden(h, h2, x) ==
  /\ IsHeap(h2) /\ Len(h2) = Len(h)
  /\ \A y \in 1..Len(h) :
       /\ h2[y].next = IF y = h[x].prev THEN h[x].next ELSE h[y].next
       /\ h2[y].prev = IF y = h[x].next THEN h[x].prev ELSE h[y].prev
  /\ \A y \in 1..Len(h), f \in Fields : f # "next" /\ f # "prev" => h2[y][f] = h[y][f]

\* _xmlnode_hide_sibling: what it sets.
LEMMA HideSiblingIs ==
  ASSUME NEW h, Shape(h), NEW x \in 1..Len(h)
  PROVE  SiblingHidden(h, hide_sibling(h, x), x)
<1> DEFINE p == h[x].prev
           n == h[x].next
           a == IF p = NULL THEN h ELSE [h EXCEPT ![p].next = n]
           b == hide_sibling(h, x)
<1>0. IsHeap(h) /\ Len(h) \in Nat
  BY HeapLength DEF Shape
<1>1. /\ p \in 0..Len(h) /\ n \in 0..Len(h)
      /\ p # NULL => p \in 1..Len(h)
      /\ n # NULL => n \in 1..Len(h)
  <2>1. p \in 0..Len(h) /\ n \in 0..Len(h)
    BY DEF Shape
  <2> HIDE DEF p, n
  <2>2. QED BY ONLY <1>0, <2>1 DEF NULL
<1>a. "next" \in Fields /\ "prev" \in Fields /\ NULL \notin 1..Len(h) /\ "next" # "prev"
  BY <1>0 DEF Fields, NULL
<1>2. b = IF n = NULL THEN a ELSE [a EXCEPT ![n].prev = p]
  BY DEF hide_sibling
<1> HIDE DEF p, n, b
<1>3. /\ IsHeap(a) /\ Len(a) = Len(h)
      /\ \A y \in 1..Len(h) : a[y].next = IF y = p THEN n ELSE h[y].next
      /\ \A y \in 1..Len(h), f \in Fields : f # "next" => a[y][f] = h[y][f]
  <2>1. CASE p = NULL
    BY <1>0, <1>a, <2>1
  <2>2. CASE p # NULL
    <3>1. a = SetTo(h, p, "next", n)
      BY <2>2 DEF SetTo
    <3> HIDE DEF a
    <3>2. Put(h, a, p, "next", n)
      BY <1>0, <1>1, <1>a, <2>2, <3>1, PutIs
    <3>3. QED BY <1>a, <3>2 DEF Put
  <2>3. QED BY <2>1, <2>2
<1> HIDE DEF a
<1>4. /\ IsHeap(b) /\ Len(b) = Len(h)
      /\ \A y \in 1..Len(h) : b[y].prev = IF y = n THEN p ELSE a[y].prev
      /\ \A y \in 1..Len(h), f \in Fields : f # "prev" => b[y][f] = a[y][f]
  <2>1. CASE n = NULL
    BY <1>0, <1>2, <1>3, <1>a, <2>1
  <2>2. CASE n # NULL
    <3>1. b = SetTo(a, n, "prev", p)
      BY <1>2, <2>2 DEF SetTo
    <3>2. Put(a, b, n, "prev", p)
      BY <1>1, <1>3, <1>a, <2>2, <3>1, PutIs
    <3>3. QED BY <1>3, <1>a, <3>2 DEF Put
  <2>3. QED BY <2>1, <2>2
<1>5. ASSUME NEW y \in 1..Len(h)
      PROVE  /\ b[y].next = IF y = p THEN n ELSE h[y].next
             /\ b[y].prev = IF y = n THEN p ELSE h[y].prev
  <2>1. b[y]["next"] = a[y]["next"] /\ a[y]["prev"] = h[y]["prev"]
    BY <1>3, <1>4, <1>a
  <2>2. QED BY <1>3, <1>4, <2>1
<1>6. ASSUME NEW y \in 1..Len(h), NEW f \in Fields, f # "next", f # "prev" PROVE b[y][f] = h[y][f]
  BY <1>3, <1>4, <1>6
<1>7. QED BY <1>4, <1>5, <1>6 DEF SiblingHidden, p, n, b

\* The child x of p is hidden.
Hidden(h, h2, p, x) ==
  /\ IsHeap(h2) /\ Len(h2) = Len(h)
  /\ \A y \in 1..Len(h) :
       /\ h2[y].type = h[y].type /\ h2[y].parent = h[y].parent
       /\ h2[y].fatt = h[y].fatt /\ h2[y].latt = h[y].latt
       /\ h2[y].next = IF y = h[x].prev THEN h[x].next ELSE h[y].next
       /\ h2[y].prev = IF y = h[x].next THEN h[x].prev ELSE h[y].prev
       /\ h2[y].first = IF y = p /\ h[p].first = x THEN h[x].next ELSE h[y].first
       /\ h2[y].last = IF y = p /\ h[p].last = x THEN h[x].prev ELSE h[y].last

\* A hidden child leaves the list of its parent.
LEMMA HiddenKeeps ==
  ASSUME NEW h, NEW kids, NEW atts, Good(h, kids, atts), NEW p \in 1..Len(h), NEW x \in kids[p],
         NEW h2, Hidden(h, h2, p, x)
  PROVE  ListsKept(h, kids, h2, {x})
<1> DEFINE kids2 == [kids EXCEPT ![p] = @ \ {x}]
<1>0. Len(h) \in Nat /\ NULL \notin 1..Len(h)
  <2>1. Len(h) \in Nat
    BY HeapLength DEF Good, Shape
  <2>2. QED BY ONLY <2>1 DEF NULL
<1>1. \A t \in 1..Len(h) : /\ kids[t] \subseteq 1..Len(h) /\ atts[t] \subseteq 1..Len(h)
                           /\ Chain(h, kids[t], h[t].first, h[t].last)
                           /\ Chain(h, atts[t], h[t].fatt, h[t].latt)
                           /\ \A y \in kids[t] : h[y].parent = t /\ h[y].type # "ATTRIB"
                           /\ \A y \in atts[t] : h[y].type = "ATTRIB"
  BY DEF Good
<1>2. /\ x \in 1..Len(h)
      /\ h[x].next # NULL => h[x].next \in kids[p] /\ h[h[x].next].prev = x
      /\ h[x].prev # NULL => h[x].prev \in kids[p] /\ h[h[x].prev].next = x
  BY <1>1 DEF Chain
<1>3. \A y \in 1..Len(h) : h[y].next = NULL \/ h[y].next > y
  BY DEF Good, Shape
<1>4. h[x].next # x /\ h[x].prev # x
  <2>1. h[x].next # x
    <3>1. x # NULL /\ x \in Nat /\ (h[x].next = NULL \/ h[x].next > x)
      BY <1>0, <1>2, <1>3
    <3>2. QED BY <3>1
  <2>2. h[x].prev # x
    BY <1>0, <1>2, <2>1
  <2>3. QED BY <2>1, <2>2
<1>5. \A y \in 1..Len(h) : h[y].first \in 0..Len(h) /\ h[y].last \in 0..Len(h)
                           /\ h[y].next \in 0..Len(h) /\ h[y].prev \in 0..Len(h)
  BY DEF Good, Shape
<1>6. Shape(h2)
  <2>1. ASSUME NEW y \in 1..Len(h) PROVE h2[y].next = NULL \/ h2[y].next > y
    <3>1. CASE y # h[x].prev
      BY <1>3, <3>1 DEF Hidden
    <3>2. CASE y = h[x].prev
      <4>1. h2[y].next = h[x].next /\ h[y].next = x /\ y # NULL
        BY <1>0, <1>2, <3>2 DEF Hidden
      <4>2. y \in Nat /\ x \in Nat /\ x # NULL /\ (h[x].next = NULL \/ h[x].next > x) /\ x > y
            /\ h[x].next \in Nat
        BY <1>0, <1>2, <1>3, <1>5, <4>1
      <4>3. QED BY ONLY <4>1, <4>2
    <3>3. QED BY <3>1, <3>2
  <2>2. ASSUME NEW y \in 1..Len(h)
        PROVE  /\ h2[y].type \in Types
               /\ h2[y].first \in 0..Len(h) /\ h2[y].last \in 0..Len(h)
               /\ h2[y].fatt \in 0..Len(h) /\ h2[y].latt \in 0..Len(h)
               /\ h2[y].next \in 0..Len(h) /\ h2[y].prev \in 0..Len(h) /\ h2[y].parent \in 0..Len(h)
    <3>1. /\ h[y].type \in Types
          /\ h[y].fatt \in 0..Len(h) /\ h[y].latt \in 0..Len(h) /\ h[y].parent \in 0..Len(h)
      BY DEF Good, Shape
    <3>2. /\ h2[y].type = h[y].type /\ h2[y].parent = h[y].parent
          /\ h2[y].fatt = h[y].fatt /\ h2[y].latt = h[y].latt
          /\ h2[y].first = h[y].first \/ h2[y].first = h[x].next
          /\ h2[y].last = h[y].last \/ h2[y].last = h[x].prev
          /\ h2[y].next = h[y].next \/ h2[y].next = h[x].next
          /\ h2[y].prev = h[y].prev \/ h2[y].prev = h[x].prev
      BY DEF Hidden
    <3>3. QED BY ONLY <1>2, <1>5, <3>1, <3>2, y \in 1..Len(h)
  <2>3. QED BY <2>1, <2>2 DEF Shape, Hidden
<1>7. kids2 \in [1..Len(h) -> SUBSET (1..Len(h))] /\ atts \in [1..Len(h) -> SUBSET (1..Len(h))]
      /\ kids2[p] = kids[p] \ {x} /\ \A t \in 1..Len(h) : t # p => kids2[t] = kids[t]
  BY DEF Good
<1> HIDE DEF kids2
<1>8. ASSUME NEW t \in 1..Len(h)
      PROVE  /\ Chain(h2, kids2[t], h2[t].first, h2[t].last)
             /\ Chain(h2, atts[t], h2[t].fatt, h2[t].latt)
             /\ \A y \in kids2[t] : h2[y].parent = t /\ h2[y].type # "ATTRIB"
             /\ \A y \in atts[t] : h2[y].type = "ATTRIB"
  <2>1. \A y \in atts[t] : y \in 1..Len(h) /\ y # h[x].prev /\ y # h[x].next
    BY <1>0, <1>1, <1>2
  <2>2. \A y \in atts[t] : h2[y].next = h[y].next /\ h2[y].prev = h[y].prev
    BY <2>1 DEF Hidden
  <2>3. Chain(h2, atts[t], h2[t].fatt, h2[t].latt)
    <3>1. Chain(h2, atts[t], h[t].fatt, h[t].latt)
      BY <1>1, <2>2, ChainFrame
    <3>2. QED BY <3>1 DEF Hidden
  <2>4. \A y \in atts[t] : h2[y].type = "ATTRIB"
    BY <1>1, <2>1 DEF Hidden
  <2>5. kids2[t] \subseteq kids[t]
    BY <1>7
  <2>6. \A y \in kids2[t] : h2[y].parent = t /\ h2[y].type # "ATTRIB"
    <3>1. \A y \in kids2[t] : y \in 1..Len(h) /\ h[y].parent = t /\ h[y].type # "ATTRIB"
      BY <1>1, <2>5
    <3>2. QED BY <3>1 DEF Hidden
  <2>7. CASE t # p
    <3>1. \A y \in kids[t] : y \in 1..Len(h) /\ y # h[x].prev /\ y # h[x].next
      BY <1>0, <1>1, <1>2, <2>7
    <3>2. \A y \in kids[t] : h2[y].next = h[y].next /\ h2[y].prev = h[y].prev
      BY <3>1 DEF Hidden
    <3>3. Chain(h2, kids[t], h[t].first, h[t].last)
      BY <1>1, <3>2, ChainFrame
    <3>4. kids2[t] = kids[t] /\ h2[t].first = h[t].first /\ h2[t].last = h[t].last
      BY <1>7, <2>7 DEF Hidden
    <3>5. QED BY <2>3, <2>4, <2>6, <3>3, <3>4
  <2>8. CASE t = p
    <3>1. Unlinked(h, h2, kids[p], x)
      BY <1>1 DEF Hidden, Unlinked
    <3>2. NULL \notin kids[p] /\ Chain(h, kids[p], h[p].first, h[p].last)
      BY <1>0, <1>1
    <3>3. Chain(h2, kids[p] \ {x}, IF h[p].first = x THEN h[x].next ELSE h[p].first,
                                   IF h[p].last = x THEN h[x].prev ELSE h[p].last)
      BY <1>4, <3>1, <3>2, ChainRemove
    <3>4. Chain(h2, kids2[p], h2[p].first, h2[p].last)
      <4>1. /\ h2[p].first = IF h[p].first = x THEN h[x].next ELSE h[p].first
            /\ h2[p].last = IF h[p].last = x THEN h[x].prev ELSE h[p].last
        BY DEF Hidden
      <4>2. QED BY <1>7, <3>3, <4>1
    <3>5. QED BY <2>3, <2>4, <2>6, <2>8, <3>4
  <2>9. QED BY <2>7, <2>8
<1>9. ASSUME NEW y \in 1..Len(h), h2[y].parent = NULL, h2[y].type # "ATTRIB"
      PROVE  h2[y].next = NULL /\ h2[y].prev = NULL
  <2>1. h[y].parent = NULL /\ h[y].type # "ATTRIB"
    BY <1>9 DEF Hidden
  <2>2. h[y].next = NULL /\ h[y].prev = NULL
    BY <2>1 DEF Good
  <2>3. y \notin kids[p] /\ y # NULL
    BY <1>0, <1>1, <2>1
  <2>4. QED BY <1>2, <2>2, <2>3 DEF Hidden
<1>10. Good(h2, kids2, atts)
  <2>1. Len(h2) = Len(h)
    BY DEF Hidden
  <2>2. \A t, u \in 1..Len(h) : t # u => atts[t] \cap atts[u] = {}
    BY DEF Good
  <2>3. QED BY <1>6, <1>7, <1>8, <1>9, <2>1, <2>2 DEF Good
<1>11. \A t \in 1..Len(h) : kids[t] \ {x} \subseteq kids2[t]
  BY <1>7
<1>12. QED BY <1>10, <1>11 DEF ListsKept

\* The attribute x of p is hidden.
AttHidden(h, h2, p, x) ==
  /\ IsHeap(h2) /\ Len(h2) = Len(h)
  /\ \A y \in 1..Len(h) :
       /\ h2[y].type = h[y].type /\ h2[y].parent = h[y].parent
       /\ h2[y].first = h[y].first /\ h2[y].last = h[y].last
       /\ h2[y].next = IF y = h[x].prev THEN h[x].next ELSE h[y].next
       /\ h2[y].prev = IF y = h[x].next THEN h[x].prev ELSE h[y].prev
       /\ h2[y].fatt = IF y = p /\ h[p].fatt = x THEN h[x].next ELSE h[y].fatt
       /\ h2[y].latt = IF y = p /\ h[p].latt = x THEN h[x].prev ELSE h[y].latt

\* A hidden attribute leaves the list of its owner.
LEMMA AttHiddenKeeps ==
  ASSUME NEW h, NEW kids, NEW atts, Good(h, kids, atts), NEW p \in 1..Len(h), NEW x \in atts[p],
         NEW h2, AttHidden(h, h2, p, x)
  PROVE  ListsKept(h, kids, h2, {})
<1> DEFINE atts2 == [atts EXCEPT ![p] = @ \ {x}]
<1>0. Len(h) \in Nat /\ NULL \notin 1..Len(h)
  <2>1. Len(h) \in Nat
    BY HeapLength DEF Good, Shape
  <2>2. QED BY ONLY <2>1 DEF NULL
<1>1. \A t \in 1..Len(h) : /\ kids[t] \subseteq 1..Len(h) /\ atts[t] \subseteq 1..Len(h)
                           /\ Chain(h, kids[t], h[t].first, h[t].last)
                           /\ Chain(h, atts[t], h[t].fatt, h[t].latt)
                           /\ \A y \in kids[t] : h[y].parent = t /\ h[y].type # "ATTRIB"
                           /\ \A y \in atts[t] : h[y].type = "ATTRIB"
  BY DEF Good
<1>2. /\ x \in 1..Len(h)
      /\ h[x].next # NULL => h[x].next \in atts[p] /\ h[h[x].next].prev = x
      /\ h[x].prev # NULL => h[x].prev \in atts[p] /\ h[h[x].prev].next = x
  BY <1>1 DEF Chain
<1>3. \A y \in 1..Len(h) : h[y].next = NULL \/ h[y].next > y
  BY DEF Good, Shape
<1>4. h[x].next # x /\ h[x].prev # x
  <2>1. h[x].next # x
    <3>1. x # NULL /\ x \in Nat /\ (h[x].next = NULL \/ h[x].next > x)
      BY <1>0, <1>2, <1>3
    <3>2. QED BY <3>1
  <2>2. h[x].prev # x
    BY <1>0, <1>2, <2>1
  <2>3. QED BY <2>1, <2>2
<1>5. \A y \in 1..Len(h) : h[y].fatt \in 0..Len(h) /\ h[y].latt \in 0..Len(h)
                           /\ h[y].next \in 0..Len(h) /\ h[y].prev \in 0..Len(h)
  BY DEF Good, Shape
<1>6. Shape(h2)
  <2>1. ASSUME NEW y \in 1..Len(h) PROVE h2[y].next = NULL \/ h2[y].next > y
    <3>1. CASE y # h[x].prev
      BY <1>3, <3>1 DEF AttHidden
    <3>2. CASE y = h[x].prev
      <4>1. h2[y].next = h[x].next /\ h[y].next = x /\ y # NULL
        BY <1>0, <1>2, <3>2 DEF AttHidden
      <4>2. y \in Nat /\ x \in Nat /\ x # NULL /\ (h[x].next = NULL \/ h[x].next > x) /\ x > y
            /\ h[x].next \in Nat
        BY <1>0, <1>2, <1>3, <1>5, <4>1
      <4>3. QED BY ONLY <4>1, <4>2
    <3>3. QED BY <3>1, <3>2
  <2>2. ASSUME NEW y \in 1..Len(h)
        PROVE  /\ h2[y].type \in Types
               /\ h2[y].first \in 0..Len(h) /\ h2[y].last \in 0..Len(h)
               /\ h2[y].fatt \in 0..Len(h) /\ h2[y].latt \in 0..Len(h)
               /\ h2[y].next \in 0..Len(h) /\ h2[y].prev \in 0..Len(h) /\ h2[y].parent \in 0..Len(h)
    <3>1. /\ h[y].type \in Types
          /\ h[y].first \in 0..Len(h) /\ h[y].last \in 0..Len(h) /\ h[y].parent \in 0..Len(h)
      BY DEF Good, Shape
    <3>2. /\ h2[y].type = h[y].type /\ h2[y].parent = h[y].parent
          /\ h2[y].first = h[y].first /\ h2[y].last = h[y].last
          /\ h2[y].fatt = h[y].fatt \/ h2[y].fatt = h[x].next
          /\ h2[y].latt = h[y].latt \/ h2[y].latt = h[x].prev
          /\ h2[y].next = h[y].next \/ h2[y].next = h[x].next
          /\ h2[y].prev = h[y].prev \/ h2[y].prev = h[x].prev
      BY DEF AttHidden
    <3>3. QED BY ONLY <1>2, <1>5, <3>1, <3>2, y \in 1..Len(h)
  <2>3. QED BY <2>1, <2>2 DEF Shape, AttHidden
<1>7. atts2 \in [1..Len(h) -> SUBSET (1..Len(h))] /\ kids \in [1..Len(h) -> SUBSET (1..Len(h))]
      /\ atts2[p] = atts[p] \ {x} /\ \A t \in 1..Len(h) : t # p => atts2[t] = atts[t]
  BY DEF Good
<1> HIDE DEF atts2
<1>8. ASSUME NEW t \in 1..Len(h)
      PROVE  /\ Chain(h2, kids[t], h2[t].first, h2[t].last)
             /\ Chain(h2, atts2[t], h2[t].fatt, h2[t].latt)
             /\ \A y \in kids[t] : h2[y].parent = t /\ h2[y].type # "ATTRIB"
             /\ \A y \in atts2[t] : h2[y].type = "ATTRIB"
  <2>1. \A y \in kids[t] : y \in 1..Len(h) /\ y # h[x].prev /\ y # h[x].next
    BY <1>0, <1>1, <1>2
  <2>2. \A y \in kids[t] : h2[y].next = h[y].next /\ h2[y].prev = h[y].prev
    BY <2>1 DEF AttHidden
  <2>3. Chain(h2, kids[t], h2[t].first, h2[t].last)
    <3>1. Chain(h2, kids[t], h[t].first, h[t].last)
      BY <1>1, <2>2, ChainFrame
    <3>2. QED BY <3>1 DEF AttHidden
  <2>4. \A y \in kids[t] : h2[y].parent = t /\ h2[y].type # "ATTRIB"
    BY <1>1, <2>1 DEF AttHidden
  <2>5. atts2[t] \subseteq atts[t]
    BY <1>7
  <2>6. \A y \in atts2[t] : h2[y].type = "ATTRIB"
    BY <1>1, <2>5 DEF AttHidden
  <2>7. CASE t # p
    <3>1. \A y \in atts[t] : y \in 1..Len(h) /\ y # h[x].prev /\ y # h[x].next
      <4>1. atts[t] \cap atts[p] = {}
        BY <2>7 DEF Good
      <4>2. QED BY <1>0, <1>1, <1>2, <4>1
    <3>2. \A y \in atts[t] : h2[y].next = h[y].next /\ h2[y].prev = h[y].prev
      BY <3>1 DEF AttHidden
    <3>3. Chain(h2, atts[t], h[t].fatt, h[t].latt)
      BY <1>1, <3>2, ChainFrame
    <3>4. atts2[t] = atts[t] /\ h2[t].fatt = h[t].fatt /\ h2[t].latt = h[t].latt
      BY <1>7, <2>7 DEF AttHidden
    <3>5. QED BY <2>3, <2>4, <2>6, <3>3, <3>4
  <2>8. CASE t = p
    <3>1. Unlinked(h, h2, atts[p], x)
      BY <1>1 DEF AttHidden, Unlinked
    <3>2. NULL \notin atts[p] /\ Chain(h, atts[p], h[p].fatt, h[p].latt)
      BY <1>0, <1>1
    <3>3. Chain(h2, atts[p] \ {x}, IF h[p].fatt = x THEN h[x].next ELSE h[p].fatt,
                                   IF h[p].latt = x THEN h[x].prev ELSE h[p].latt)
      BY <1>4, <3>1, <3>2, ChainRemove
    <3>4. Chain(h2, atts2[p], h2[p].fatt, h2[p].latt)
      <4>1. /\ h2[p].fatt = IF h[p].fatt = x THEN h[x].next ELSE h[p].fatt
            /\ h2[p].latt = IF h[p].latt = x THEN h[x].prev ELSE h[p].latt
        BY DEF AttHidden
      <4>2. QED BY <1>7, <3>3, <4>1
    <3>5. QED BY <2>3, <2>4, <2>6, <2>8, <3>4
  <2>9. QED BY <2>7, <2>8
<1>9. ASSUME NEW y \in 1..Len(h), h2[y].parent = NULL, h2[y].type # "ATTRIB"
      PROVE  h2[y].next = NULL /\ h2[y].prev = NULL
  <2>1. h[y].parent = NULL /\ h[y].type # "ATTRIB"
    BY <1>9 DEF AttHidden
  <2>2. h[y].next = NULL /\ h[y].prev = NULL
    BY <2>1 DEF Good
  <2>3. y \notin atts[p] /\ y # NULL
    BY <1>0, <1>1, <2>1
  <2>4. QED BY <1>2, <2>2, <2>3 DEF AttHidden
<1>10. Good(h2, kids, atts2)
  <2>1. Len(h2) = Len(h)
    BY DEF AttHidden
  <2>2. \A t, u \in 1..Len(h) : t # u => atts2[t] \cap atts2[u] = {}
    <3>1. \A t, u \in 1..Len(h) : t # u => atts[t] \cap atts[u] = {}
      BY DEF Good
    <3>2. \A t \in 1..Len(h) : atts2[t] \subseteq atts[t]
      BY <1>7
    <3>3. QED BY <3>1, <3>2
  <2>3. QED BY <1>6, <1>7, <1>8, <1>9, <2>1, <2>2 DEF Good
<1>11. QED BY <1>10 DEF ListsKept

\* Linking past a child leads further down.
LEMMA HiddenRank ==
  ASSUME NEW h, NEW kids, NEW atts, NEW r, Good(h, kids, atts), RankedBy(h, r),
         NEW p \in 1..Len(h), NEW x \in kids[p], NEW h2, Hidden(h, h2, p, x)
  PROVE  RankKept(h, r, h2)
<1>1. kids[p] \in SUBSET (1..Len(h)) /\ Chain(h, kids[p], h[p].first, h[p].last)
  BY DEF Good
<1>2. x \in 1..Len(h) /\ NULL \notin 1..Len(h)
  <2>1. Len(h) \in Nat
    BY HeapLength DEF Good, Shape
  <2>2. QED BY <1>1, <2>1 DEF NULL
<1>3. h[x].prev # NULL => h[x].prev \in 1..Len(h) /\ h[h[x].prev].next = x
  BY <1>1 DEF Chain
<1>4. /\ \A y \in 1..Len(h) : r[y] \in Nat
      /\ \A y \in 1..Len(h) : /\ h[y].next # NULL => r[h[y].next] < r[y]
                              /\ h[y].first # NULL => r[h[y].first] < r[y]
                              /\ h[y].fatt # NULL => r[h[y].fatt] < r[y]
  BY DEF RankedBy
<1>5. /\ h[x].next \in 0..Len(h)
      /\ h[x].next # NULL => h[x].next \in 1..Len(h) /\ r[h[x].next] < r[x]
  <2>1. h[x].next \in 0..Len(h)
    BY <1>2 DEF Good, Shape
  <2>2. Len(h) \in Nat
    BY HeapLength DEF Good, Shape
  <2>3. h[x].next # NULL => h[x].next \in 1..Len(h)
    BY <2>1, <2>2 DEF NULL
  <2>4. QED BY <1>2, <1>4, <2>1, <2>3
<1>6. ASSUME NEW y \in 1..Len(h), y = h[x].prev \/ (y = p /\ h[p].first = x), h[x].next # NULL
      PROVE  r[h[x].next] < r[y]
  <2>1. r[x] < r[y]
    BY <1>2, <1>3, <1>4, <1>6
  <2>2. r[h[x].next] < r[x] /\ r[x] \in Nat /\ r[y] \in Nat /\ r[h[x].next] \in Nat
    BY <1>2, <1>4, <1>5, <1>6
  <2>3. QED BY <2>1, <2>2
<1>7. ASSUME NEW y \in 1..Len(h)
      PROVE  /\ h2[y].next # NULL => r[h2[y].next] < r[y]
             /\ h2[y].first # NULL => r[h2[y].first] < r[y]
             /\ h2[y].fatt # NULL => r[h2[y].fatt] < r[y]
  <2>1. h2[y].next # NULL => r[h2[y].next] < r[y]
    BY <1>4, <1>6 DEF Hidden
  <2>2. h2[y].first # NULL => r[h2[y].first] < r[y]
    BY <1>4, <1>6 DEF Hidden
  <2>3. h2[y].fatt # NULL => r[h2[y].fatt] < r[y]
    BY <1>4 DEF Hidden
  <2>4. QED BY <2>1, <2>2, <2>3
<1>8. Len(h2) = Len(h)
  BY DEF Hidden
<1>9. QED BY <1>7, <1>8, RankStays

\* Linking past an attribute leads further down.
LEMMA AttHiddenRank ==
  ASSUME NEW h, NEW kids, NEW atts, NEW r, Good(h, kids, atts), RankedBy(h, r),
         NEW p \in 1..Len(h), NEW x \in atts[p], NEW h2, AttHidden(h, h2, p, x)
  PROVE  RankKept(h, r, h2)
<1>1. atts[p] \in SUBSET (1..Len(h)) /\ Chain(h, atts[p], h[p].fatt, h[p].latt)
  BY DEF Good
<1>2. x \in 1..Len(h) /\ NULL \notin 1..Len(h)
  <2>1. Len(h) \in Nat
    BY HeapLength DEF Good, Shape
  <2>2. QED BY <1>1, <2>1 DEF NULL
<1>3. h[x].prev # NULL => h[x].prev \in 1..Len(h) /\ h[h[x].prev].next = x
  BY <1>1 DEF Chain
<1>4. /\ \A y \in 1..Len(h) : r[y] \in Nat
      /\ \A y \in 1..Len(h) : /\ h[y].next # NULL => r[h[y].next] < r[y]
                              /\ h[y].first # NULL => r[h[y].first] < r[y]
                              /\ h[y].fatt # NULL => r[h[y].fatt] < r[y]
  BY DEF RankedBy
<1>5. /\ h[x].next \in 0..Len(h)
      /\ h[x].next # NULL => h[x].next \in 1..Len(h) /\ r[h[x].next] < r[x]
  <2>1. h[x].next \in 0..Len(h)
    BY <1>2 DEF Good, Shape
  <2>2. Len(h) \in Nat
    BY HeapLength DEF Good, Shape
  <2>3. h[x].next # NULL => h[x].next \in 1..Len(h)
    BY <2>1, <2>2 DEF NULL
  <2>4. QED BY <1>2, <1>4, <2>1, <2>3
<1>6. ASSUME NEW y \in 1..Len(h), y = h[x].prev \/ (y = p /\ h[p].fatt = x), h[x].next # NULL
      PROVE  r[h[x].next] < r[y]
  <2>1. r[x] < r[y]
    BY <1>2, <1>3, <1>4, <1>6
  <2>2. r[h[x].next] < r[x] /\ r[x] \in Nat /\ r[y] \in Nat /\ r[h[x].next] \in Nat
    BY <1>2, <1>4, <1>5, <1>6
  <2>3. QED BY <2>1, <2>2
<1>7. ASSUME NEW y \in 1..Len(h)
      PROVE  /\ h2[y].next # NULL => r[h2[y].next] < r[y]
             /\ h2[y].first # NULL => r[h2[y].first] < r[y]
             /\ h2[y].fatt # NULL => r[h2[y].fatt] < r[y]
  <2>1. h2[y].next # NULL => r[h2[y].next] < r[y]
    BY <1>4, <1>6 DEF AttHidden
  <2>2. h2[y].first # NULL => r[h2[y].first] < r[y]
    BY <1>4 DEF AttHidden
  <2>3. h2[y].fatt # NULL => r[h2[y].fatt] < r[y]
    BY <1>4, <1>6 DEF AttHidden
  <2>4. QED BY <2>1, <2>2, <2>3
<1>8. Len(h2) = Len(h)
  BY DEF AttHidden
<1>9. QED BY <1>7, <1>8, RankStays

\* xmlnode_hide of a child that is in the list.
LEMMA HideKeeps ==
  ASSUME NEW h, NEW kids, NEW atts, NEW r, Good(h, kids, atts), RankedBy(h, r),
         NEW p \in 1..Len(h), NEW x \in kids[p]
  PROVE  Kept(hide(h, x))
<1> DEFINE g == hide_sibling(h, x)
           v == IF g[p].first = x THEN h[x].next ELSE g[p].first
           a == SetTo(g, p, "first", v)
           w == IF a[p].last = x THEN h[x].prev ELSE a[p].last
           b == SetTo(a, p, "last", w)
<1>0. Shape(h) /\ IsHeap(h) /\ kids[p] \subseteq 1..Len(h) /\ h[x].parent = p /\ p # NULL
  <2>1. Shape(h) /\ kids[p] \subseteq 1..Len(h) /\ h[x].parent = p
    BY DEF Good
  <2>2. p # NULL
    BY <2>1, HeapLength DEF Shape, NULL
  <2>3. QED BY <2>1, <2>2 DEF Shape
<1>a. /\ "first" \in Fields /\ "last" \in Fields /\ "next" \in Fields /\ "parent" \in Fields
      /\ "type" \in Fields /\ "prev" \in Fields /\ "fatt" \in Fields /\ "latt" \in Fields
  BY DEF Fields
<1>1. SiblingHidden(h, g, x)
  BY <1>0, HideSiblingIs
<1>2. hide(h, x) = [g EXCEPT ![p].first = IF @ = x THEN h[x].next ELSE @,
                             ![p].last = IF @ = x THEN h[x].prev ELSE @]
  BY <1>0 DEF hide
<1> HIDE DEF g
<1>3. a = [g EXCEPT ![p].first = IF @ = x THEN h[x].next ELSE @]
  BY DEF SetTo
<1>4. Put(g, a, p, "first", v)
  <2> HIDE DEF v, a
  <2>1. IsHeap(g) /\ p \in 1..Len(g)
    BY <1>1 DEF SiblingHidden
  <2>2. QED BY <1>a, <2>1, PutIs DEF a
<1> HIDE DEF a
<1>5. b = [a EXCEPT ![p].last = IF @ = x THEN h[x].prev ELSE @]
  BY DEF SetTo
<1>6. hide(h, x) = b
  BY <1>2, <1>3, <1>5
<1>7. Put(a, b, p, "last", w)
  <2> HIDE DEF w, b
  <2>1. IsHeap(a) /\ p \in 1..Len(a)
    BY <1>1, <1>4 DEF SiblingHidden, Put
  <2>2. QED BY <1>a, <2>1, PutIs DEF b
<1> HIDE DEF b, v, w
<1>8. IsHeap(b) /\ Len(b) = Len(h) /\ Len(a) = Len(h) /\ Len(g) = Len(h)
  BY <1>1, <1>4, <1>7 DEF SiblingHidden, Put
<1>9. ASSUME NEW y \in 1..Len(h), NEW f \in Fields
      PROVE  b[y][f] = IF y = p /\ f = "last" THEN w ELSE IF y = p /\ f = "first" THEN v ELSE g[y][f]
  BY <1>4, <1>7, <1>8 DEF Put
<1>10. v = (IF h[p].first = x THEN h[x].next ELSE h[p].first)
  BY <1>1, <1>a DEF v, SiblingHidden
<1>11. w = (IF h[p].last = x THEN h[x].prev ELSE h[p].last)
  <2>1. a[p]["last"] = g[p]["last"]
    BY <1>4, <1>8, <1>a DEF Put
  <2>2. g[p]["last"] = h[p]["last"]
    BY <1>1, <1>a DEF SiblingHidden
  <2>3. QED BY <2>1, <2>2 DEF w
<1>12. ASSUME NEW y \in 1..Len(h)
       PROVE  /\ b[y].type = h[y].type /\ b[y].parent = h[y].parent
              /\ b[y].fatt = h[y].fatt /\ b[y].latt = h[y].latt
              /\ b[y].next = IF y = h[x].prev THEN h[x].next ELSE h[y].next
              /\ b[y].prev = IF y = h[x].next THEN h[x].prev ELSE h[y].prev
              /\ b[y].first = IF y = p THEN v ELSE h[y].first
              /\ b[y].last = IF y = p THEN w ELSE h[y].last
  BY <1>1, <1>9, <1>a DEF SiblingHidden
<1>13. Hidden(h, b, p, x)
  BY <1>8, <1>10, <1>11, <1>12 DEF Hidden
<1>14. ListsKept(h, kids, b, {x}) /\ RankKept(h, r, b)
  BY <1>13, HiddenKeeps, HiddenRank
<1>15. QED BY <1>6, <1>14, KeptBoth

\* xmlnode_hide_attrib, whether there is such an attribute or not.
LEMMA HideAttribKeeps ==
  ASSUME NEW h, NEW kids, NEW atts, NEW r, Good(h, kids, atts), RankedBy(h, r),
         NEW p \in 1..Len(h), NEW name
  PROVE  Kept(hide_attrib(h, p, name))
<1> DEFINE x == search(h, h[p].fatt, name, "ATTRIB")
           g == hide_sibling(h, x)
           v == IF g[p].fatt = x THEN h[x].next ELSE g[p].fatt
           a == SetTo(g, p, "fatt", v)
           w == IF a[p].latt = x THEN h[x].prev ELSE a[p].latt
           b == SetTo(a, p, "latt", w)
<1>0. Shape(h) /\ IsHeap(h) /\ atts[p] \in SUBSET (1..Len(h)) /\ h[p].fatt \in 0..Len(h)
      /\ Chain(h, atts[p], h[p].fatt, h[p].latt)
  BY DEF Good, Shape
<1>a. /\ "first" \in Fields /\ "last" \in Fields /\ "next" \in Fields /\ "parent" \in Fields
      /\ "type" \in Fields /\ "prev" \in Fields /\ "fatt" \in Fields /\ "latt" \in Fields
  BY DEF Fields
<1>b. CASE x = NULL
  BY <1>b DEF hide_attrib, Kept
<1>c. CASE x # NULL
  <2>1. x \in atts[p] /\ x \in 1..Len(h)
    BY <1>0, <1>c, SearchIs
  <2>2. SiblingHidden(h, g, x)
    BY <1>0, <2>1, HideSiblingIs
  <2>3. hide_attrib(h, p, name) = [g EXCEPT ![p].fatt = IF @ = x THEN h[x].next ELSE @,
                                            ![p].latt = IF @ = x THEN h[x].prev ELSE @]
    BY <1>c DEF hide_attrib
  <2> HIDE DEF g, x
  <2>4. a = [g EXCEPT ![p].fatt = IF @ = x THEN h[x].next ELSE @]
    BY DEF SetTo
  <2>5. Put(g, a, p, "fatt", v)
    <3> HIDE DEF v, a
    <3>1. IsHeap(g) /\ p \in 1..Len(g)
      BY <2>2 DEF SiblingHidden
    <3>2. QED BY <1>a, <3>1, PutIs DEF a
  <2> HIDE DEF a
  <2>6. b = [a EXCEPT ![p].latt = IF @ = x THEN h[x].prev ELSE @]
    BY DEF SetTo
  <2>7. hide_attrib(h, p, name) = b
    BY <2>3, <2>4, <2>6
  <2>8. Put(a, b, p, "latt", w)
    <3> HIDE DEF w, b
    <3>1. IsHeap(a) /\ p \in 1..Len(a)
      BY <2>2, <2>5 DEF SiblingHidden, Put
    <3>2. QED BY <1>a, <3>1, PutIs DEF b
  <2> HIDE DEF b, v, w
  <2>9. IsHeap(b) /\ Len(b) = Len(h) /\ Len(a) = Len(h) /\ Len(g) = Len(h)
    BY <2>2, <2>5, <2>8 DEF SiblingHidden, Put
  <2>10. ASSUME NEW y \in 1..Len(h), NEW f \in Fields
         PROVE  b[y][f] = IF y = p /\ f = "latt" THEN w ELSE IF y = p /\ f = "fatt" THEN v ELSE g[y][f]
    BY <2>5, <2>8, <2>9 DEF Put
  <2>11. v = (IF h[p].fatt = x THEN h[x].next ELSE h[p].fatt)
    BY <2>2, <1>a DEF v, SiblingHidden
  <2>12. w = (IF h[p].latt = x THEN h[x].prev ELSE h[p].latt)
    <3>1. a[p]["latt"] = g[p]["latt"]
      BY <1>a, <2>5, <2>9 DEF Put
    <3>2. g[p]["latt"] = h[p]["latt"]
      BY <1>a, <2>2 DEF SiblingHidden
    <3>3. QED BY <3>1, <3>2 DEF w
  <2>13. ASSUME NEW y \in 1..Len(h)
         PROVE  /\ b[y].type = h[y].type /\ b[y].parent = h[y].parent
                /\ b[y].first = h[y].first /\ b[y].last = h[y].last
                /\ b[y].next = IF y = h[x].prev THEN h[x].next ELSE h[y].next
                /\ b[y].prev = IF y = h[x].next THEN h[x].prev ELSE h[y].prev
                /\ b[y].fatt = IF y = p THEN v ELSE h[y].fatt
                /\ b[y].latt = IF y = p THEN w ELSE h[y].latt
    BY <1>a, <2>2, <2>10 DEF SiblingHidden
  <2>14. AttHidden(h, b, p, x)
    BY <2>9, <2>11, <2>12, <2>13 DEF AttHidden
  <2>15. ListsKept(h, kids, b, {}) /\ RankKept(h, r, b)
    BY <2>1, <2>14, AttHiddenKeeps, AttHiddenRank
  <2>16. QED BY <2>7, <2>15, KeptBoth
<1>d. QED BY <1>b, <1>c

-----------------------------------------------------------------------------
\* Reading

\* The chunks D of the list of t have left it: x now ends where they ended, before cur.
ChunksMerged(h, h2, t, x, cur) ==
  /\ IsHeap(h2) /\ Len(h2) = Len(h)
  /\ \A y \in 1..Len(h) :
       /\ h2[y].type = h[y].type /\ h2[y].parent = h[y].parent /\ h2[y].first = h[y].first
       /\ h2[y].fatt = h[y].fatt /\ h2[y].latt = h[y].latt
       /\ h2[y].next = IF y = x THEN cur ELSE h[y].next
       /\ h2[y].prev = IF y = cur THEN x ELSE h[y].prev
       /\ h2[y].last = IF y = t /\ cur = NULL THEN x ELSE h[y].last

\* _xmlnode_merge: what it sets, at the end of the list and before it.
LEMMA MergeIs ==
  ASSUME NEW h, Shape(h), NEW x \in 1..Len(h), NEW t \in 1..Len(h), h[x].parent = t,
         NEW xs, xs = Chunks(h, x), NEW cur \in 0..Len(h), cur = h[xs[Len(xs)]].next
  PROVE  ChunksMerged(h, merge(h, x), t, x, cur)
<1> DEFINE v == Joined(h, xs)
           a == SetTo(h, x, "data", v)
           b == SetTo(a, x, "next", cur)
           c == merge(h, x)
<1>0. IsHeap(h) /\ Len(h) \in Nat /\ NULL \notin 1..Len(h) /\ (cur # NULL => cur \in 1..Len(h))
  <2>1. IsHeap(h) /\ Len(h) \in Nat
    BY HeapLength DEF Shape
  <2>2. QED BY ONLY <2>1, cur \in 0..Len(h) DEF NULL
<1>a. /\ "first" \in Fields /\ "last" \in Fields /\ "next" \in Fields /\ "parent" \in Fields
      /\ "type" \in Fields /\ "prev" \in Fields /\ "fatt" \in Fields /\ "latt" \in Fields
      /\ "data" \in Fields
  BY DEF Fields
<1> HIDE DEF v
<1>1. a = [h EXCEPT ![x].data = v]
  BY DEF SetTo
<1>2. Put(h, a, x, "data", v)
  BY <1>0, <1>a, PutIs
<1> HIDE DEF a
<1>3. b = [a EXCEPT ![x].next = cur]
  BY DEF SetTo
<1>4. Put(a, b, x, "next", cur)
  BY <1>a, <1>2, PutIs DEF Put
<1> HIDE DEF b
<1>5. b = [h EXCEPT ![x].data = v, ![x].next = cur]
  BY <1>1, <1>3
<1>6. c = IF cur = NULL THEN [b EXCEPT ![t].last = x] ELSE [b EXCEPT ![cur].prev = x]
  BY <1>5 DEF merge, v
<1> HIDE DEF c
<1>7. /\ IsHeap(b) /\ Len(b) = Len(h) /\ Len(a) = Len(h)
      /\ \A y \in 1..Len(h), f \in Fields :
           f # "data" => b[y][f] = IF y = x /\ f = "next" THEN cur ELSE h[y][f]
  BY <1>2, <1>4, <1>a DEF Put
<1>8. /\ IsHeap(c) /\ Len(c) = Len(h)
      /\ \A y \in 1..Len(h), f \in Fields :
           c[y][f] = IF cur = NULL /\ y = t /\ f = "last" THEN x
                     ELSE IF cur # NULL /\ y = cur /\ f = "prev" THEN x ELSE b[y][f]
  <2>1. CASE cur = NULL
    <3>1. c = SetTo(b, t, "last", x)
      BY <1>6, <2>1 DEF SetTo
    <3>2. Put(b, c, t, "last", x)
      BY <1>7, <1>a, <3>1, PutIs
    <3>3. QED BY <1>7, <1>a, <2>1, <3>2 DEF Put
  <2>2. CASE cur # NULL
    <3>1. c = SetTo(b, cur, "prev", x)
      BY <1>6, <2>2 DEF SetTo
    <3>2. Put(b, c, cur, "prev", x)
      BY <1>0, <1>7, <1>a, <2>2, <3>1, PutIs
    <3>3. QED BY <1>7, <1>a, <2>2, <3>2 DEF Put
  <2>3. QED BY <2>1, <2>2
<1>9. ASSUME NEW y \in 1..Len(h)
      PROVE  /\ c[y].type = h[y].type /\ c[y].parent = h[y].parent /\ c[y].first = h[y].first
             /\ c[y].fatt = h[y].fatt /\ c[y].latt = h[y].latt
             /\ c[y].next = IF y = x THEN cur ELSE h[y].next
             /\ c[y].prev = IF y = cur THEN x ELSE h[y].prev
             /\ c[y].last = IF y = t /\ cur = NULL THEN x ELSE h[y].last
  BY <1>0, <1>7, <1>8, <1>a
<1>10. QED BY <1>8, <1>9 DEF ChunksMerged, c

\* What the chunks behind x are, when x is in the list M.
LEMMA ChunksInList ==
  ASSUME NEW h, Shape(h), NEW M \in SUBSET (1..Len(h)), NEW f, NEW l, Chain(h, M, f, l),
         NEW x \in M, h[x].type = "CDATA", NEW xs, xs = Chunks(h, x)
  PROVE  LET D == {xs[i] : i \in 2..Len(xs)}
             cur == h[xs[Len(xs)]].next
         IN  /\ D \in SUBSET M /\ cur \in 0..Len(h)
             /\ x \notin D /\ cur \notin D \cup {x}
             /\ \A d \in D : h[d].prev \in D \cup {x}
             /\ \A d \in D \cup {x} : h[d].next \in D \cup {cur}
             /\ \E e \in D \cup {x} : h[e].next = cur
             /\ cur = NULL \/ cur > x
<1> DEFINE D == {xs[i] : i \in 2..Len(xs)}
           e == xs[Len(xs)]
           cur == h[e].next
<1>1. Path(xs, x, Len(h), NextOf(h), NotText(h)) /\ Forward(Len(h), NextOf(h), NotText(h))
  BY ChunksIs, NextForward
<1>2. x \notin NotText(h) /\ x # NULL
  <2>1. Len(h) \in Nat
    BY HeapLength DEF Shape
  <2>2. x \in 1..Len(h) /\ x # NULL
    BY <2>1 DEF NULL
  <2>3. QED BY <2>2 DEF NotText, Pointer
<1>3. xs \in Seq(1..Len(h)) /\ xs # <<>> /\ xs[1] = x /\ NextOf(h)[e] \in NotText(h)
      /\ \A i \in 1..Len(xs) : xs[i] \notin NotText(h)
  BY <1>1, <1>2 DEF Path
<1>4. Len(xs) \in Nat \ {0} /\ \A i \in 1..Len(xs) : xs[i] \in 1..Len(h)
  BY <1>3, EmptySeq
<1>5. InOrder(h, M, xs)
  BY <1>1, PathInChain
<1>6. /\ \A i \in 1..Len(xs) : xs[i] \in M
      /\ \A i \in 1..(Len(xs) - 1) : h[xs[i]].next = xs[i + 1] /\ h[xs[i + 1]].prev = xs[i]
  BY <1>5 DEF InOrder
<1>7. \A i \in 2..Len(xs) : xs[1] < xs[i]
  BY <1>1, PathRises
<1>8. cur = NextOf(h)[e] /\ cur \in 0..Len(h) /\ e \in M
  <2>1. Len(xs) \in 1..Len(xs)
    BY <1>4
  <2>2. e \in 1..Len(h) /\ e \in M /\ Len(h) \in Nat
    BY <1>4, <1>6, <2>1, HeapLength DEF Shape
  <2>3. e \in 0..Len(h) /\ e # NULL
    BY <2>2 DEF NULL
  <2>4. QED BY <2>2, <2>3 DEF NextOf, Shape
<1>9. D \cup {x} = {xs[i] : i \in 1..Len(xs)}
  <2>1. 1..Len(xs) = {1} \cup 2..Len(xs)
    BY <1>4
  <2>2. QED BY <1>3, <2>1
<1>10. D \in SUBSET M
  BY <1>4, <1>6
<1>11. x \notin D
  <2>1. ASSUME NEW i \in 2..Len(xs) PROVE xs[i] # x
    <3>1. x \in Nat /\ xs[i] \in Nat /\ x < xs[i]
      BY <1>3, <1>4, <1>7
    <3>2. QED BY <3>1
  <2>2. QED BY <2>1
<1>12. cur \notin D \cup {x}
  BY <1>3, <1>8, <1>9
<1>13. ASSUME NEW d \in D PROVE h[d].prev \in D \cup {x}
  <2>1. PICK i \in 2..Len(xs) : d = xs[i]
    OBVIOUS
  <2>2. i - 1 \in 1..(Len(xs) - 1) /\ (i - 1) + 1 = i /\ i - 1 \in 1..Len(xs)
    BY <1>4
  <2>3. h[d].prev = xs[i - 1]
    BY <1>6, <2>1, <2>2
  <2>4. QED BY <1>9, <2>2, <2>3
<1>14. ASSUME NEW d \in D \cup {x} PROVE h[d].next \in D \cup {cur}
  <2>1. PICK i \in 1..Len(xs) : d = xs[i]
    BY <1>9
  <2>2. CASE i = Len(xs)
    BY <2>1, <2>2
  <2>3. CASE i # Len(xs)
    <3>1. i \in 1..(Len(xs) - 1) /\ i + 1 \in 2..Len(xs)
      BY <1>4, <2>3
    <3>2. h[d].next = xs[i + 1]
      BY <1>6, <2>1, <3>1
    <3>3. QED BY <3>1, <3>2
  <2>4. QED BY <2>2, <2>3
<1>15. e \in D \cup {x} /\ h[e].next = cur
  <2>1. Len(xs) \in 1..Len(xs)
    BY <1>4
  <2>2. QED BY <1>9, <2>1
<1>16. cur = NULL \/ cur > x
  <2>0. Len(xs) \in Nat \ {0}
    BY <1>4
  <2>1. Len(xs) = 1 \/ Len(xs) \in 2..Len(xs)
    <3>1. \A n \in Nat \ {0} : n = 1 \/ n \in 2..n
      OBVIOUS
    <3>2. QED BY <2>0, <3>1, Zenon
  <2>2. e = x \/ x < e
    BY <1>3, <1>7, <2>1
  <2>3. cur = NULL \/ cur > e
    BY <1>8 DEF Shape
  <2>4. x \in Nat /\ e \in Nat /\ cur \in Nat
    <3>1. x \in 1..Len(h) /\ e \in 1..Len(h) /\ Len(h) \in Nat
      BY <1>8, HeapLength DEF Shape
    <3>2. QED BY <1>8, <3>1
  <2> HIDE DEF e
  <2>5. QED BY <2>2, <2>3, <2>4
<1> HIDE DEF D, e
<1>17. QED BY <1>8, <1>10, <1>11, <1>12, <1>13, <1>14, <1>15, <1>16 DEF D, e

\* They rank below x, and follow character data.
LEMMA ChunksFall ==
  ASSUME NEW h, Shape(h), NEW M \in SUBSET (1..Len(h)), NEW f, NEW l, Chain(h, M, f, l),
         NEW r, RankedBy(h, r),
         NEW x \in M, h[x].type = "CDATA", NEW xs, xs = Chunks(h, x)
  PROVE  LET cur == h[xs[Len(xs)]].next
         IN  /\ \A i \in 2..Len(xs) : r[xs[i]] < r[x] /\ Pointer(h, h[xs[i]].prev) = "CDATA"
             /\ cur # NULL => r[cur] < r[x] /\ Pointer(h, h[cur].prev) = "CDATA"
<1> DEFINE e == xs[Len(xs)]
           cur == h[e].next
<1>1. Path(xs, x, Len(h), NextOf(h), NotText(h)) /\ Forward(Len(h), NextOf(h), NotText(h))
  BY ChunksIs, NextForward
<1>0. Len(h) \in Nat /\ NULL \notin 1..Len(h) /\ \A y \in 1..Len(h) : y \in 0..Len(h)
  <2>1. Len(h) \in Nat
    BY HeapLength DEF Shape
  <2>2. QED BY ONLY <2>1 DEF NULL
<1>2. x \notin NotText(h) /\ x # NULL
  BY <1>0 DEF NotText, Pointer
<1>3. xs \in Seq(1..Len(h)) /\ xs # <<>> /\ xs[1] = x
      /\ \A i \in 1..Len(xs) : xs[i] \notin NotText(h)
  BY <1>1, <1>2 DEF Path
<1>4. Len(xs) \in Nat \ {0} /\ \A i \in 1..Len(xs) : xs[i] \in 1..Len(h)
  BY <1>3, EmptySeq
<1>5. \A i \in 1..Len(xs) : Pointer(h, xs[i]) = "CDATA"
  BY <1>0, <1>3, <1>4 DEF NotText
<1>6. InOrder(h, M, xs)
  BY <1>1, PathInChain
<1>7. \A i \in 2..Len(xs) : r[xs[i]] < r[xs[1]]
  <2>1. r \in [1..Len(h) -> Nat]
    BY DEF RankedBy
  <2>2. ASSUME NEW y \in 1..Len(h), NextOf(h)[y] # 0 PROVE r[NextOf(h)[y]] < r[y]
    <3>1. NextOf(h)[y] = h[y].next
      BY <1>0 DEF NextOf
    <3>2. QED BY <2>2, <3>1 DEF RankedBy, NULL
  <2>3. QED BY <1>1, <2>1, <2>2, PathFalls
<1>8. ASSUME NEW i \in 2..Len(xs) PROVE r[xs[i]] < r[x] /\ Pointer(h, h[xs[i]].prev) = "CDATA"
  <2>1. i - 1 \in 1..(Len(xs) - 1) /\ (i - 1) + 1 = i /\ i - 1 \in 1..Len(xs)
    BY <1>4
  <2>2. h[xs[i]].prev = xs[i - 1]
    BY <1>6, <2>1 DEF InOrder
  <2>3. QED BY <1>3, <1>5, <1>7, <2>1, <2>2
<1>9. Len(xs) \in 1..Len(xs)
  <2>1. Len(xs) \in Nat \ {0}
    BY <1>4
  <2>2. QED BY ONLY <2>1
<1>10. ASSUME cur # NULL PROVE r[cur] < r[x] /\ Pointer(h, h[cur].prev) = "CDATA"
  <2>1. e \in M /\ e \in 1..Len(h) /\ Pointer(h, e) = "CDATA"
    BY <1>4, <1>5, <1>6, <1>9 DEF InOrder
  <2>2. h[cur].prev = e /\ cur \in M
    BY <1>10, <2>1 DEF Chain
  <2>3. r[cur] < r[e]
    BY <1>10, <2>1 DEF RankedBy
  <2>4. e = x \/ r[e] < r[x]
    <3>1. \A n \in Nat \ {0} : n = 1 \/ n \in 2..n
      OBVIOUS
    <3>2. Len(xs) = 1 \/ Len(xs) \in 2..Len(xs)
      BY <1>4, <3>1, Zenon
    <3>3. QED BY <1>3, <1>7, <3>2
  <2>5. r[cur] \in Nat /\ r[e] \in Nat /\ r[x] \in Nat
    BY <2>1, <2>2 DEF RankedBy
  <2> HIDE DEF e, cur
  <2>6. r[cur] < r[x]
    BY <2>3, <2>4, <2>5
  <2>7. QED BY <2>1, <2>2, <2>6
<1> HIDE DEF e
<1>11. QED BY <1>8, <1>10 DEF e

\* The merged chunks leave the list, and no other list changes.
LEMMA MergedKeeps ==
  ASSUME NEW h, NEW kids, NEW atts, Good(h, kids, atts), NEW t \in 1..Len(h), NEW x \in kids[t],
         NEW D \in SUBSET kids[t], NEW cur \in 0..Len(h), cur = NULL \/ cur > x,
         NEW h2, ChunksMerged(h, h2, t, x, cur), Merged(h, h2, kids[t], x, D, cur)
  PROVE  ListsKept(h, kids, h2, D)
<1> DEFINE kids2 == [kids EXCEPT ![t] = @ \ D]
<1>0. Len(h) \in Nat /\ NULL \notin 1..Len(h) /\ NULL \in 0..Len(h)
  <2>1. Len(h) \in Nat
    BY HeapLength DEF Good, Shape
  <2>2. QED BY ONLY <2>1 DEF NULL
<1>1. \A u \in 1..Len(h) : /\ kids[u] \subseteq 1..Len(h) /\ atts[u] \subseteq 1..Len(h)
                           /\ Chain(h, kids[u], h[u].first, h[u].last)
                           /\ Chain(h, atts[u], h[u].fatt, h[u].latt)
                           /\ \A y \in kids[u] : h[y].parent = u /\ h[y].type # "ATTRIB"
                           /\ \A y \in atts[u] : h[y].type = "ATTRIB"
  BY DEF Good
<1>2. x \in 1..Len(h) /\ x \in 0..Len(h)
  BY <1>1
<1>3. cur # NULL => cur \in kids[t]
  <2>1. \A y \in kids[t] : h[y].next = NULL \/ h[y].next \in kids[t]
    BY <1>1 DEF Chain
  <2>2. QED BY <2>1 DEF Merged
<1>4. Shape(h2)
  <2>1. ASSUME NEW y \in 1..Len(h)
        PROVE  /\ h2[y].type \in Types
               /\ h2[y].first \in 0..Len(h) /\ h2[y].last \in 0..Len(h)
               /\ h2[y].fatt \in 0..Len(h) /\ h2[y].latt \in 0..Len(h)
               /\ h2[y].next \in 0..Len(h) /\ h2[y].prev \in 0..Len(h) /\ h2[y].parent \in 0..Len(h)
               /\ h2[y].next = NULL \/ h2[y].next > y
    <3>1. /\ h[y].type \in Types
          /\ h[y].first \in 0..Len(h) /\ h[y].last \in 0..Len(h)
          /\ h[y].fatt \in 0..Len(h) /\ h[y].latt \in 0..Len(h)
          /\ h[y].next \in 0..Len(h) /\ h[y].prev \in 0..Len(h) /\ h[y].parent \in 0..Len(h)
          /\ h[y].next = NULL \/ h[y].next > y
      BY DEF Good, Shape
    <3>2. QED BY <1>2, <3>1 DEF ChunksMerged
  <2>2. QED BY <2>1 DEF Shape, ChunksMerged
<1>5. kids2 \in [1..Len(h) -> SUBSET (1..Len(h))] /\ atts \in [1..Len(h) -> SUBSET (1..Len(h))]
      /\ kids2[t] = kids[t] \ D /\ \A u \in 1..Len(h) : u # t => kids2[u] = kids[u]
  BY DEF Good
<1> HIDE DEF kids2
<1>6. ASSUME NEW u \in 1..Len(h)
      PROVE  /\ Chain(h2, kids2[u], h2[u].first, h2[u].last)
             /\ Chain(h2, atts[u], h2[u].fatt, h2[u].latt)
             /\ \A y \in kids2[u] : h2[y].parent = u /\ h2[y].type # "ATTRIB"
             /\ \A y \in atts[u] : h2[y].type = "ATTRIB"
  <2>1. \A y \in atts[u] : y \in 1..Len(h) /\ y # x /\ y # cur
    BY <1>0, <1>1, <1>3
  <2>2. \A y \in atts[u] : h2[y].next = h[y].next /\ h2[y].prev = h[y].prev
    BY <2>1 DEF ChunksMerged
  <2>3. Chain(h2, atts[u], h2[u].fatt, h2[u].latt)
    <3>1. Chain(h2, atts[u], h[u].fatt, h[u].latt)
      BY <1>1, <2>2, ChainFrame
    <3>2. QED BY <3>1 DEF ChunksMerged
  <2>4. \A y \in atts[u] : h2[y].type = "ATTRIB"
    BY <1>1, <2>1 DEF ChunksMerged
  <2>5. kids2[u] \subseteq kids[u]
    BY <1>5
  <2>6. \A y \in kids2[u] : h2[y].parent = u /\ h2[y].type # "ATTRIB"
    BY <1>1, <2>5 DEF ChunksMerged
  <2>7. CASE u # t
    <3>1. \A y \in kids[u] : y \in 1..Len(h) /\ y # x /\ y # cur
      BY <1>0, <1>1, <1>3, <2>7
    <3>2. \A y \in kids[u] : h2[y].next = h[y].next /\ h2[y].prev = h[y].prev
      BY <3>1 DEF ChunksMerged
    <3>3. Chain(h2, kids[u], h[u].first, h[u].last)
      BY <1>1, <3>2, ChainFrame
    <3>4. kids2[u] = kids[u] /\ h2[u].first = h[u].first /\ h2[u].last = h[u].last
      BY <1>5, <2>7 DEF ChunksMerged
    <3>5. QED BY <2>3, <2>4, <2>6, <3>3, <3>4
  <2>8. CASE u = t
    <3>1. NULL \notin kids[t] /\ Chain(h, kids[t], h[t].first, h[t].last)
      BY <1>0, <1>1
    <3>2. Chain(h2, kids[t] \ D, h[t].first, IF cur = NULL THEN x ELSE h[t].last)
      BY <3>1, ChainMerge
    <3>3. h2[t].first = h[t].first /\ h2[t].last = IF cur = NULL THEN x ELSE h[t].last
      BY DEF ChunksMerged
    <3>4. Chain(h2, kids2[t], h2[t].first, h2[t].last)
      BY <1>5, <3>2, <3>3
    <3>5. QED BY <2>3, <2>4, <2>6, <2>8, <3>4
  <2>9. QED BY <2>7, <2>8
<1>7. ASSUME NEW y \in 1..Len(h), h2[y].parent = NULL, h2[y].type # "ATTRIB"
      PROVE  h2[y].next = NULL /\ h2[y].prev = NULL
  <2>1. h[y].parent = NULL /\ h[y].type # "ATTRIB"
    BY <1>7 DEF ChunksMerged
  <2>2. h[y].next = NULL /\ h[y].prev = NULL
    BY <2>1 DEF Good
  <2>3. y \notin kids[t] /\ y # NULL
    BY <1>0, <1>1, <2>1
  <2>4. QED BY <1>3, <2>2, <2>3 DEF ChunksMerged
<1>8. Good(h2, kids2, atts)
  <2>1. Len(h2) = Len(h)
    BY DEF ChunksMerged
  <2>2. \A u, w \in 1..Len(h) : u # w => atts[u] \cap atts[w] = {}
    BY DEF Good
  <2>3. QED BY <1>4, <1>5, <1>6, <1>7, <2>1, <2>2 DEF Good
<1>9. \A u \in 1..Len(h) : kids[u] \ D \subseteq kids2[u]
  BY <1>5
<1>10. QED BY <1>8, <1>9 DEF ListsKept

\* _xmlnode_merge as a step of a copy: only chunks below x, behind others, are gone.
LEMMA MergeFollows ==
  ASSUME NEW h, NEW kids, NEW atts, NEW r, Good(h, kids, atts), RankedBy(h, r),
         NEW t \in 1..Len(h), NEW x \in kids[t],
         h[x].type = "CDATA"
  PROVE  \E gone : /\ Follows(h, kids, r, merge(h, x), gone)
                   /\ \A d \in gone : r[d] < r[x] /\ Pointer(h, h[d].prev) = "CDATA"
<1> DEFINE xs == Chunks(h, x)
           D == {xs[i] : i \in 2..Len(xs)}
           cur == h[xs[Len(xs)]].next
           h2 == merge(h, x)
<1>1. Shape(h) /\ kids[t] \in SUBSET (1..Len(h)) /\ x \in 1..Len(h) /\ h[x].parent = t
      /\ Chain(h, kids[t], h[t].first, h[t].last)
  BY DEF Good
<1>2. /\ D \in SUBSET kids[t] /\ cur \in 0..Len(h)
      /\ x \notin D /\ cur \notin D \cup {x}
      /\ \A d \in D : h[d].prev \in D \cup {x}
      /\ \A d \in D \cup {x} : h[d].next \in D \cup {cur}
      /\ \E e \in D \cup {x} : h[e].next = cur
      /\ cur = NULL \/ cur > x
  BY <1>1, ChunksInList
<1>a. /\ \A i \in 2..Len(xs) : r[xs[i]] < r[x] /\ Pointer(h, h[xs[i]].prev) = "CDATA"
      /\ cur # NULL => r[cur] < r[x] /\ Pointer(h, h[cur].prev) = "CDATA"
  BY <1>1, ChunksFall
<1>b. \A d \in D : r[d] < r[x] /\ Pointer(h, h[d].prev) = "CDATA"
  BY <1>a
<1>c. cur # NULL => r[cur] < r[x] /\ Pointer(h, h[cur].prev) = "CDATA"
  BY <1>a
<1>3. ChunksMerged(h, h2, t, x, cur)
  BY <1>1, <1>2, MergeIs
<1> HIDE DEF xs, D, cur, h2
<1>4. Merged(h, h2, kids[t], x, D, cur)
  <2>1. \A y \in kids[t] : y \in 1..Len(h)
    BY <1>1
  <2>2. \A y \in kids[t] : /\ h2[y].next = IF y = x THEN cur ELSE h[y].next
                           /\ h2[y].prev = IF y = cur THEN x ELSE h[y].prev
    BY <1>3, <2>1 DEF ChunksMerged
  <2>3. QED BY <1>2, <2>2 DEF Merged
<1>5. ListsKept(h, kids, h2, D)
  BY <1>2, <1>3, <1>4, MergedKeeps
<1>0. Len(h) \in Nat /\ NULL \notin 1..Len(h) /\ Len(h) <= Len(h)
  <2>1. Len(h) \in Nat
    BY <1>1, HeapLength DEF Shape
  <2>2. QED BY ONLY <2>1 DEF NULL
<1>6. RankKept(h, r, h2)
  <2>1. ASSUME NEW y \in 1..Len(h)
        PROVE  /\ h2[y].next # NULL => r[h2[y].next] < r[y]
               /\ h2[y].first # NULL => r[h2[y].first] < r[y]
               /\ h2[y].fatt # NULL => r[h2[y].fatt] < r[y]
    <3>1. /\ h2[y].next = IF y = x THEN cur ELSE h[y].next
          /\ h2[y].first = h[y].first /\ h2[y].fatt = h[y].fatt
      BY <1>3 DEF ChunksMerged
    <3>2. QED BY <1>c, <3>1 DEF RankedBy
  <2>2. Len(h2) = Len(h)
    BY <1>3 DEF ChunksMerged
  <2>3. QED BY <2>1, <2>2, RankStays
<1>7. ASSUME NEW y \in 1..Len(h)
      PROVE  /\ h2[y].type = h[y].type
             /\ Pointer(h2, h2[y].prev) = "CDATA" => Pointer(h, h[y].prev) = "CDATA"
  <2>1. h2[y].type = h[y].type /\ h2[y].prev = IF y = cur THEN x ELSE h[y].prev
    BY <1>3 DEF ChunksMerged
  <2>2. CASE y = cur
    BY <1>0, <1>c, <2>1, <2>2
  <2>3. CASE y # cur
    <3>1. h[y].prev \in 0..Len(h)
      BY <1>1 DEF Shape
    <3>2. h[y].prev = NULL \/ h[y].prev \in 1..Len(h)
      BY <1>0, <3>1 DEF NULL
    <3>3. h2[y].prev = h[y].prev
      BY <2>1, <2>3
    <3>4. \A z \in 1..Len(h) : h2[z].type = h[z].type
      BY <1>3 DEF ChunksMerged
    <3>5. QED BY <2>1, <3>2, <3>3, <3>4 DEF Pointer
  <2>4. QED BY <2>2, <2>3
<1>8. Follows(h, kids, r, h2, D)
  <2>1. Len(h) <= Len(h2)
    BY <1>0, <1>3 DEF ChunksMerged
  <2>2. QED BY <1>5, <1>6, <1>7, <2>1 DEF Follows
<1>9. QED BY <1>8, <1>b DEF h2

\* xmlnode_get_data of a tag or of a node in a list.
LEMMA GetDataKeeps ==
  ASSUME NEW h, NEW kids, NEW atts, NEW r, Good(h, kids, atts), RankedBy(h, r),
         NEW x \in 1..Len(h),
         h[x].type = "TAG" \/ \E t \in 1..Len(h) : x \in kids[t]
  PROVE  Kept(get_data(h, x))
<1> DEFINE n == DataNode(h, x)
<1>1. CASE get_data(h, x) = h
  BY <1>1 DEF Kept
<1>2. CASE get_data(h, x) # h
  <2>1. n # NULL /\ get_data(h, x) = merge(h, n)
    BY <1>2 DEF get_data
  <2>2. \E t \in 1..Len(h) : n \in kids[t] /\ h[n].type = "CDATA"
    <3>1. CASE h[x].type # "TAG"
      <4>1. n = x
        BY <3>1 DEF DataNode
      <4>2. PICK t \in 1..Len(h) : x \in kids[t]
        BY <3>1
      <4>3. h[x].type \in Types /\ h[x].type # "ATTRIB"
        BY <4>2 DEF Good, Shape
      <4>4. QED BY <3>1, <4>1, <4>2, <4>3 DEF Types
    <3>2. CASE h[x].type = "TAG"
      <4> DEFINE hits == {k \in DOMAIN h : h[k].type = "CDATA"}
                 xs == Siblings(h, h[x].first)
      <4>1. n = FirstOf(xs, hits)
        BY <3>2 DEF DataNode
      <4>2. Shape(h) /\ kids[x] \in SUBSET (1..Len(h)) /\ h[x].first \in 0..Len(h)
            /\ Chain(h, kids[x], h[x].first, h[x].last)
        BY DEF Good, Shape
      <4>3. xs \in Seq(kids[x])
        BY <4>2, ListIsLinked DEF ReadsAs
      <4> HIDE DEF xs, hits, n
      <4>4. n \in kids[x] /\ n \in hits
        BY <2>1, <4>1, <4>3, FirstOfIs DEF n
      <4>5. QED BY <4>4 DEF hits
    <3>3. QED BY <3>1, <3>2
  <2> HIDE DEF n
  <2>3. PICK t \in 1..Len(h) : n \in kids[t] /\ h[n].type = "CDATA"
    BY <2>2
  <2>4. \E gone : Follows(h, kids, r, merge(h, n), gone)
    BY <2>3, MergeFollows
  <2>5. QED BY <2>1, <2>4, FollowsKept
<1>3. QED BY <1>1, <1>2

\* xmlnode_get_data of character data as a step of a copy.
LEMMA GetDataFollows ==
  ASSUME NEW h, NEW kids, NEW atts, NEW r, Good(h, kids, atts), RankedBy(h, r),
         NEW t \in 1..Len(h), NEW x \in kids[t], h[x].type = "CDATA"
  PROVE  \E gone : /\ Follows(h, kids, r, get_data(h, x), gone)
                   /\ \A d \in gone : r[d] < r[x] /\ Pointer(h, h[d].prev) = "CDATA"
<1>1. CASE get_data(h, x) = h
  <2>1. Follows(h, kids, r, h, {})
    BY FollowsSame
  <2>2. \A d \in {} : r[d] < r[x] /\ Pointer(h, h[d].prev) = "CDATA"
    OBVIOUS
  <2>3. QED BY <1>1, <2>1, <2>2
<1>2. CASE get_data(h, x) # h
  <2>1. DataNode(h, x) = x
    BY DEF DataNode
  <2>2. get_data(h, x) = merge(h, x)
    BY <1>2, <2>1 DEF get_data
  <2>3. QED BY <2>2, MergeFollows
<1>3. QED BY <1>1, <1>2

-----------------------------------------------------------------------------
\* The calls that do not copy

\* A tag with a first child has a last one.
LEMMA LastChild ==
  ASSUME NEW h, NEW kids, NEW atts, Good(h, kids, atts), NEW p \in 1..Len(h), h[p].first # NULL
  PROVE  h[p].last \in 1..Len(h)
<1>1. kids[p] \in SUBSET (1..Len(h)) /\ Chain(h, kids[p], h[p].first, h[p].last)
  BY DEF Good
<1>2. h[p].last \in kids[p]
  BY <1>1 DEF Chain
<1>3. QED BY <1>1, <1>2

\* xmlnode_insert_tag.
LEMMA InsertTagFollows ==
  ASSUME NEW h, NEW kids, NEW atts, NEW r, Good(h, kids, atts), RankedBy(h, r),
         NEW p \in 1..Len(h), NEW name
  PROVE  Follows(h, kids, r, insert_tag(h, p, name), {})
<1>1. IsHeap(h) /\ (h[p].first # NULL => h[p].last \in 1..Len(h))
  <2>1. IsHeap(h)
    BY DEF Good, Shape
  <2>2. ASSUME h[p].first # NULL PROVE h[p].last \in 1..Len(h)
    BY <2>2, LastChild
  <2>3. QED BY <2>1, <2>2
<1>2. Inserted(h, insert(h, p, name, "TAG"), p, "TAG")
  BY <1>1, InsertIs
<1>3. "TAG" \in Types \ {"ATTRIB"}
  BY DEF Types
<1>4. QED BY <1>2, <1>3, InsertFollows DEF insert_tag

\* xmlnode_insert_cdata.
LEMMA InsertCdataFollows ==
  ASSUME NEW h, NEW kids, NEW atts, NEW r, Good(h, kids, atts), RankedBy(h, r),
         NEW p \in 1..Len(h), NEW text
  PROVE  Follows(h, kids, r, insert_cdata(h, p, text), {})
<1> DEFINE g == insert(h, p, "", "CDATA")
           b == insert_cdata(h, p, text)
<1>1. IsHeap(h) /\ (h[p].first # NULL => h[p].last \in 1..Len(h))
  <2>1. IsHeap(h)
    BY DEF Good, Shape
  <2>2. ASSUME h[p].first # NULL PROVE h[p].last \in 1..Len(h)
    BY <2>2, LastChild
  <2>3. QED BY <2>1, <2>2
<1>2. Inserted(h, g, p, "CDATA")
  <2>1. ASSUME NEW name PROVE Inserted(h, insert(h, p, name, "CDATA"), p, "CDATA")
    BY <1>1, InsertIs
  <2>2. QED BY <2>1, Zenon
<1>3. "CDATA" \in Types \ {"ATTRIB"}
  BY DEF Types
<1>4. Follows(h, kids, r, g, {})
  <2> HIDE DEF g
  <2> QED BY <1>2, <1>3, InsertFollows
<1>5. b = [g EXCEPT ![Len(g)].data = text]
  BY DEF insert_cdata
<1> HIDE DEF g, b
<1>6. b = SetTo(g, Len(g), "data", text)
  BY <1>5 DEF SetTo
<1>7. IsHeap(g) /\ Len(g) \in 1..Len(g) /\ "data" \in Fields
  <2>1. Len(h) \in Nat
    BY <1>1, HeapLength
  <2>2. QED BY <1>2, <2>1 DEF Inserted, Fields
<1>8. Put(g, b, Len(g), "data", text)
  BY <1>6, <1>7, PutIs
<1>9. QED BY <1>1, <1>4, <1>8, FollowsData DEF b

\* xmlnode_wrap: the new tag holds x and ranks above it.
LEMMA WrapKeeps ==
  ASSUME NEW h, NEW kids, NEW atts, NEW r, Good(h, kids, atts), RankedBy(h, r),
         NEW x \in 1..Len(h), NEW name,
         h[x].type = "TAG", h[x].parent = NULL
  PROVE  Kept(wrap(h, x, name))
<1> DEFINE n == Len(h) + 1
           m == new(h, name, "TAG")
           a == SetTo(m, n, "first", x)
           b == SetTo(a, n, "last", x)
           c == SetTo(b, x, "parent", n)
           kids2 == [t \in 1..n |-> IF t = n THEN {x} ELSE kids[t]]
           atts2 == [t \in 1..n |-> IF t = n THEN {} ELSE atts[t]]
<1>0. Len(h) \in Nat /\ n \notin 1..Len(h) /\ n \in 1..n /\ 1..n = 1..Len(h) \cup {n} /\ n # NULL
      /\ NULL \notin 1..Len(h) /\ 0..Len(h) \subseteq 0..n /\ n \in 0..n /\ x # n /\ x \in 1..n
      /\ NULL \in 0..n /\ x \in 0..n /\ x # NULL
  <2>1. Len(h) \in Nat
    BY HeapLength DEF Good, Shape
  <2>2. QED BY ONLY <2>1, x \in 1..Len(h) DEF NULL
<1>a. /\ "first" \in Fields /\ "last" \in Fields /\ "next" \in Fields /\ "parent" \in Fields
      /\ "type" \in Fields /\ "prev" \in Fields /\ "fatt" \in Fields /\ "latt" \in Fields
  BY DEF Fields
<1>b. IsHeap(h)
  BY DEF Good, Shape
<1>1. Grows(h, m, Node("TAG", name))
  BY <1>b, NewIs
<1>2. wrap(h, x, name) = [m EXCEPT ![n].first = x, ![n].last = x, ![x].parent = n]
  BY DEF wrap
<1> HIDE DEF m
<1>3. Put(m, a, n, "first", x)
  BY <1>0, <1>1, <1>a, PutIs DEF Grows
<1>c. a = [m EXCEPT ![n].first = x]
  BY DEF SetTo
<1> HIDE DEF a
<1>4. Put(a, b, n, "last", x)
  BY <1>0, <1>1, <1>3, <1>a, PutIs DEF Grows, Put
<1>d. b = [a EXCEPT ![n].last = x]
  BY DEF SetTo
<1> HIDE DEF b
<1>5. Put(b, c, x, "parent", n)
  BY <1>0, <1>1, <1>3, <1>4, <1>a, PutIs DEF Grows, Put
<1>e. c = [b EXCEPT ![x].parent = n]
  BY DEF SetTo
<1> HIDE DEF c
<1>6. wrap(h, x, name) = c
  BY <1>2, <1>c, <1>d, <1>e
<1>7. /\ Len(m) = n /\ Len(a) = n /\ Len(b) = n /\ Len(c) = n /\ IsHeap(c)
      /\ \A y \in 1..Len(h) : m[y] = h[y] /\ y \in 1..n
  BY <1>0, <1>1, <1>3, <1>4, <1>5 DEF Put, Grows
<1>8. ASSUME NEW y \in 1..n, NEW f \in Fields
      PROVE  c[y][f] = IF y = x /\ f = "parent" THEN n ELSE IF y = n /\ f = "last" THEN x
                       ELSE IF y = n /\ f = "first" THEN x ELSE m[y][f]
  BY <1>0, <1>3, <1>4, <1>5, <1>7 DEF Put
<1>9. LET z == m[n] IN
        /\ z.type = "TAG" /\ z.next = NULL /\ z.prev = NULL /\ z.parent = NULL
        /\ z.first = NULL /\ z.last = NULL /\ z.fatt = NULL /\ z.latt = NULL
  BY <1>1, NodeIs DEF Grows
<1>10. /\ c[n].type = "TAG" /\ c[n].next = NULL /\ c[n].prev = NULL /\ c[n].parent = NULL
       /\ c[n].first = x /\ c[n].last = x /\ c[n].fatt = NULL /\ c[n].latt = NULL
  BY <1>0, <1>8, <1>9, <1>a
<1>11. ASSUME NEW y \in 1..Len(h)
       PROVE  /\ c[y].type = h[y].type /\ c[y].next = h[y].next /\ c[y].prev = h[y].prev
              /\ c[y].first = h[y].first /\ c[y].last = h[y].last
              /\ c[y].fatt = h[y].fatt /\ c[y].latt = h[y].latt
              /\ c[y].parent = IF y = x THEN n ELSE h[y].parent
  BY <1>0, <1>7, <1>8, <1>a
<1>12. Shape(c)
  <2>1. ASSUME NEW y \in 1..Len(h)
        PROVE  /\ c[y].type \in Types
               /\ c[y].first \in 0..n /\ c[y].last \in 0..n
               /\ c[y].fatt \in 0..n /\ c[y].latt \in 0..n
               /\ c[y].next \in 0..n /\ c[y].prev \in 0..n /\ c[y].parent \in 0..n
               /\ c[y].next = NULL \/ c[y].next > y
    <3>1. /\ h[y].type \in Types
          /\ h[y].first \in 0..n /\ h[y].last \in 0..n
          /\ h[y].fatt \in 0..n /\ h[y].latt \in 0..n
          /\ h[y].next \in 0..n /\ h[y].prev \in 0..n /\ h[y].parent \in 0..n
          /\ h[y].next = NULL \/ h[y].next > y
      BY <1>0 DEF Good, Shape
    <3>2. QED BY <1>0, <1>11, <3>1
  <2>2. "TAG" \in Types
    BY DEF Types
  <2>3. QED BY <1>0, <1>7, <1>10, <2>1, <2>2 DEF Shape
<1>13. kids2 \in [1..n -> SUBSET (1..n)] /\ atts2 \in [1..n -> SUBSET (1..n)]
  BY <1>0 DEF Good
<1>14. h[x].next = NULL /\ h[x].prev = NULL
  BY DEF Good
<1>15. ASSUME NEW t \in 1..n
       PROVE  /\ Chain(c, kids2[t], c[t].first, c[t].last)
              /\ Chain(c, atts2[t], c[t].fatt, c[t].latt)
              /\ \A y \in kids2[t] : c[y].parent = t /\ c[y].type # "ATTRIB"
              /\ \A y \in atts2[t] : c[y].type = "ATTRIB"
  <2>1. CASE t = n
    <3>1. kids2[t] = {x} /\ atts2[t] = {} /\ c[t].first = x /\ c[t].last = x
          /\ c[t].fatt = NULL /\ c[t].latt = NULL
      BY <1>10, <2>1
    <3>2. c[x].next = NULL /\ c[x].prev = NULL /\ c[x].parent = t /\ c[x].type = "TAG"
      BY <1>11, <1>14, <2>1
    <3> HIDE DEF kids2, atts2
    <3>3. Chain(c, {x}, x, x)
      BY <1>0, <3>2 DEF Chain
    <3>4. Chain(c, {}, NULL, NULL)
      BY DEF Chain
    <3>5. QED BY <3>1, <3>2, <3>3, <3>4
  <2>2. CASE t # n
    <3>1. t \in 1..Len(h) /\ kids2[t] = kids[t] /\ atts2[t] = atts[t]
      BY <1>0, <2>2
    <3> HIDE DEF kids2, atts2
    <3>2. /\ kids[t] \subseteq 1..Len(h) /\ atts[t] \subseteq 1..Len(h)
          /\ Chain(h, kids[t], h[t].first, h[t].last)
          /\ Chain(h, atts[t], h[t].fatt, h[t].latt)
          /\ \A y \in kids[t] : h[y].parent = t /\ h[y].type # "ATTRIB"
          /\ \A y \in atts[t] : h[y].type = "ATTRIB"
      BY <3>1 DEF Good
    <3>3. t # NULL
      BY <1>0, <3>1
    <3>4. Chain(c, kids[t], h[t].first, h[t].last)
      BY <1>11, <3>2, ChainFrame
    <3>5. Chain(c, atts[t], h[t].fatt, h[t].latt)
      BY <1>11, <3>2, ChainFrame
    <3>6. \A y \in kids[t] : c[y].parent = t /\ c[y].type # "ATTRIB"
      BY <1>11, <3>2, <3>3
    <3>7. \A y \in atts[t] : c[y].type = "ATTRIB"
      BY <1>11, <3>2
    <3>8. QED BY <1>11, <3>1, <3>4, <3>5, <3>6, <3>7
  <2>3. QED BY <2>1, <2>2
<1>16. \A t, u \in 1..n : t # u => atts2[t] \cap atts2[u] = {}
  BY <1>0 DEF Good
<1>17. ASSUME NEW y \in 1..n, c[y].parent = NULL, c[y].type # "ATTRIB"
       PROVE  c[y].next = NULL /\ c[y].prev = NULL
  <2>1. CASE y = n
    BY <1>10, <2>1
  <2>2. CASE y # n
    <3>1. y \in 1..Len(h)
      BY <1>0, <2>2
    <3>2. h[y].type # "ATTRIB" /\ (y = x \/ h[y].parent = NULL)
      BY <1>11, <1>17, <3>1
    <3>3. QED BY <1>11, <1>14, <3>1, <3>2 DEF Good
  <2>3. QED BY <2>1, <2>2
<1>18. Good(c, kids2, atts2)
  <2> HIDE DEF n, kids2, atts2
  <2> QED BY <1>7, <1>12, <1>13, <1>15, <1>16, <1>17 DEF Good
<1>19. PICK s : RankedBy(c, s)
  <2> DEFINE s == [y \in 1..n |-> IF y = n THEN r[x] + 1 ELSE r[y]]
  <2>1. /\ \A y \in 1..Len(h) : r[y] \in Nat
        /\ \A y \in 1..Len(h) : /\ h[y].next # NULL => r[h[y].next] < r[y]
                                /\ h[y].first # NULL => r[h[y].first] < r[y]
                                /\ h[y].fatt # NULL => r[h[y].fatt] < r[y]
    BY DEF RankedBy
  <2>2. s \in [1..n -> Nat]
    BY <1>0, <2>1
  <2>3. s[n] = r[x] + 1 /\ \A y \in 1..Len(h) : s[y] = r[y]
    BY <1>0
  <2> HIDE DEF s
  <2>4. \A v \in 0..Len(h) : v # NULL => v \in 1..Len(h)
    BY <1>0 DEF NULL
  <2>5. ASSUME NEW y \in 1..Len(h)
        PROVE  /\ c[y].next # NULL => s[c[y].next] < s[y]
               /\ c[y].first # NULL => s[c[y].first] < s[y]
               /\ c[y].fatt # NULL => s[c[y].fatt] < s[y]
    <3>1. h[y].next \in 0..Len(h) /\ h[y].first \in 0..Len(h) /\ h[y].fatt \in 0..Len(h)
      BY DEF Good, Shape
    <3>2. c[y].next = h[y].next /\ c[y].first = h[y].first /\ c[y].fatt = h[y].fatt
      BY <1>11
    <3>3. QED BY <2>1, <2>3, <2>4, <3>1, <3>2
  <2>6. /\ c[n].next # NULL => s[c[n].next] < s[n]
        /\ c[n].first # NULL => s[c[n].first] < s[n]
        /\ c[n].fatt # NULL => s[c[n].fatt] < s[n]
    <3>1. r[x] \in Nat /\ s[x] = r[x]
      BY <2>1, <2>3
    <3>2. QED BY <1>10, <2>3, <3>1
  <2>7. \A y \in 1..n : /\ c[y].next # NULL => s[c[y].next] < s[y]
                        /\ c[y].first # NULL => s[c[y].first] < s[y]
                        /\ c[y].fatt # NULL => s[c[y].fatt] < s[y]
    BY <1>0, <2>5, <2>6
  <2>8. Len(c) = n
    BY <1>7
  <2>9. RankedBy(c, s)
    BY ONLY <2>2, <2>7, <2>8 DEF RankedBy
  <2>10. QED BY <2>9
<1>20. QED
  <2> HIDE DEF kids2, atts2
  <2> QED BY <1>6, <1>18, <1>19 DEF Kept

-----------------------------------------------------------------------------
\* Whatever was inserted, set, hidden, read and wrapped

\* The invariant says of the sets what the property says of the lists that are read.
LEMMA GoodAgree ==
  TreeInv => ListsAgree
<1> SUFFICES ASSUME NEW kids, NEW atts, Good(heap, kids, atts), NEW t \in Tags
             PROVE  /\ Linked(Children(t), heap[t].last)
                    /\ Linked(Attributes(t), heap[t].latt)
                    /\ \A x \in Shown(t) : heap[x].parent = t
  BY DEF TreeInv, Kept, ListsAgree
<1>1. Shape(heap) /\ DOMAIN heap = 1..Len(heap)
  BY HeapLength DEF Good, Shape
<1>2. t \in 1..Len(heap)
  BY <1>1 DEF Tags
<1>3. /\ kids[t] \in SUBSET (1..Len(heap)) /\ atts[t] \in SUBSET (1..Len(heap))
      /\ heap[t].first \in 0..Len(heap) /\ heap[t].fatt \in 0..Len(heap)
      /\ Chain(heap, kids[t], heap[t].first, heap[t].last)
      /\ Chain(heap, atts[t], heap[t].fatt, heap[t].latt)
  BY <1>2 DEF Good, Shape
<1>4. Linked(Children(t), heap[t].last) /\ Children(t) \in Seq(kids[t])
  <2>1. ReadsAs(heap, kids[t], heap[t].last, Children(t))
    BY <1>1, <1>3, ListIsLinked DEF Children
  <2>2. QED BY <2>1 DEF ReadsAs, Linked
<1>5. Linked(Attributes(t), heap[t].latt)
  <2>1. ReadsAs(heap, atts[t], heap[t].latt, Attributes(t))
    BY <1>1, <1>3, ListIsLinked DEF Attributes
  <2>2. QED BY <2>1 DEF ReadsAs, Linked
<1>6. \A x \in Shown(t) : x \in kids[t]
  BY <1>4 DEF Shown
<1>7. \A x \in Shown(t) : heap[x].parent = t
  BY <1>2, <1>6 DEF Good
<1>8. QED BY <1>4, <1>5, <1>7

\* A node that a client can reach is in the list of its parent.
LEMMA ShownIsKid ==
  ASSUME NEW kids, NEW atts, Good(heap, kids, atts), NEW t \in 1..Len(heap), NEW x \in Shown(t)
  PROVE  x \in kids[t] /\ x \in 1..Len(heap)
<1>1. /\ Shape(heap) /\ kids[t] \in SUBSET (1..Len(heap)) /\ heap[t].first \in 0..Len(heap)
      /\ Chain(heap, kids[t], heap[t].first, heap[t].last)
  BY DEF Good, Shape
<1>2. Children(t) \in Seq(kids[t])
  BY <1>1, ListIsLinked DEF Children, ReadsAs
<1>3. x \in kids[t]
  BY <1>2 DEF Shown
<1>4. QED BY <1>1, <1>3

\* The calls that do not copy keep the invariant.
LEMMA CallKeeps ==
  ASSUME TreeInv, Call
  PROVE  Kept(heap')
<1>1. PICK kids, atts, r : Good(heap, kids, atts) /\ RankedBy(heap, r)
  BY DEF TreeInv, Kept
<1>2. Shape(heap) /\ DOMAIN heap = 1..Len(heap)
  BY <1>1, HeapLength DEF Good, Shape
<1>3. PICK p \in Tags :
        \/ InsertTag(p)
        \/ InsertCdata(p, NewText)
        \/ \E name \in AttNames, value \in AttValues : PutAttrib(p, name, value)
        \/ \E name \in AttNames : HideAttrib(p, name)
        \/ \E x \in Shown(p) : Hide(p, x)
        \/ GetData(p) \/ \E x \in Shown(p) : GetData(x)
        \/ Wrap(p)
  BY DEF Call
<1>4. p \in 1..Len(heap) /\ heap[p].type = "TAG"
  BY <1>2 DEF Tags
<1>5. CASE InsertTag(p)
  <2>1. PICK name : heap' = insert_tag(heap, p, name)
    BY <1>5 DEF InsertTag
  <2>2. QED BY <1>1, <1>4, <2>1, InsertTagFollows, FollowsKept
<1>6. CASE InsertCdata(p, NewText)
  <2>1. PICK text : heap' = insert_cdata(heap, p, text)
    BY <1>6 DEF InsertCdata
  <2>2. QED BY <1>1, <1>4, <2>1, InsertCdataFollows, FollowsKept
<1>7. CASE \E name \in AttNames, value \in AttValues : PutAttrib(p, name, value)
  <2>1. PICK name, value : heap' = put_attrib(heap, p, name, value)
    BY <1>7 DEF PutAttrib
  <2>2. QED BY <1>1, <1>4, <2>1, PutAttribFollows, FollowsKept
<1>8. CASE \E name \in AttNames : HideAttrib(p, name)
  <2>1. PICK name : heap' = hide_attrib(heap, p, name)
    BY <1>8 DEF HideAttrib
  <2>2. QED BY <1>1, <1>4, <2>1, HideAttribKeeps
<1>9. CASE \E x \in Shown(p) : Hide(p, x)
  <2>1. PICK x \in Shown(p) : heap' = hide(heap, x)
    BY <1>9 DEF Hide
  <2>2. x \in kids[p]
    BY <1>1, <1>4, ShownIsKid
  <2>3. QED BY <1>1, <1>4, <2>1, <2>2, HideKeeps
<1>10. CASE GetData(p)
  <2>1. heap' = get_data(heap, p)
    BY <1>10 DEF GetData
  <2>2. QED BY <1>1, <1>4, <2>1, GetDataKeeps
<1>11. CASE \E x \in Shown(p) : GetData(x)
  <2>1. PICK x \in Shown(p) : heap' = get_data(heap, x)
    BY <1>11 DEF GetData
  <2>2. x \in kids[p] /\ x \in 1..Len(heap)
    BY <1>1, <1>4, ShownIsKid
  <2>3. QED BY <1>1, <1>4, <2>1, <2>2, GetDataKeeps
<1>12. CASE Wrap(p)
  <2>1. PICK name : heap[p].parent = NULL /\ heap' = wrap(heap, p, name)
    BY <1>12 DEF Wrap
  <2>2. QED BY <1>1, <1>4, <2>1, WrapKeeps
<1>13. QED BY <1>3, <1>5, <1>6, <1>7, <1>8, <1>9, <1>10, <1>11, <1>12

\* Two tags that hold nothing.
LEMMA InitGood ==
  Init => TreeInv
<1> SUFFICES ASSUME Init PROVE TreeInv
  OBVIOUS
<1> DEFINE r == Node("TAG", "t")
           kids == [x \in 1..Len(heap) |-> {}]
<1>1. heap = <<r, r>>
  BY DEF Init
<1>2. IsNode(r) /\ r.type = "TAG" /\ r.parent = NULL /\ r.first = NULL /\ r.last = NULL
      /\ r.next = NULL /\ r.prev = NULL /\ r.fatt = NULL /\ r.latt = NULL
  BY NodeIs
<1> HIDE DEF r
<1>3. heap \in Seq({r}) /\ Len(heap) = 2 /\ \A x \in 1..2 : heap[x] = r
  BY <1>1
<1>4. Shape(heap)
  BY <1>2, <1>3 DEF Shape, IsHeap, Types, NULL
<1>5. Chain(heap, {}, NULL, NULL)
  BY DEF Chain
<1>6. Good(heap, kids, kids)
  BY <1>2, <1>3, <1>4, <1>5 DEF Good
<1> DEFINE z == [x \in 1..Len(heap) |-> 0]
<1>7. RankedBy(heap, z)
  BY <1>2, <1>3 DEF RankedBy
<1>8. QED
  <2> HIDE DEF kids, z
  <2> QED BY <1>6, <1>7 DEF TreeInv, Kept

-----------------------------------------------------------------------------
\* What a call that copies visits

\* The ranks have a bound.
LEMMA RankBound ==
  ASSUME NEW L \in Nat, NEW r \in [1..L -> Nat]
  PROVE  \E N \in Nat : \A x \in 1..L : r[x] < N
<1> DEFINE S == {n \in Nat : n <= L => \E N \in Nat : \A x \in 1..n : r[x] < N}
<1>1. 0 \in S
  <2>1. \A x \in 1..0 : r[x] < 0
    OBVIOUS
  <2>2. QED BY <2>1
<1>2. ASSUME NEW n \in S PROVE n + 1 \in S
  <2>1. n \in Nat
    OBVIOUS
  <2>2. SUFFICES ASSUME n + 1 <= L PROVE \E N \in Nat : \A x \in 1..(n + 1) : r[x] < N
    BY <2>1
  <2>3. PICK N \in Nat : \A x \in 1..n : r[x] < N
    BY <2>1, <2>2
  <2>4. n + 1 \in 1..L /\ \A x \in 1..(n + 1) : x \in 1..L /\ (x \in 1..n \/ x = n + 1)
    BY <2>1, <2>2
  <2> DEFINE M == N + r[n + 1] + 1
  <2>5. M \in Nat /\ N <= M /\ r[n + 1] < M
    BY <2>4
  <2> HIDE DEF M
  <2>6. ASSUME NEW x \in 1..(n + 1) PROVE r[x] < M
    <3>1. r[x] \in Nat
      BY <2>4
    <3>2. CASE x = n + 1
      BY <2>5, <3>2
    <3>3. CASE x \in 1..n
      <4>1. r[x] < N
        BY <2>3, <3>3
      <4>2. QED BY <2>5, <3>1, <4>1
    <3>4. QED BY <2>4, <3>2, <3>3
  <2>7. QED BY <2>5, <2>6
<1>3. S = Nat
  <2> HIDE DEF S
  <2> QED BY <1>1, <1>2, InductiveSet DEF S
<1>4. L \in S /\ L <= L
  <2> HIDE DEF S
  <2> QED BY <1>3
<1>5. QED BY <1>4

\* The node behind k ranks below it.
LEMMA BehindFalls ==
  ASSUME NEW h, Shape(h), NEW r, RankedBy(h, r), NEW k \in 1..Len(h)
  PROVE  Behind(h, k) \in 0..Len(h) /\ (Behind(h, k) # NULL => r[Behind(h, k)] < r[k])
<1>0. /\ Len(h) \in Nat /\ NULL \notin 1..Len(h)
      /\ \A y \in 1..Len(h) : y \in 0..Len(h)
      /\ \A y \in 0..Len(h) : y # NULL => y \in 1..Len(h)
  <2>1. Len(h) \in Nat
    BY HeapLength DEF Shape
  <2>2. QED BY ONLY <2>1 DEF NULL
<1>1. CASE Pointer(h, k) # "CDATA"
  BY <1>1 DEF Behind, RankedBy, Shape
<1>2. CASE Pointer(h, k) = "CDATA"
  <2> DEFINE xs == Chunks(h, k)
             e == xs[Len(xs)]
             cur == h[e].next
  <2>1. Behind(h, k) = cur
    BY <1>2 DEF Behind
  <2>2. Path(xs, k, Len(h), NextOf(h), NotText(h)) /\ Forward(Len(h), NextOf(h), NotText(h))
    BY <1>0, ChunksIs, NextForward
  <2>3. k \notin NotText(h)
    BY <1>2 DEF NotText
  <2>4. xs \in Seq(1..Len(h)) /\ xs # <<>> /\ xs[1] = k
    BY <2>2, <2>3 DEF Path
  <2>5. Len(xs) \in Nat \ {0} /\ \A i \in 1..Len(xs) : xs[i] \in 1..Len(h)
    BY <2>4, EmptySeq
  <2>6. \A i \in 2..Len(xs) : r[xs[i]] < r[xs[1]]
    <3>1. r \in [1..Len(h) -> Nat]
      BY DEF RankedBy
    <3>2. ASSUME NEW y \in 1..Len(h), NextOf(h)[y] # 0 PROVE r[NextOf(h)[y]] < r[y]
      <4>1. NextOf(h)[y] = h[y].next
        BY <1>0 DEF NextOf
      <4>2. QED BY <3>2, <4>1 DEF RankedBy, NULL
    <3>3. QED BY <2>2, <3>1, <3>2, PathFalls
  <2>7. Len(xs) \in 1..Len(xs) /\ (Len(xs) = 1 \/ Len(xs) \in 2..Len(xs))
    <3>1. \A n \in Nat \ {0} : n \in 1..n /\ (n = 1 \/ n \in 2..n)
      OBVIOUS
    <3>2. QED BY <2>5, <3>1, Zenon
  <2>8. e \in 1..Len(h) /\ (e = k \/ r[e] < r[k])
    BY <2>4, <2>5, <2>6, <2>7
  <2> HIDE DEF xs, e
  <2>9. cur \in 0..Len(h)
    BY <2>8 DEF Shape
  <2>10. ASSUME cur # NULL PROVE r[cur] < r[k]
    <3>1. r[cur] < r[e]
      BY <2>8, <2>10 DEF RankedBy
    <3>2. r[cur] \in Nat /\ r[e] \in Nat /\ r[k] \in Nat
      BY <1>0, <2>8, <2>9, <2>10 DEF RankedBy
    <3> HIDE DEF cur
    <3>3. QED BY <2>8, <3>1, <3>2
  <2>11. QED BY <2>1, <2>9, <2>10
<1>3. QED BY <1>1, <1>2

\* What a visit yields for each k and up.
Inner(h, v, k) == IF Pointer(h, k) # "TAG" THEN <<>> ELSE v[h[k].fatt][k] \o v[h[k].first][k]
VisitOf(h, v, k) ==
  [up \in 0..Len(h) |->
     IF k = NULL THEN <<>> ELSE <<[k |-> k, up |-> up]>> \o Inner(h, v, k) \o v[Behind(h, k)][up]]
Visits(h, v) == v = [k \in 0..Len(h) |-> VisitOf(h, v, k)]

\* What is visited from k on depends on what ranks below k.
LEMMA VisitSame ==
  ASSUME NEW h, Shape(h), NEW r, RankedBy(h, r), NEW k \in 0..Len(h), NEW v, NEW w,
         \A x \in 0..Len(h) : x = NULL \/ (k # NULL /\ r[x] < r[k]) => v[x] = w[x]
  PROVE  VisitOf(h, v, k) = VisitOf(h, w, k)
<1>1. CASE k = NULL
  BY <1>1 DEF VisitOf
<1>2. CASE k # NULL
  <2>0. k \in 1..Len(h)
    <3>1. Len(h) \in Nat
      BY HeapLength DEF Shape
    <3>2. QED BY ONLY <1>2, <3>1, k \in 0..Len(h) DEF NULL
  <2>1. v[Behind(h, k)] = w[Behind(h, k)]
    BY <1>2, <2>0, BehindFalls
  <2>2. v[h[k].fatt] = w[h[k].fatt]
    BY <1>2, <2>0 DEF Shape, RankedBy
  <2>3. v[h[k].first] = w[h[k].first]
    BY <1>2, <2>0 DEF Shape, RankedBy
  <2>4. Inner(h, v, k) = Inner(h, w, k)
    BY <2>2, <2>3 DEF Inner
  <2>5. QED BY <2>1, <2>4 DEF VisitOf
<1>3. QED BY <1>1, <1>2

\* So the recursion is a function, by induction over the ranks.
LEMMA VisitExists ==
  ASSUME NEW h, Shape(h), NEW r, RankedBy(h, r)
  PROVE  \E v : Visits(h, v)
<1> DEFINE L == Len(h)
           Good1(v, n) == /\ v = [k \in 0..L |-> v[k]]
                          /\ \A k \in 0..L : k = NULL \/ r[k] < n => v[k] = VisitOf(h, v, k)
           S == {n \in Nat : \E v : Good1(v, n)}
<1>0. L \in Nat /\ NULL \in 0..L /\ r \in [1..L -> Nat]
      /\ \A y \in 0..L : y # NULL => y \in 1..L
  <2>1. L \in Nat
    BY HeapLength DEF Shape
  <2>2. NULL \in 0..L /\ \A y \in 0..L : y # NULL => y \in 1..L
    BY ONLY <2>1 DEF NULL
  <2>3. QED BY <2>1, <2>2 DEF RankedBy
<1> HIDE DEF L
<1>a. \A y \in 0..L : y # NULL => r[y] \in Nat
  BY <1>0
<1>b. \A k \in 0..L : \A v, w : (\A x \in 0..L : x = NULL \/ (k # NULL /\ r[x] < r[k]) => v[x] = w[x])
        => VisitOf(h, v, k) = VisitOf(h, w, k)
  BY VisitSame DEF L
<1>1. 0 \in S
  <2> DEFINE v == [k \in 0..L |-> VisitOf(h, <<>>, NULL)]
  <2>1. \A w : VisitOf(h, w, NULL) = VisitOf(h, <<>>, NULL)
    BY DEF VisitOf
  <2>2. v = [k \in 0..L |-> v[k]] /\ v[NULL] = VisitOf(h, <<>>, NULL)
    BY <1>0
  <2> HIDE DEF v
  <2>3. ASSUME NEW k \in 0..L, k = NULL \/ r[k] < 0 PROVE v[k] = VisitOf(h, v, k)
    <3>1. k = NULL
      BY <1>a, <2>3
    <3>2. QED BY <2>1, <2>2, <3>1
  <2>4. Good1(v, 0)
    BY <2>2, <2>3
  <2> HIDE DEF Good1
  <2>5. QED BY <2>4
<1>2. ASSUME NEW n \in S PROVE n + 1 \in S
  <2>1. n \in Nat
    OBVIOUS
  <2>2. PICK v : Good1(v, n)
    OBVIOUS
  <2> DEFINE e == [k \in 0..L |-> IF k = NULL \/ r[k] < n THEN v[k] ELSE VisitOf(h, v, k)]
  <2>3. e = [k \in 0..L |-> e[k]]
        /\ \A k \in 0..L : e[k] = IF k = NULL \/ r[k] < n THEN v[k] ELSE VisitOf(h, v, k)
    OBVIOUS
  <2> HIDE DEF e
  <2>4. ASSUME NEW k \in 0..L, k = NULL \/ r[k] < n + 1 PROVE e[k] = VisitOf(h, e, k)
    <3>1. e[k] = VisitOf(h, v, k)
      BY <2>2, <2>3
    <3>2. ASSUME NEW x \in 0..L, x = NULL \/ (k # NULL /\ r[x] < r[k]) PROVE e[x] = v[x]
      <4>1. x = NULL \/ r[x] < n
        BY <1>a, <2>1, <2>4, <3>2
      <4>2. QED BY <2>3, <4>1
    <3>3. VisitOf(h, e, k) = VisitOf(h, v, k)
      BY <1>b, <3>2
    <3>4. QED BY <3>1, <3>3
  <2>5. Good1(e, n + 1)
    BY <2>3, <2>4
  <2> HIDE DEF Good1
  <2>6. QED BY <2>1, <2>5
<1>3. S = Nat
  <2> HIDE DEF S
  <2> QED BY <1>1, <1>2, InductiveSet DEF S
<1>4. PICK N \in Nat : \A x \in 1..L : r[x] < N
  BY <1>0, RankBound
<1>5. PICK v : Good1(v, N)
  <2>1. N \in S
    <3> HIDE DEF S
    <3> QED BY <1>3
  <2> HIDE DEF Good1
  <2>2. QED BY <2>1
<1>6. \A k \in 0..L : v[k] = VisitOf(h, v, k)
  BY <1>0, <1>4, <1>5
<1>7. v = [k \in 0..L |-> VisitOf(h, v, k)]
  BY <1>5, <1>6
<1>8. QED BY <1>7 DEF Visits, L

\* The nodes that a call may visit from node on: in a list, not above node, and
\* for character data the first of its chunks.
Heads(h, kids, atts, r, node) ==
  {k \in 1..Len(h) : /\ r[k] <= r[node]
                     /\ \E t \in 1..Len(h) : k \in kids[t] \/ k \in atts[t]
                     /\ h[k].type = "CDATA" /\ k # node => Pointer(h, h[k].prev) # "CDATA"}

\* The first attribute and the first child of a head are heads.
LEMMA HeadsBelow ==
  ASSUME NEW h, NEW kids, NEW atts, NEW r, Good(h, kids, atts), RankedBy(h, r), NEW node \in 1..Len(h),
         NEW k \in Heads(h, kids, atts, r, node), h[k].type = "TAG"
  PROVE  /\ h[k].fatt = NULL \/ (h[k].fatt \in Heads(h, kids, atts, r, node) /\ r[h[k].fatt] < r[k])
         /\ h[k].first = NULL \/ (h[k].first \in Heads(h, kids, atts, r, node) /\ r[h[k].first] < r[k])
<1> DEFINE H == Heads(h, kids, atts, r, node)
<1>1. k \in 1..Len(h) /\ r[k] <= r[node]
  BY DEF Heads
<1>2. /\ kids[k] \in SUBSET (1..Len(h)) /\ atts[k] \in SUBSET (1..Len(h))
      /\ Chain(h, kids[k], h[k].first, h[k].last) /\ Chain(h, atts[k], h[k].fatt, h[k].latt)
  BY <1>1 DEF Good
<1>3. ASSUME NEW x \in 1..Len(h), x \in kids[k] \/ x \in atts[k], h[x].prev = NULL, r[x] < r[k]
      PROVE  x \in H
  <2>1. r[x] \in Nat /\ r[k] \in Nat /\ r[node] \in Nat
    BY <1>1 DEF RankedBy
  <2>2. r[x] <= r[node]
    BY <1>1, <1>3, <2>1
  <2>3. Pointer(h, h[x].prev) # "CDATA"
    BY <1>3 DEF Pointer
  <2>4. QED BY <1>1, <1>3, <2>2, <2>3 DEF Heads
<1>4. ASSUME h[k].fatt # NULL PROVE h[k].fatt \in H /\ r[h[k].fatt] < r[k]
  <2>1. r[h[k].fatt] < r[k]
    BY <1>1, <1>4 DEF RankedBy
  <2>2. h[k].fatt \in atts[k] /\ h[h[k].fatt].prev = NULL
    BY <1>2, <1>4 DEF Chain
  <2>3. h[k].fatt \in 1..Len(h)
    BY <1>2, <2>2
  <2> HIDE DEF H
  <2>4. QED BY <1>3, <2>1, <2>2, <2>3
<1>5. ASSUME h[k].first # NULL PROVE h[k].first \in H /\ r[h[k].first] < r[k]
  <2>1. r[h[k].first] < r[k]
    BY <1>1, <1>5 DEF RankedBy
  <2>2. h[k].first \in kids[k] /\ h[h[k].first].prev = NULL
    BY <1>2, <1>5 DEF Chain
  <2>3. h[k].first \in 1..Len(h)
    BY <1>2, <2>2
  <2> HIDE DEF H
  <2>4. QED BY <1>3, <2>1, <2>2, <2>3
<1>6. QED BY <1>4, <1>5

\* So is the node behind a head and behind its chunks.
LEMMA HeadsBehind ==
  ASSUME NEW h, NEW kids, NEW atts, NEW r, Good(h, kids, atts), RankedBy(h, r), NEW node \in 1..Len(h),
         NEW k \in Heads(h, kids, atts, r, node), Behind(h, k) # NULL
  PROVE  Behind(h, k) \in Heads(h, kids, atts, r, node) /\ r[Behind(h, k)] < r[k]
<1> DEFINE a == Behind(h, k)
<1>0. Shape(h) /\ Len(h) \in Nat /\ NULL \notin 1..Len(h) /\ \A y \in 0..Len(h) : y # NULL => y \in 1..Len(h)
  <2>1. Shape(h) /\ Len(h) \in Nat
    BY HeapLength DEF Good, Shape
  <2>2. NULL \notin 1..Len(h) /\ \A y \in 0..Len(h) : y # NULL => y \in 1..Len(h)
    BY ONLY <2>1 DEF NULL
  <2>3. QED BY <2>1, <2>2
<1>1. k \in 1..Len(h) /\ r[k] <= r[node]
  BY DEF Heads
<1>2. a \in 1..Len(h) /\ r[a] < r[k]
  BY <1>0, <1>1, BehindFalls
<1>3. PICK t \in 1..Len(h) : k \in kids[t] \/ k \in atts[t]
  BY DEF Heads
<1>4. /\ kids[t] \in SUBSET (1..Len(h)) /\ atts[t] \in SUBSET (1..Len(h))
      /\ Chain(h, kids[t], h[t].first, h[t].last) /\ Chain(h, atts[t], h[t].fatt, h[t].latt)
      /\ \A x \in atts[t] : h[x].type = "ATTRIB"
  BY DEF Good
<1>5. (a \in kids[t] \/ a \in atts[t]) /\ (h[a].type = "CDATA" => Pointer(h, h[a].prev) # "CDATA")
  <2>1. CASE Pointer(h, k) # "CDATA"
    <3>1. a = h[k].next
      BY <2>1 DEF Behind
    <3>2. h[a].prev = k /\ (a \in kids[t] \/ a \in atts[t])
      BY <1>3, <1>4, <3>1 DEF Chain
    <3>3. QED BY <2>1, <3>2
  <2>2. CASE Pointer(h, k) = "CDATA"
    <3> DEFINE xs == Chunks(h, k)
               e == xs[Len(xs)]
    <3>1. a = h[e].next
      BY <2>2 DEF Behind
    <3>2. Path(xs, k, Len(h), NextOf(h), NotText(h)) /\ Forward(Len(h), NextOf(h), NotText(h))
      BY <1>0, <1>1, ChunksIs, NextForward
    <3>3. k \notin NotText(h) /\ k # NULL /\ h[k].type = "CDATA"
      BY <1>0, <1>1, <2>2 DEF NotText, Pointer
    <3>4. xs \in Seq(1..Len(h)) /\ xs # <<>> /\ NextOf(h)[e] \in NotText(h)
      BY <3>2, <3>3 DEF Path
    <3>5. Len(xs) \in Nat \ {0} /\ \A i \in 1..Len(xs) : xs[i] \in 1..Len(h)
      BY <3>4, EmptySeq
    <3>6. Len(xs) \in 1..Len(xs)
      <4>1. \A n \in Nat \ {0} : n \in 1..n
        OBVIOUS
      <4>2. QED BY <3>5, <4>1, Zenon
    <3>7. k \in kids[t]
      BY <1>3, <1>4, <3>3
    <3>8. InOrder(h, kids[t], xs)
      BY <1>4, <3>2, <3>7, PathInChain
    <3>9. e \in kids[t] /\ e \in 1..Len(h) /\ e \in 0..Len(h) /\ e # NULL
      <4>1. e \in kids[t] /\ e \in 1..Len(h)
        BY <3>5, <3>6, <3>8 DEF InOrder
      <4>2. \A y \in 1..Len(h) : y \in 0..Len(h) /\ y # NULL
        BY ONLY <1>0 DEF NULL
      <4>3. QED BY <4>1, <4>2, Zenon
    <3> HIDE DEF xs, e
    <3>10. NextOf(h)[e] = a
      BY <3>1, <3>9 DEF NextOf
    <3>11. Pointer(h, a) # "CDATA"
      BY <3>4, <3>10 DEF NotText
    <3>12. h[a].type # "CDATA"
      BY <1>0, <1>2, <3>11 DEF Pointer
    <3>13. a \in kids[t]
      BY <1>4, <3>1, <3>9 DEF Chain
    <3>14. QED BY <3>12, <3>13
  <2>3. QED BY <2>1, <2>2
<1>6. r[a] <= r[node]
  <2>1. r[a] \in Nat /\ r[k] \in Nat /\ r[node] \in Nat
    BY <1>1, <1>2 DEF RankedBy
  <2> HIDE DEF a
  <2>2. QED BY <1>1, <1>2, <2>1
<1> HIDE DEF a
<1>7. a \in Heads(h, kids, atts, r, node)
  BY <1>2, <1>5, <1>6 DEF Heads
<1>8. QED BY <1>2, <1>7 DEF a

\* A visit from node on yields heads.
Steps(h, H) == [k : H, up : 0..Len(h)]

\* So only heads are visited, by induction over the ranks.
LEMMA VisitsHeads ==
  ASSUME NEW h, NEW kids, NEW atts, NEW r, Good(h, kids, atts), RankedBy(h, r), NEW node \in 1..Len(h),
         NEW v, Visits(h, v), NEW k \in Heads(h, kids, atts, r, node), NEW up \in 0..Len(h)
  PROVE  v[k][up] \in Seq(Steps(h, Heads(h, kids, atts, r, node)))
<1> DEFINE H == Heads(h, kids, atts, r, node)
           E == Steps(h, H)
           S == {n \in Nat : \A x \in H : r[x] < n => \A u \in 0..Len(h) : v[x][u] \in Seq(E)}
<1>0. Shape(h) /\ Len(h) \in Nat /\ NULL \in 0..Len(h) /\ NULL \notin 1..Len(h)
      /\ \A y \in 1..Len(h) : y \in 0..Len(h)
  <2>1. Shape(h) /\ Len(h) \in Nat
    BY HeapLength DEF Good, Shape
  <2>2. NULL \in 0..Len(h) /\ NULL \notin 1..Len(h) /\ \A y \in 1..Len(h) : y \in 0..Len(h)
    BY ONLY <2>1 DEF NULL
  <2>3. QED BY <2>1, <2>2
<1>1. H \in SUBSET (1..Len(h))
  BY DEF Heads
<1>2. \A x \in 1..Len(h) : r[x] \in Nat
  BY DEF RankedBy
<1>3. \A x \in H : h[x].type = "TAG" =>
        /\ h[x].fatt = NULL \/ (h[x].fatt \in H /\ r[h[x].fatt] < r[x])
        /\ h[x].first = NULL \/ (h[x].first \in H /\ r[h[x].first] < r[x])
  BY HeadsBelow
<1>4. \A x \in H : Behind(h, x) = NULL \/ (Behind(h, x) \in H /\ r[Behind(h, x)] < r[x])
  BY HeadsBehind
<1> HIDE DEF H
<1>5. \A u \in 0..Len(h) : v[NULL][u] \in Seq(E)
  <2>1. v[NULL] = VisitOf(h, v, NULL)
    BY <1>0 DEF Visits
  <2>2. \A u \in 0..Len(h) : v[NULL][u] = <<>>
    BY <2>1 DEF VisitOf
  <2>3. <<>> \in Seq(E)
    OBVIOUS
  <2> HIDE DEF E
  <2>4. QED BY <2>2, <2>3, Zenon
<1>6. 0 \in S
  BY <1>1, <1>2
<1>7. ASSUME NEW n \in S PROVE n + 1 \in S
  <2>1. n \in Nat
    OBVIOUS
  <2>2. SUFFICES ASSUME NEW x \in H, r[x] < n + 1, NEW u \in 0..Len(h) PROVE v[x][u] \in Seq(E)
    BY <2>1
  <2>3. x \in 1..Len(h) /\ x \in 0..Len(h) /\ x # NULL /\ r[x] \in Nat
    BY <1>0, <1>1, <1>2
  <2>4. ASSUME NEW y, y = NULL \/ (y \in H /\ r[y] < r[x]), NEW w \in 0..Len(h)
        PROVE  v[y][w] \in Seq(E)
    <3>1. CASE y = NULL
      BY <1>5, <3>1
    <3>2. CASE y \in H /\ r[y] < r[x]
      <4>1. \A a, b, m \in Nat : a < b /\ b < m + 1 => a < m
        OBVIOUS
      <4>2. r[y] \in Nat /\ r[x] \in Nat
        BY <1>1, <1>2, <2>3, <3>2
      <4>3. r[y] < n
        BY <2>1, <2>2, <3>2, <4>1, <4>2, Zenon
      <4>4. QED BY <3>2, <4>3
    <3>3. QED BY <2>4, <3>1, <3>2
  <2>5. v[x][u] = <<[k |-> x, up |-> u]>> \o Inner(h, v, x) \o v[Behind(h, x)][u]
    <3>1. v[x] = VisitOf(h, v, x)
      BY <2>3 DEF Visits
    <3>2. QED BY <2>3, <3>1 DEF VisitOf
  <2>6. Inner(h, v, x) \in Seq(E)
    <3>1. CASE Pointer(h, x) # "TAG"
      <4>1. <<>> \in Seq(E)
        OBVIOUS
      <4> HIDE DEF E
      <4>2. QED BY <3>1, <4>1 DEF Inner
    <3>2. CASE Pointer(h, x) = "TAG"
      <4>1. h[x].type = "TAG"
        BY <2>3, <3>2 DEF Pointer
      <4>2. v[h[x].fatt][x] \in Seq(E)
        BY <1>3, <2>3, <2>4, <4>1
      <4>3. v[h[x].first][x] \in Seq(E)
        BY <1>3, <2>3, <2>4, <4>1
      <4>4. Inner(h, v, x) = v[h[x].fatt][x] \o v[h[x].first][x]
        BY <3>2 DEF Inner
      <4> HIDE DEF E
      <4>5. v[h[x].fatt][x] \o v[h[x].first][x] \in Seq(E)
        BY ONLY <4>2, <4>3, ConcatProperties
      <4>6. QED BY <4>4, <4>5
    <3>3. QED BY <3>1, <3>2
  <2>7. v[Behind(h, x)][u] \in Seq(E)
    BY <1>4, <2>4
  <2>8. <<[k |-> x, up |-> u]>> \in Seq(E)
    <3>1. [k |-> x, up |-> u] \in E
      BY DEF Steps
    <3> HIDE DEF E
    <3>2. QED BY <3>1
  <2> HIDE DEF E
  <2>9. <<[k |-> x, up |-> u]>> \o Inner(h, v, x) \in Seq(E)
    BY ONLY <2>6, <2>8, ConcatProperties
  <2>10. <<[k |-> x, up |-> u]>> \o Inner(h, v, x) \o v[Behind(h, x)][u] \in Seq(E)
    BY ONLY <2>7, <2>9, ConcatProperties
  <2>11. QED BY <2>5, <2>10
<1>8. S = Nat
  <2> HIDE DEF S
  <2> QED BY <1>6, <1>7, InductiveSet DEF S
<1>9. k \in H /\ r[k] \in Nat /\ r[k] + 1 \in Nat /\ r[k] < r[k] + 1
  <2>1. k \in H /\ r[k] \in Nat
    BY <1>1, <1>2 DEF H
  <2>2. QED BY <2>1
<1>10. r[k] + 1 \in S
  <2> HIDE DEF S
  <2> QED BY <1>8, <1>9
<1>11. QED BY <1>9, <1>10 DEF H

\* Below yields heads.
LEMMA BelowIs ==
  ASSUME NEW h, NEW kids, NEW atts, NEW r, Good(h, kids, atts), RankedBy(h, r), NEW node \in 1..Len(h),
         node \in Heads(h, kids, atts, r, node)
  PROVE  Below(h, node) \in Seq(Steps(h, Heads(h, kids, atts, r, node)))
<1> DEFINE Is(v) == v = [k \in 0..Len(h) |->
                           LET inner == IF Pointer(h, k) # "TAG" THEN <<>>
                                        ELSE v[h[k].fatt][k] \o v[h[k].first][k]
                           IN  [up \in 0..Len(h) |->
                                  IF k = NULL THEN <<>>
                                  ELSE <<[k |-> k, up |-> up]>> \o inner \o v[Behind(h, k)][up]]]
           visit == CHOOSE v : Is(v)
<1>0. Shape(h) /\ 0 \in 0..Len(h)
  <2>1. Shape(h) /\ Len(h) \in Nat
    BY HeapLength DEF Good, Shape
  <2>2. QED BY <2>1
<1>1. \A v : Is(v) <=> Visits(h, v)
  BY DEF Visits, VisitOf, Inner
<1>2. Below(h, node) = visit[node][0]
  BY DEF Below
<1> HIDE DEF Is
<1>3. \E v : Is(v)
  BY <1>0, <1>1, VisitExists
<1>4. Visits(h, visit)
  BY <1>1, <1>3
<1> HIDE DEF visit
<1>5. QED BY <1>0, <1>2, <1>4, VisitsHeads

\* Where there is no node there is nothing to visit.
LEMMA BelowNull ==
  ASSUME NEW h, Shape(h), NEW r, RankedBy(h, r)
  PROVE  Below(h, NULL) = <<>>
<1> DEFINE Is(v) == v = [k \in 0..Len(h) |->
                           LET inner == IF Pointer(h, k) # "TAG" THEN <<>>
                                        ELSE v[h[k].fatt][k] \o v[h[k].first][k]
                           IN  [up \in 0..Len(h) |->
                                  IF k = NULL THEN <<>>
                                  ELSE <<[k |-> k, up |-> up]>> \o inner \o v[Behind(h, k)][up]]]
           visit == CHOOSE v : Is(v)
<1>0. NULL \in 0..Len(h) /\ 0 \in 0..Len(h)
  <2>1. Len(h) \in Nat
    BY HeapLength DEF Shape
  <2>2. QED BY ONLY <2>1 DEF NULL
<1>1. \A v : Is(v) <=> Visits(h, v)
  BY DEF Visits, VisitOf, Inner
<1>2. Below(h, NULL) = visit[NULL][0]
  BY DEF Below
<1> HIDE DEF Is
<1>3. \E v : Is(v)
  BY <1>1, VisitExists
<1>4. Visits(h, visit)
  BY <1>1, <1>3
<1> HIDE DEF visit
<1>5. visit[NULL] = VisitOf(h, visit, NULL)
  BY <1>0, <1>4 DEF Visits
<1>6. QED BY <1>0, <1>2, <1>5 DEF VisitOf

-----------------------------------------------------------------------------
\* The calls that copy

\* In the lists of g are all the nodes H of h, and character data among them is
\* still the first of its chunks, so that no merge takes it away.
Ready(h, H, node, g, kids, r) ==
  /\ Len(h) <= Len(g)
  /\ \A x \in H : /\ g[x].type = h[x].type
                  /\ r[x] <= r[node]
                  /\ h[x].type = "CDATA" =>
                       /\ \E t \in 1..Len(g) : x \in kids[t]
                       /\ x # node => Pointer(g, g[x].prev) # "CDATA"

Copying(h, H, node, g) ==
  \E kids, atts, r : Good(g, kids, atts) /\ RankedBy(g, r) /\ Ready(h, H, node, g, kids, r)

\* A copy starts with all heads in their lists.
LEMMA CopyingStarts ==
  ASSUME NEW h, NEW kids, NEW atts, NEW r, Good(h, kids, atts), RankedBy(h, r), NEW node \in 1..Len(h)
  PROVE  Copying(h, Heads(h, kids, atts, r, node), node, h)
<1> DEFINE H == Heads(h, kids, atts, r, node)
<1>1. Len(h) <= Len(h)
  BY HeapLength DEF Good, Shape
<1>2. ASSUME NEW x \in H
      PROVE  /\ r[x] <= r[node]
             /\ h[x].type = "CDATA" => /\ \E t \in 1..Len(h) : x \in kids[t]
                                       /\ x # node => Pointer(h, h[x].prev) # "CDATA"
  <2>1. r[x] <= r[node] /\ (h[x].type = "CDATA" /\ x # node => Pointer(h, h[x].prev) # "CDATA")
    BY DEF Heads
  <2>2. ASSUME h[x].type = "CDATA" PROVE \E t \in 1..Len(h) : x \in kids[t]
    <3>1. PICK t \in 1..Len(h) : x \in kids[t] \/ x \in atts[t]
      BY DEF Heads
    <3>2. x \notin atts[t]
      BY <2>2 DEF Good
    <3>3. QED BY <3>1, <3>2
  <2>3. QED BY <2>1, <2>2
<1> HIDE DEF H
<1>3. Ready(h, H, node, h, kids, r)
  BY <1>1, <1>2 DEF Ready
<1>4. Copying(h, H, node, h)
  BY <1>3 DEF Copying
<1>5. QED BY <1>4 DEF H

\* A step that takes no head out of its list.
LEMMA CopyingFollows ==
  ASSUME NEW h, Len(h) \in Nat, NEW H \in SUBSET (1..Len(h)), NEW node \in H,
         NEW g, NEW kids, NEW atts, NEW r, Good(g, kids, atts), RankedBy(g, r),
         Ready(h, H, node, g, kids, r),
         NEW g2, NEW gone, Follows(g, kids, r, g2, gone), \A x \in H : h[x].type = "CDATA" => x \notin gone
  PROVE  Copying(h, H, node, g2) /\ Len(g) <= Len(g2)
<1>1. PICK kids2, atts2 : /\ Good(g2, kids2, atts2)
                          /\ \A t \in 1..Len(g) : kids[t] \ gone \subseteq kids2[t]
  BY DEF Follows, ListsKept
<1>2. PICK r2 : RankedBy(g2, r2) /\ \A x, y \in 1..Len(g) : r[x] <= r[y] => r2[x] <= r2[y]
  BY DEF Follows, RankKept
<1>3. Len(g) <= Len(g2) /\ Len(h) <= Len(g)
  BY DEF Follows, Ready
<1>4. Len(g) \in Nat /\ Len(g2) \in Nat
  BY <1>1, HeapLength DEF Good, Shape
<1>5. Len(h) <= Len(g2) /\ (\A x \in 1..Len(h) : x \in 1..Len(g)) /\ \A t \in 1..Len(g) : t \in 1..Len(g2)
  BY ONLY <1>3, <1>4, Len(h) \in Nat
<1>6. ASSUME NEW x \in H
      PROVE  /\ g2[x].type = h[x].type
             /\ r2[x] <= r2[node]
             /\ h[x].type = "CDATA" =>
                  /\ \E t \in 1..Len(g2) : x \in kids2[t]
                  /\ x # node => Pointer(g2, g2[x].prev) # "CDATA"
  <2>1. x \in 1..Len(g) /\ node \in 1..Len(g)
    BY <1>5
  <2>2. g2[x].type = h[x].type
    BY <2>1 DEF Follows, Ready
  <2>3. r2[x] <= r2[node]
    BY <1>2, <2>1 DEF Ready
  <2>4. ASSUME h[x].type = "CDATA" PROVE \E t \in 1..Len(g2) : x \in kids2[t]
    <3>1. PICK t \in 1..Len(g) : x \in kids[t]
      BY <2>4 DEF Ready
    <3>2. QED BY <1>1, <1>5, <2>4, <3>1
  <2>5. ASSUME h[x].type = "CDATA", x # node PROVE Pointer(g2, g2[x].prev) # "CDATA"
    BY <2>1, <2>5 DEF Ready, Follows
  <2>6. QED BY <2>2, <2>3, <2>4, <2>5
<1>7. Ready(h, H, node, g2, kids2, r2)
  BY <1>5, <1>6 DEF Ready
<1>8. QED BY <1>1, <1>2, <1>3, <1>7 DEF Copying

\* An insertion takes nothing away.
LEMMA CopyingGrows ==
  ASSUME NEW h, Len(h) \in Nat, NEW H \in SUBSET (1..Len(h)), NEW node \in H,
         NEW g, NEW kids, NEW atts, NEW r, Good(g, kids, atts), RankedBy(g, r),
         Ready(h, H, node, g, kids, r),
         NEW g2, Follows(g, kids, r, g2, {})
  PROVE  Copying(h, H, node, g2) /\ Len(g) <= Len(g2)
<1>1. \A x \in H : h[x].type = "CDATA" => x \notin {}
  OBVIOUS
<1>2. QED BY <1>1, CopyingFollows

\* Reading a head merges chunks behind it, none of which is a head.
LEMMA CopyingReads ==
  ASSUME NEW h, Len(h) \in Nat, NEW H \in SUBSET (1..Len(h)), NEW node \in H,
         NEW g, NEW kids, NEW atts, NEW r, Good(g, kids, atts), RankedBy(g, r),
         Ready(h, H, node, g, kids, r),
         NEW k \in H, h[k].type = "CDATA"
  PROVE  Copying(h, H, node, get_data(g, k)) /\ Len(g) <= Len(get_data(g, k))
<1>0. Len(g) \in Nat /\ \A x \in H : x \in 1..Len(g)
  <2>1. Len(g) \in Nat
    BY HeapLength DEF Good, Shape
  <2>2. \A x \in 1..Len(h) : x \in 1..Len(g)
    BY <2>1 DEF Ready
  <2>3. QED BY <2>1, <2>2
<1>1. PICK t \in 1..Len(g) : k \in kids[t]
  BY DEF Ready
<1>2. g[k].type = "CDATA" /\ r[k] <= r[node]
  BY DEF Ready
<1>3. PICK gone : /\ Follows(g, kids, r, get_data(g, k), gone)
                  /\ \A d \in gone : r[d] < r[k] /\ Pointer(g, g[d].prev) = "CDATA"
  BY <1>1, <1>2, GetDataFollows
<1>4. ASSUME NEW x \in H, h[x].type = "CDATA" PROVE x \notin gone
  <2>1. CASE x = node
    <3>1. r[node] \in Nat /\ r[k] \in Nat
      BY <1>0 DEF RankedBy
    <3>2. ~(r[node] < r[k])
      BY <1>2, <3>1
    <3>3. QED BY <1>3, <2>1, <3>2
  <2>2. CASE x # node
    BY <1>3, <1>4, <2>2 DEF Ready
  <2>3. QED BY <2>1, <2>2
<1>5. QED BY <1>3, <1>4, CopyingFollows

\* One copy, and the places of all copies so far.
CopyInv(h, H, node, s) ==
  /\ s = [h |-> s.h, of |-> s.of]
  /\ Copying(h, H, node, s.h)
  /\ Len(h) <= Len(s.h) /\ Len(s.h) \in Nat
  /\ s.of \in [0..Len(h) -> 1..Len(s.h)]

\* One node is copied: an attribute, a tag, or text that is read first.
LEMMA CopyNodeKeeps ==
  ASSUME NEW h, Len(h) \in Nat, \A x \in 1..Len(h) : h[x].type \in Types,
         NEW H \in SUBSET (1..Len(h)), NEW node \in H,
         NEW s, CopyInv(h, H, node, s), NEW k \in H, NEW up \in 0..Len(h)
  PROVE  CopyInv(h, H, node, CopyNode(h, s, k, s.of[up]))
<1> DEFINE g == s.h
           to == s.of[up]
           c == CopyNode(h, s, k, to)
           read == get_data(g, k)
<1>1. /\ s = [h |-> g, of |-> s.of] /\ Copying(h, H, node, g) /\ Len(h) <= Len(g) /\ Len(g) \in Nat
      /\ s.of \in [0..Len(h) -> 1..Len(g)] /\ to \in 1..Len(g)
  BY DEF CopyInv
<1> HIDE DEF to
<1>2. PICK kids, atts, r : Good(g, kids, atts) /\ RankedBy(g, r) /\ Ready(h, H, node, g, kids, r)
  BY <1>1 DEF Copying
<1>3. ASSUME NEW g2, Copying(h, H, node, g2), Len(g) <= Len(g2)
      PROVE  /\ Len(g2) \in Nat /\ to \in 1..Len(g2) /\ s.of \in [0..Len(h) -> 1..Len(g2)]
             /\ CopyInv(h, H, node, [h |-> g2, of |-> s.of])
  <2>1. Len(g2) \in Nat
    BY <1>3, HeapLength DEF Copying, Good, Shape
  <2>2. 1..Len(g) \subseteq 1..Len(g2) /\ Len(h) <= Len(g2)
    BY ONLY <1>1, <1>3, <2>1
  <2>3. s.of \in [0..Len(h) -> 1..Len(g2)]
    BY <1>1, <2>2
  <2> DEFINE c2 == [h |-> g2, of |-> s.of]
  <2>4. c2.h = g2 /\ c2.of = s.of
    OBVIOUS
  <2>5. CopyInv(h, H, node, c2)
    BY <1>3, <2>1, <2>2, <2>3, <2>4 DEF CopyInv
  <2>6. QED BY <1>1, <2>1, <2>2, <2>3, <2>5
<1>4. CASE h[k].type = "ATTRIB"
  <2> DEFINE g2 == put_attrib(g, to, h[k].name, h[k].data)
  <2>1. c = [s EXCEPT !.h = g2]
    BY <1>4 DEF CopyNode
  <2>2. Follows(g, kids, r, g2, {})
    BY <1>1, <1>2, PutAttribFollows
  <2> HIDE DEF g2, c, g
  <2>3. c = [h |-> g2, of |-> s.of]
    BY <1>1, <2>1
  <2>4. Copying(h, H, node, g2) /\ Len(g) <= Len(g2)
    BY <1>2, <2>2, CopyingGrows
  <2>5. CopyInv(h, H, node, c)
    BY <1>3, <2>3, <2>4
  <2>6. QED BY <2>5 DEF c, to
<1>5. CASE h[k].type = "TAG"
  <2> DEFINE g2 == insert_tag(g, to, h[k].name)
             of2 == [s.of EXCEPT ![k] = Len(g) + 1]
  <2>1. c = [h |-> g2, of |-> of2]
    BY <1>5 DEF CopyNode
  <2>2. Follows(g, kids, r, g2, {})
    BY <1>1, <1>2, InsertTagFollows
  <2>3. Len(g2) = Len(g) + 1
    <3>1. IsHeap(g) /\ (g[to].first # NULL => g[to].last \in 1..Len(g))
      <4>1. IsHeap(g)
        BY <1>2 DEF Good, Shape
      <4>2. ASSUME g[to].first # NULL PROVE g[to].last \in 1..Len(g)
        BY <1>1, <1>2, <4>2, LastChild
      <4>3. QED BY <4>1, <4>2
    <3>2. Inserted(g, g2, to, "TAG")
      BY <1>1, <3>1, InsertIs DEF insert_tag
    <3>3. QED BY <3>2 DEF Inserted
  <2> HIDE DEF g2, c, g
  <2>4. Copying(h, H, node, g2) /\ Len(g) <= Len(g2)
    BY <1>2, <2>2, CopyingGrows
  <2>5. Len(g2) \in Nat /\ s.of \in [0..Len(h) -> 1..Len(g2)]
    BY <1>3, <2>4
  <2>6. Len(g) + 1 \in 1..Len(g2) /\ Len(h) <= Len(g2)
    BY ONLY <1>1, <2>3
  <2>7. of2 \in [0..Len(h) -> 1..Len(g2)]
    BY <2>5, <2>6
  <2> HIDE DEF of2
  <2>8. CopyInv(h, H, node, c)
    BY <2>1, <2>4, <2>5, <2>6, <2>7 DEF CopyInv
  <2>9. QED BY <2>8 DEF c, to
<1>6. CASE h[k].type = "CDATA"
  <2> DEFINE g2 == insert_cdata(read, to, DataOf(read, k))
  <2>1. c = [s EXCEPT !.h = g2]
    BY <1>6 DEF CopyNode
  <2>2. Copying(h, H, node, read) /\ Len(g) <= Len(read)
    BY <1>2, <1>6, CopyingReads
  <2>3. PICK kids2, atts2, r2 : /\ Good(read, kids2, atts2) /\ RankedBy(read, r2)
                                /\ Ready(h, H, node, read, kids2, r2)
    BY <2>2 DEF Copying
  <2>4. to \in 1..Len(read) /\ Len(read) \in Nat
    BY <1>3, <2>2
  <2>5. Follows(read, kids2, r2, g2, {})
    BY <2>3, <2>4, InsertCdataFollows
  <2> HIDE DEF g2, c, g, read
  <2>6. Copying(h, H, node, g2) /\ Len(read) <= Len(g2)
    BY <2>3, <2>5, CopyingGrows
  <2>7. Len(g2) \in Nat
    BY <2>6, HeapLength DEF Copying, Good, Shape
  <2>8. Len(g) <= Len(g2)
    BY ONLY <1>1, <2>2, <2>4, <2>6, <2>7
  <2>9. c = [h |-> g2, of |-> s.of]
    BY <1>1, <2>1
  <2>10. CopyInv(h, H, node, c)
    BY <1>3, <2>6, <2>8, <2>9
  <2>11. QED BY <2>10 DEF c, to
<1>7. h[k].type \in Types
  OBVIOUS
<1>8. QED BY <1>4, <1>5, <1>6, <1>7 DEF Types

\* The copies made after each node of todo.
CopiesUpto(h, base, todo, f) ==
  f = [i \in 0..Len(todo) |->
         IF i = 0 THEN base ELSE CopyNode(h, f[i - 1], todo[i].k, f[i - 1].of[todo[i].up])]

\* The copies are made one after the other.
LEMMA CopiesExist ==
  ASSUME NEW h, NEW base, NEW todo, Len(todo) \in Nat
  PROVE  \E f : CopiesUpto(h, base, todo, f)
<1> DEFINE N == Len(todo)
           Step(i, s) == CopyNode(h, s, todo[i].k, s.of[todo[i].up])
           Upto(f, n) == /\ f = [i \in 0..N |-> f[i]]
                         /\ f[0] = base
                         /\ \A i \in 1..n : f[i] = Step(i, f[i - 1])
           S == {n \in Nat : n <= N => \E f : Upto(f, n)}
<1> HIDE DEF N, Step
<1>0. N \in Nat
  BY DEF N
<1>1. 0 \in S
  <2> DEFINE f == [i \in 0..N |-> base]
  <2>1. Upto(f, 0)
    BY <1>0
  <2> HIDE DEF Upto
  <2>2. QED BY <2>1
<1>2. ASSUME NEW n \in S PROVE n + 1 \in S
  <2>1. n \in Nat
    OBVIOUS
  <2>2. SUFFICES ASSUME n + 1 <= N PROVE \E f : Upto(f, n + 1)
    BY <2>1
  <2>3. PICK f : Upto(f, n)
    BY <1>0, <2>1, <2>2
  <2> DEFINE e == [i \in 0..N |-> IF i = n + 1 THEN Step(n + 1, f[n]) ELSE f[i]]
  <2>4. n + 1 \in 0..N /\ 0 \in 0..N /\ n \in 0..N /\ 0 # n + 1 /\ n # n + 1
    BY <1>0, <2>1, <2>2
  <2>5. e[n + 1] = Step(n + 1, f[n]) /\ \A i \in 0..N : i # n + 1 => e[i] = f[i]
    BY <2>4
  <2>6. e = [i \in 0..N |-> e[i]]
    OBVIOUS
  <2> HIDE DEF e
  <2>7. e[0] = base /\ e[n] = f[n]
    BY <2>3, <2>4, <2>5
  <2>8. ASSUME NEW i \in 1..(n + 1) PROVE e[i] = Step(i, e[i - 1])
    <3>1. CASE i = n + 1
      <4>1. i - 1 = n
        BY <2>1, <3>1
      <4>2. QED BY <2>5, <2>7, <3>1, <4>1
    <3>2. CASE i # n + 1
      <4>1. i \in 1..n /\ i \in 0..N /\ i - 1 \in 0..N /\ i - 1 # n + 1
        BY <1>0, <2>1, <2>2, <3>2
      <4>2. f[i] = Step(i, f[i - 1])
        BY <2>3, <4>1
      <4>3. QED BY <2>5, <3>2, <4>1, <4>2
    <3>3. QED BY <3>1, <3>2
  <2>9. Upto(e, n + 1)
    BY <2>6, <2>7, <2>8
  <2> HIDE DEF Upto
  <2>10. QED BY <2>9
<1>3. S = Nat
  <2> HIDE DEF S
  <2> QED BY <1>1, <1>2, InductiveSet DEF S
<1>4. PICK f : Upto(f, N)
  <2>1. N \in S /\ N <= N
    <3> HIDE DEF S
    <3> QED BY <1>0, <1>3
  <2> HIDE DEF Upto
  <2>2. QED BY <2>1
<1>5. \A i \in 0..N : f[i] = IF i = 0 THEN base ELSE Step(i, f[i - 1])
  <2>1. \A i \in 0..N : i = 0 \/ i \in 1..N
    BY <1>0
  <2>2. QED BY <1>4, <2>1
<1>6. f = [i \in 0..N |-> IF i = 0 THEN base ELSE Step(i, f[i - 1])]
  BY <1>4, <1>5
<1>7. QED BY <1>6 DEF CopiesUpto, Step, N

\* Each of them keeps what the next relies on.
LEMMA CopiesKeep ==
  ASSUME NEW h, Len(h) \in Nat, \A x \in 1..Len(h) : h[x].type \in Types,
         NEW H \in SUBSET (1..Len(h)), NEW node \in H,
         NEW base, CopyInv(h, H, node, base), NEW todo \in Seq(Steps(h, H)),
         NEW f, CopiesUpto(h, base, todo, f)
  PROVE  CopyInv(h, H, node, f[Len(todo)])
<1> DEFINE N == Len(todo)
           S == {n \in Nat : n <= N => CopyInv(h, H, node, f[n])}
<1>0. N \in Nat /\ \A i \in 1..N : todo[i] \in Steps(h, H)
  OBVIOUS
<1>a. \A i \in 0..N : f[i] = IF i = 0 THEN base
                             ELSE CopyNode(h, f[i - 1], todo[i].k, f[i - 1].of[todo[i].up])
  BY DEF CopiesUpto
<1> HIDE DEF N
<1>1. 0 \in S
  BY <1>0, <1>a
<1>2. ASSUME NEW n \in S PROVE n + 1 \in S
  <2>1. n \in Nat
    OBVIOUS
  <2>2. SUFFICES ASSUME n + 1 <= N PROVE CopyInv(h, H, node, f[n + 1])
    BY <2>1
  <2>3. n <= N /\ n + 1 \in 0..N /\ n + 1 \in 1..N /\ n + 1 # 0 /\ (n + 1) - 1 = n
    BY <1>0, <2>1, <2>2
  <2>4. CopyInv(h, H, node, f[n])
    BY <2>3
  <2>5. todo[n + 1].k \in H /\ todo[n + 1].up \in 0..Len(h)
    BY <1>0, <2>3 DEF Steps
  <2>6. f[n + 1] = CopyNode(h, f[n], todo[n + 1].k, f[n].of[todo[n + 1].up])
    BY <1>a, <2>3
  <2>7. QED BY <2>4, <2>5, <2>6, CopyNodeKeeps
<1>3. S = Nat
  <2> HIDE DEF S
  <2> QED BY <1>1, <1>2, InductiveSet DEF S
<1>4. N \in S /\ N <= N
  <2> HIDE DEF S
  <2> QED BY <1>0, <1>3
<1>5. QED BY <1>4 DEF N

\* xmlnode_insert_node makes all copies of what it visits.
LEMMA InsertNodeIs ==
  ASSUME NEW h, NEW p, NEW node, Len(Below(h, node)) \in Nat
  PROVE  \E f : /\ CopiesUpto(h, [h |-> h, of |-> [k \in 0..Len(h) |-> p]], Below(h, node), f)
                /\ insert_node(h, p, node) = f[Len(Below(h, node))]
<1> DEFINE todo == Below(h, node)
           base == [h |-> h, of |-> [k \in 0..Len(h) |-> p]]
           Is(f) == f = [i \in 0..Len(todo) |->
                           IF i = 0 THEN base
                           ELSE CopyNode(h, f[i - 1], todo[i].k, f[i - 1].of[todo[i].up])]
           upto == CHOOSE f : Is(f)
<1>1. insert_node(h, p, node) = upto[Len(todo)]
  BY DEF insert_node
<1>2. \A f : Is(f) <=> CopiesUpto(h, base, todo, f)
  BY DEF CopiesUpto
<1> HIDE DEF Is
<1>3. \E f : Is(f)
  <2>1. Len(todo) \in Nat
    OBVIOUS
  <2> HIDE DEF base, todo
  <2>2. QED BY <1>2, <2>1, CopiesExist
<1>4. CopiesUpto(h, base, todo, upto)
  BY <1>2, <1>3
<1> HIDE DEF upto
<1>5. QED BY <1>1, <1>4

\* xmlnode_insert_node of a node in a list keeps the invariant.
LEMMA InsertNodeKeeps ==
  ASSUME NEW h, NEW kids, NEW atts, NEW r, Good(h, kids, atts), RankedBy(h, r),
         NEW p \in 1..Len(h), NEW node \in 1..Len(h),
         \E t \in 1..Len(h) : node \in kids[t] \/ node \in atts[t]
  PROVE  Kept(insert_node(h, p, node).h)
<1> DEFINE H == Heads(h, kids, atts, r, node)
           base == [h |-> h, of |-> [k \in 0..Len(h) |-> p]]
           todo == Below(h, node)
<1>1. Len(h) \in Nat /\ \A x \in 1..Len(h) : h[x].type \in Types
  BY HeapLength DEF Good, Shape
<1>2. H \in SUBSET (1..Len(h)) /\ node \in H
  <2>1. r[node] <= r[node]
    BY DEF RankedBy
  <2>2. QED BY <2>1 DEF Heads
<1>3. todo \in Seq(Steps(h, H))
  BY <1>2, BelowIs
<1>4. Copying(h, H, node, h)
  BY CopyingStarts
<1> HIDE DEF H
<1>5. CopyInv(h, H, node, base)
  <2>1. base.h = h /\ base.of = [k \in 0..Len(h) |-> p] /\ base = [h |-> base.h, of |-> base.of]
    OBVIOUS
  <2>2. base.of \in [0..Len(h) -> 1..Len(h)] /\ Len(h) <= Len(h)
    BY <1>1, <2>1
  <2> HIDE DEF base
  <2>3. QED BY <1>1, <1>4, <2>1, <2>2 DEF CopyInv
<1>6. PICK f : CopiesUpto(h, base, todo, f) /\ insert_node(h, p, node) = f[Len(todo)]
  <2>1. Len(todo) \in Nat
    BY <1>3
  <2>2. QED BY <2>1, InsertNodeIs
<1> HIDE DEF base, todo
<1>7. CopyInv(h, H, node, insert_node(h, p, node))
  BY <1>1, <1>2, <1>3, <1>5, <1>6, CopiesKeep
<1>8. QED BY <1>7 DEF CopyInv, Copying, Kept

\* xmlnode_insert_node of no node does nothing.
LEMMA InsertNothing ==
  ASSUME NEW h, NEW kids, NEW atts, NEW r, Good(h, kids, atts), RankedBy(h, r), NEW p
  PROVE  insert_node(h, p, NULL).h = h
<1> DEFINE base == [h |-> h, of |-> [k \in 0..Len(h) |-> p]]
<1>1. Below(h, NULL) = <<>>
  BY BelowNull DEF Good
<1>2. PICK f : CopiesUpto(h, base, <<>>, f) /\ insert_node(h, p, NULL) = f[0]
  <2>1. Len(<<>>) = 0
    OBVIOUS
  <2>2. QED BY <1>1, <2>1, InsertNodeIs
<1>3. f[0] = base
  BY <1>2 DEF CopiesUpto
<1>4. QED BY <1>2, <1>3

\* A call that copies keeps the lists.
LEMMA CopyCallKeeps ==
  ASSUME TreeInv, CopyCall
  PROVE  Kept(heap')
<1>1. PICK kids, atts, r : Good(heap, kids, atts) /\ RankedBy(heap, r)
  BY DEF TreeInv, Kept
<1>2. Shape(heap) /\ DOMAIN heap = 1..Len(heap)
  BY <1>1, HeapLength DEF Good, Shape
<1>3. PICK p \in Tags, q \in Tags : InsertAttribs(p, q) \/ \E x \in Shown(q) : InsertNode(p, q, x)
  BY DEF CopyCall
<1>4. p \in 1..Len(heap) /\ q \in 1..Len(heap)
  BY <1>2 DEF Tags
<1>5. CASE InsertAttribs(p, q)
  <2> DEFINE node == heap[q].fatt
  <2>1. heap' = insert_node(heap, p, node).h
    BY <1>5 DEF InsertAttribs
  <2>2. CASE node = NULL
    <3>1. heap' = heap
      BY <1>1, <2>1, <2>2, InsertNothing
    <3>2. QED BY <1>1, <3>1 DEF Kept
  <2>3. CASE node # NULL
    <3>1. node \in atts[q] /\ atts[q] \in SUBSET (1..Len(heap))
      BY <1>1, <1>4, <2>3 DEF Good, Chain
    <3> HIDE DEF node
    <3>2. QED BY <1>1, <1>4, <2>1, <3>1, InsertNodeKeeps
  <2>4. QED BY <2>2, <2>3
<1>6. CASE \E x \in Shown(q) : InsertNode(p, q, x)
  <2>1. PICK x \in Shown(q) : heap' = insert_node(heap, p, x).h
    BY <1>6 DEF InsertNode
  <2>2. x \in kids[q] /\ x \in 1..Len(heap)
    BY <1>1, <1>4, ShownIsKid
  <2>3. QED BY <1>1, <1>4, <2>1, <2>2, InsertNodeKeeps
<1>7. QED BY <1>3, <1>5, <1>6

-----------------------------------------------------------------------------

(* Whatever a client of xmlnode.c inserts, sets, hides, reads, wraps and copies,
   and in any order, the list of the children of a tag and the list of its
   attributes read backwards as they read forwards, they end where the tag says,
   and a child is in the list of its parent. *)
THEOREM TreeListsAgree == Spec => []ListsAgree
<1>1. Init => TreeInv
  BY InitGood
<1>2. TreeInv /\ [Next]_vars => TreeInv'
  <2> SUFFICES ASSUME TreeInv, [Next]_vars PROVE TreeInv'
    OBVIOUS
  <2>1. ASSUME Kept(heap') PROVE TreeInv'
    BY <2>1 DEF TreeInv
  <2>2. CASE Call
    BY <2>1, <2>2, CallKeeps
  <2>3. CASE CopyCall
    BY <2>1, <2>3, CopyCallKeeps
  <2>4. CASE UNCHANGED vars
    <3>1. heap' = heap
      BY <2>4 DEF vars
    <3>2. Kept(heap')
      BY <3>1 DEF TreeInv
    <3>3. QED BY <2>1, <3>2
  <2>5. QED BY <2>2, <2>3, <2>4 DEF Next
<1>3. TreeInv => ListsAgree
  BY GoodAgree
<1>4. QED BY <1>1, <1>2, <1>3, PTL DEF Spec
=============================================================================
