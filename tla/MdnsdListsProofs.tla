--------------------------- MODULE MdnsdListsProofs ---------------------------
(***************************************************************************)
(* Theorems about MdnsdRecords, for every set of records, keys and data,   *)
(* every packet size and wait, and every environment (Env = EnvKinds       *)
(* included): what the lists of mdnsd.c hold, and what peers have heard.   *)
(*                                                                         *)
(* The lists share one link field, so no fact about one of them stands     *)
(* alone: the inductive invariant ListsInv says where every record is      *)
(* (PlaceInv, AnnounceInv), how far it was probed (CountInv), what peers   *)
(* know of it (CurrentInv), what the loops in progress have before them    *)
(* (LoopInv) and what a shutdown leaves to be said (LastInv).              *)
(***************************************************************************)
EXTENDS MdnsdRecordsProofs

\* The records of the list with head h.
Chain(l, h) == {r \in Rec : OnList(l, h, r)}

-----------------------------------------------------------------------------
\* Lemmas about the records of a list

\* A set that holds the head and is closed under the link holds the list.
LEMMA ChainWithin ==
  ASSUME NEW l, NEW h \in Rec \cup {Nil}, NEW C \in SUBSET Rec, h \in C \cup {Nil},
         \A x \in C : l[x] \in C \cup {Nil}
  PROVE  Chain(l, h) \subseteq C
BY DEF Chain, OnList

LEMMA ChainNil ==
  ASSUME NEW l
  PROVE  Chain(l, Nil) = {}
BY DEF Chain, OnList

LEMMA ChainHead ==
  ASSUME NEW l \in Links, NEW h \in Rec
  PROVE  h \in Chain(l, h)
BY OnListHead DEF Chain

\* A list is closed under the link.
LEMMA ChainClosed ==
  ASSUME NEW l \in Links, NEW h \in Rec \cup {Nil}, NEW x \in Chain(l, h)
  PROVE  l[x] \in Chain(l, h) \cup {Nil}
<1>1. x \in Rec /\ OnList(l, h, x)
  BY DEF Chain
<1>2. CASE l[x] = Nil
  BY <1>2
<1>3. CASE l[x] # Nil
  <2>1. OnList(l, h, l[x])
    BY <1>1, <1>3, OnListStep
  <2>2. l[x] \in Rec
    BY <1>1, <1>3 DEF Links
  <2>3. QED BY <2>1, <2>2 DEF Chain
<1>4. QED BY <1>2, <1>3

\* What follows a record of a list is on the list.
LEMMA ChainSuffix ==
  ASSUME NEW l \in Links, NEW h \in Rec \cup {Nil}, NEW x \in Rec \cup {Nil},
         x \in Chain(l, h) \cup {Nil}
  PROVE  Chain(l, x) \subseteq Chain(l, h)
<1>1. Chain(l, h) \in SUBSET Rec
  BY DEF Chain
<1>2. \A y \in Chain(l, h) : l[y] \in Chain(l, h) \cup {Nil}
  BY ChainClosed
<1>3. QED BY <1>1, <1>2, ChainWithin

\* A list is its head and the list that follows it, which the head is not on.
LEMMA ChainTail ==
  ASSUME NEW l \in Links, Acyclic(l), NEW h \in Rec
  PROVE  Chain(l, l[h]) = Chain(l, h) \ {h}
<1> DEFINE n == l[h]
<1>0. n \in Rec \cup {Nil}
  BY DEF Links
<1>1. h \notin Chain(l, n)
  <2>1. CASE n = Nil
    BY <2>1, ChainNil
  <2>2. CASE n # Nil
    BY <1>0, <2>2, NoReturn DEF Chain
  <2>3. QED BY <2>1, <2>2
<1>2. h \in Chain(l, h)
  BY ChainHead
<1>3. Chain(l, n) \subseteq Chain(l, h)
  <2>1. n \in Chain(l, h) \cup {Nil}
    BY <1>2, ChainClosed
  <2>2. QED BY <1>0, <2>1, ChainSuffix
<1>4. Chain(l, h) \subseteq Chain(l, n) \cup {h}
  <2> DEFINE C == Chain(l, n) \cup {h}
  <2>1. C \in SUBSET Rec /\ h \in C
    BY DEF Chain
  <2>2. \A x \in Chain(l, n) : l[x] \in Chain(l, n) \cup {Nil}
    BY <1>0, ChainClosed
  <2>3. l[h] \in C \cup {Nil}
    <3>1. CASE n = Nil
      BY <3>1
    <3>2. CASE n # Nil
      BY <1>0, <3>2, ChainHead
    <3>3. QED BY <3>1, <3>2
  <2>4. \A x \in C : l[x] \in C \cup {Nil}
    BY <2>2, <2>3
  <2> HIDE DEF C
  <2>5. Chain(l, h) \subseteq C
    BY <2>1, <2>4, ChainWithin
  <2>6. QED BY <2>5 DEF C
<1>5. QED BY <1>1, <1>3, <1>4

\* Links that agree along a list give the same list.
LEMMA ChainAgrees ==
  ASSUME NEW l \in Links, NEW k \in Links, NEW h \in Rec \cup {Nil},
         \A x \in Chain(l, h) : k[x] = l[x]
  PROVE  Chain(k, h) = Chain(l, h)
<1>1. Chain(l, h) \in SUBSET Rec /\ Chain(k, h) \in SUBSET Rec
  BY DEF Chain
<1>2. h \in Chain(l, h) \cup {Nil} /\ h \in Chain(k, h) \cup {Nil}
  BY ChainHead
<1>3. \A x \in Chain(l, h) : l[x] \in Chain(l, h) \cup {Nil}
  BY ChainClosed
<1>4. \A x \in Chain(k, h) : k[x] \in Chain(k, h) \cup {Nil}
  BY ChainClosed
<1>5. Chain(k, h) \subseteq Chain(l, h)
  <2>1. \A x \in Chain(l, h) : k[x] \in Chain(l, h) \cup {Nil}
    BY <1>3
  <2>2. QED BY <1>1, <1>2, <2>1, ChainWithin
<1>6. Chain(l, h) \subseteq Chain(k, h)
  <2> DEFINE C == Chain(l, h) \cap Chain(k, h)
  <2>1. C \in SUBSET Rec /\ h \in C \cup {Nil}
    BY <1>1, <1>2
  <2>2. \A x \in C : l[x] \in C \cup {Nil}
    BY <1>3, <1>4
  <2> HIDE DEF C
  <2>3. Chain(l, h) \subseteq C
    BY <2>1, <2>2, ChainWithin
  <2>4. QED BY <2>3 DEF C
<1>7. QED BY <1>5, <1>6

\* Push, from the links l and the head h to k and g.
Pushed(l, h, r, k, g) ==
  IF OnList(l, h, r) THEN k = l /\ g = h ELSE k = [l EXCEPT ![r] = h] /\ g = r

\* "make sure not already on the list, then insert": the list gains the record,
\* every other link stays.
LEMMA ChainPush ==
  ASSUME NEW l \in Links, Acyclic(l), NEW h \in Rec \cup {Nil}, NEW g, NEW k,
         NEW r \in Rec,
         Pushed(l, h, r, k, g)
  PROVE  /\ g \in Rec \cup {Nil} /\ k \in Links /\ Acyclic(k)
         /\ Chain(k, g) = Chain(l, h) \cup {r}
         /\ \A x \in Rec : k[x] # l[x] => x = r /\ r \notin Chain(l, h) /\ k[r] = h
<1>1. g \in Rec \cup {Nil} /\ k \in Links
  BY PushType DEF Pushed
<1>2. Acyclic(k)
  <2>1. IF OnList(l, h, r) THEN k = l ELSE k = [l EXCEPT ![r] = h]
    BY DEF Pushed
  <2>2. QED BY <2>1, PushKeepsAcyclic
<1>3. CASE OnList(l, h, r)
  <2>1. k = l /\ g = h /\ r \in Chain(l, h)
    BY <1>3 DEF Chain, Pushed
  <2>2. QED BY <1>1, <1>2, <2>1
<1>4. CASE ~OnList(l, h, r)
  <2>1. k = [l EXCEPT ![r] = h] /\ g = r /\ r \notin Chain(l, h)
    BY <1>4 DEF Chain, Pushed
  <2>2. k[r] = h /\ \A x \in Rec \ {r} : k[x] = l[x]
    BY <2>1 DEF Links
  <2>3. Chain(k, h) = Chain(l, h)
    <3>1. \A x \in Chain(l, h) : k[x] = l[x]
      BY <2>1, <2>2 DEF Chain
    <3>2. QED BY <1>1, <3>1, ChainAgrees
  <2>4. Chain(k, h) = Chain(k, r) \ {r}
    BY <1>1, <1>2, <2>2, ChainTail
  <2>5. r \in Chain(k, r)
    BY <1>1, ChainHead
  <2>6. QED BY <1>1, <1>2, <2>1, <2>2, <2>3, <2>4, <2>5
<1>5. QED BY <1>3, <1>4

\* Of two records of a list one follows the other.
LEMMA ChainOrder ==
  ASSUME NEW l \in Links, NEW h \in Rec \cup {Nil},
         NEW x \in Chain(l, h), NEW y \in Chain(l, h)
  PROVE  y \in Chain(l, x) \/ x \in Chain(l, y)
<1>0. x \in Rec /\ y \in Rec
  BY DEF Chain
<1> DEFINE C == {z \in Rec : z \in Chain(l, x) \/ x \in Chain(l, z)}
<1>1. C \in SUBSET Rec
  OBVIOUS
<1>2. h \in C
  <2>1. h \in Rec
    BY ChainNil
  <2>2. QED BY <2>1
<1>3. ASSUME NEW z \in C PROVE l[z] \in C \cup {Nil}
  <2>1. SUFFICES ASSUME l[z] # Nil PROVE l[z] \in C
    OBVIOUS
  <2>2. z \in Rec /\ l[z] \in Rec
    BY <2>1 DEF Links
  <2>3. CASE z \in Chain(l, x)
    BY <1>0, <2>1, <2>2, <2>3, ChainClosed
  <2>4. CASE z = x
    <3>1. x \in Chain(l, x)
      BY <1>0, ChainHead
    <3>2. QED BY <2>3, <2>4, <3>1
  <2>5. CASE x \in Chain(l, z) /\ z # x
    <3> DEFINE D == Chain(l, l[z]) \cup {z}
    <3>1. D \in SUBSET Rec /\ z \in D
      BY <2>2 DEF Chain
    <3>2. l[z] \in Chain(l, l[z])
      BY <2>2, ChainHead
    <3>3. \A w \in Chain(l, l[z]) : l[w] \in Chain(l, l[z]) \cup {Nil}
      BY <2>2, ChainClosed
    <3>4. \A w \in D : l[w] \in D \cup {Nil}
      BY <3>2, <3>3
    <3> HIDE DEF D
    <3>5. Chain(l, z) \subseteq D
      BY <2>2, <3>1, <3>4, ChainWithin
    <3>6. x \in Chain(l, l[z])
      BY <2>5, <3>5 DEF D
    <3>7. QED BY <2>2, <3>6
  <2>6. QED BY <2>3, <2>4, <2>5
<1> HIDE DEF C
<1>4. Chain(l, h) \subseteq C
  BY <1>1, <1>2, <1>3, ChainWithin
<1>5. QED BY <1>4 DEF C

\* Making the predecessor skip a record takes that record off the list, and
\* nothing else, whatever becomes of its own link.
LEMMA ChainSkip ==
  ASSUME NEW l \in Links, Acyclic(l), NEW k \in Links, NEW h \in Rec \cup {Nil},
         NEW p \in Chain(l, h), NEW c \in Rec, l[p] = c, k[p] = l[c],
         \A x \in Chain(l, h) \ {p, c} : k[x] = l[x]
  PROVE  /\ c \in Chain(l, h) /\ p # c /\ h # c
         /\ Chain(k, h) = Chain(l, h) \ {c}
<1> DEFINE D == Chain(l, h) \ {c}
<1>0. p \in Rec /\ Chain(l, h) \in SUBSET Rec /\ h \in Chain(l, h)
  BY ChainNil, ChainHead DEF Chain
<1>1. c \in Chain(l, h)
  BY ChainClosed, NilAssumption
<1>2. p \notin Chain(l, c)
  BY <1>0, NoReturn DEF Chain
<1>3. p # c /\ h # c
  BY <1>2, <1>0, ChainHead
<1>4. \A x \in D : k[x] \in D \cup {Nil}
  <2>1. k[p] \in D \cup {Nil}
    <3>1. l[c] \in Chain(l, h) \cup {Nil}
      BY <1>1, ChainClosed
    <3>2. l[c] # c
      <4>1. l[c] \in Chain(l, c) \cup {Nil}
        BY ChainHead, ChainClosed
      <4>2. Chain(l, l[c]) = Chain(l, c) \ {c}
        BY ChainTail
      <4>3. QED BY <4>2, ChainHead
    <3>3. QED BY <3>1, <3>2
  <2>2. ASSUME NEW x \in D, x # p PROVE k[x] \in D \cup {Nil}
    <3>1. k[x] = l[x] /\ l[x] \in Chain(l, h) \cup {Nil} /\ x \in Rec
      BY <1>0, <2>2, ChainClosed
    <3>2. l[x] # c
      <4>1. SUFFICES ASSUME l[x] = c PROVE FALSE
        OBVIOUS
      <4>2. x \notin Chain(l, c)
        BY <3>1, <4>1, NoReturn DEF Chain
      <4>3. x \in Chain(l, p) \/ p \in Chain(l, x)
        BY <2>2, ChainOrder
      <4>4. Chain(l, p) = Chain(l, c) \cup {p}
        BY <1>0, <1>2, ChainTail, ChainHead
      <4>5. Chain(l, x) = Chain(l, c) \cup {x}
        BY <3>1, <4>1, <4>2, ChainTail, ChainHead
      <4>6. QED BY <1>2, <2>2, <4>2, <4>3, <4>4, <4>5
    <3>3. QED BY <3>1, <3>2
  <2>3. QED BY <2>1, <2>2
<1>5. D \in SUBSET Rec /\ h \in D
  BY <1>0, <1>3
<1>6. Chain(k, h) \subseteq D
  <2> HIDE DEF D
  <2>1. QED BY <1>4, <1>5, ChainWithin
<1>7. D \subseteq Chain(k, h)
  <2> DEFINE E == Chain(k, h)
  <2>1. E \in SUBSET Rec /\ h \in E
    BY <1>0, ChainHead DEF Chain
  <2>2. \A x \in E : k[x] \in E \cup {Nil}
    BY ChainClosed
  <2>3. p \in E
    <3>1. SUFFICES ASSUME p \notin E PROVE FALSE
      OBVIOUS
    <3>2. \A x \in E : l[x] \in E \cup {Nil}
      BY <1>6, <2>2, <3>1
    <3> HIDE DEF E
    <3>3. Chain(l, h) \subseteq E
      BY <2>1, <3>2, ChainWithin
    <3>4. QED BY <3>1, <3>3
  <2>4. \A x \in E \cup {c} : l[x] \in (E \cup {c}) \cup {Nil}
    <3>1. l[p] = c
      OBVIOUS
    <3>2. l[c] \in E \cup {Nil}
      BY <2>2, <2>3
    <3>3. \A x \in E \ {p} : l[x] \in E \cup {Nil}
      BY <1>6, <2>2
    <3>4. QED BY <3>1, <3>2, <3>3
  <2>5. E \cup {c} \in SUBSET Rec /\ h \in E \cup {c}
    BY <2>1
  <2> HIDE DEF E
  <2>6. Chain(l, h) \subseteq E \cup {c}
    BY <2>4, <2>5, ChainWithin
  <2>7. QED BY <2>6 DEF E
<1>8. QED BY <1>1, <1>3, <1>6, <1>7

-----------------------------------------------------------------------------
\* The invariant

\* The live records being probed, and the created ones that are not (any more);
\* a record freed while it was probed is neither.
Probers == {r \in Rec : heap[r] = "live" /\ Probing(r)}
Nonprobers == {r \in Rec : heap[r] # "none" /\ ~Probing(r)}
Announced == Chain(list, a_publish)

\* A record that does not exist yet is as its allocation will leave it.
FreshInv ==
  \A r \in Rec : heap[r] = "none" =>
    /\ unique[r] = 0 /\ tries[r] = 0 /\ ttl[r] = 1 /\ data[r] = Empty
    /\ heard[r] = Nil /\ probes[r] = 0

\* The state of a unique record counts its probes, and nothing was announced of
\* a record being probed or left standing of one that is freed.
CountInv ==
  \A r \in Rec :
    /\ unique[r] \in 0..5
    /\ Probing(r) => /\ heard[r] \in {Nil, Gone}
                     /\ probes[r] >= 3 \/ unique[r] <= probes[r] + 1
    /\ unique[r] = 5 => probes[r] >= 3
    /\ heap[r] = "freed" => heard[r] \in {Nil, Gone}

\* Until the shutdown re-links everything, the probing list is the records being
\* probed, and the three other lists stay among the records that are not.
PlaceInv ==
  ~shutdown =>
    /\ Chain(list, probing) = Probers
    /\ \A r \in Nonprobers : list[r] \in Nonprobers \cup {Nil}
    /\ a_now \in Nonprobers \cup {Nil}
    /\ a_pause \in Nonprobers \cup {Nil}
    /\ a_publish \in Nonprobers \cup {Nil}
    /\ \A r \in Rec : heap[r] = "none" => list[r] = Nil

\* a_publish holds only records with announcements left, and every live record
\* whose announcements began.
AnnounceInv ==
  ~shutdown =>
    /\ \A r \in Announced : tries[r] < 4
    /\ \A r \in Live : tries[r] \in 1..3 => r \in Announced

\* Peers have the current data of a record, or a_publish will tell them.
CurrentInv ==
  ~shutdown =>
    \A r \in Live : ttl[r] = 1 /\ ~Probing(r) /\ data[r] # Empty
                    => heard[r] = data[r] \/ r \in Announced

RecordsInv == FreshInv /\ CountInv /\ PlaceInv /\ AnnounceInv /\ CurrentInv

\* What the walks of the probing list and of a_publish have still before them.
LoopInv ==
  /\ pc \in {"in", "sleep", "probe_ask", "probe_claim"} => ~shutdown
  /\ pc \in {"probe_ask", "probe_claim"} => cur \in Probers \cup {Nil}
  /\ pc = "probe_ask" => \A r \in Probers : unique[r] = 4 => r \in Chain(list, cur)
  /\ pc = "probe_claim" => \A r \in Chain(list, cur) : unique[r] <= 3
  /\ pc = "out_publish" /\ ~shutdown =>
       IF last = Nil THEN cur = a_publish ELSE last \in Announced
  /\ pc = "out_publish" /\ shutdown => last = Nil
  /\ pc = "exit" => shutdown

\* After the shutdown every record that is left waits on a_now for its goodbye.
LastInv ==
  shutdown =>
    /\ \A r \in Live : ttl[r] = 0 /\ r \in Chain(list, a_now)
    /\ pc \in {"out_publish", "out_pause"} /\ room = Frame => a_now = Nil
    /\ pc = "exit" => Live = {}

ListsInv == IInv /\ RecordsInv /\ LoopInv /\ LastInv

-----------------------------------------------------------------------------
\* Facts the steps share

LEMMA Types ==
  ASSUME IInv
  PROVE  /\ list \in Links /\ Acyclic(list)
         /\ probing \in Rec \cup {Nil} /\ a_now \in Rec \cup {Nil}
         /\ a_pause \in Rec \cup {Nil} /\ a_publish \in Rec \cup {Nil}
         /\ cur \in Rec \cup {Nil} /\ last \in Rec \cup {Nil}
         /\ heap \in [Rec -> {"none", "live", "freed"}]
         /\ data \in [Rec -> Data \cup {Empty}]
         /\ unique \in [Rec -> Nat] /\ tries \in [Rec -> Nat] /\ ttl \in [Rec -> 0..1]
         /\ heard \in [Rec -> Data \cup {Empty, Nil, Gone}] /\ probes \in [Rec -> Nat]
         /\ room \in 0..Frame
BY DEF IInv, TypeOK, RecordTypes, ListTypes, LoopTypes, OutsideTypes, LinksAcyclic, Links

\* A set of records that is closed under the link and apart from a list.
Parted(l, p, N) ==
  /\ Chain(l, p) \cap N = {}
  /\ \A x \in N : l[x] \in N \cup {Nil}

\* The record r of the set joins the list at a head of the set, h, and leaves
\* every list it is not on alone.
Joins(l, p, N, h, r, k, g) ==
  /\ k \in Links /\ Acyclic(k) /\ g \in N \cup {Nil}
  /\ Chain(k, p) = Chain(l, p)
  /\ \A x \in N : k[x] \in N \cup {Nil}
  /\ \A x \in Rec \ {r} : k[x] = l[x]
  /\ Chain(k, g) = Chain(l, h) \cup {r}
  /\ \A a \in Rec \cup {Nil} : r \notin Chain(l, a) => Chain(k, a) = Chain(l, a)

\* Putting a record of the set before a head of the set leaves the list alone.
LEMMA PushParted ==
  ASSUME NEW l \in Links, Acyclic(l), NEW p \in Rec \cup {Nil}, NEW N \in SUBSET Rec,
         Parted(l, p, N), NEW h \in N \cup {Nil}, NEW r \in N, NEW g, NEW k,
         Pushed(l, h, r, k, g)
  PROVE  Joins(l, p, N, h, r, k, g)
<1>1. /\ g \in Rec \cup {Nil} /\ k \in Links /\ Acyclic(k)
      /\ Chain(k, g) = Chain(l, h) \cup {r}
      /\ \A x \in Rec : k[x] # l[x] => x = r /\ r \notin Chain(l, h) /\ k[r] = h
  <2>1. h \in Rec \cup {Nil} /\ r \in Rec
    OBVIOUS
  <2>2. g \in Rec \cup {Nil}
    BY <2>1, ChainPush
  <2>3. k \in Links
    BY <2>1, ChainPush
  <2>4. Acyclic(k)
    BY <2>1, ChainPush
  <2>5. Chain(k, g) = Chain(l, h) \cup {r}
    BY <2>1, ChainPush
  <2>6. \A x \in Rec : k[x] # l[x] => x = r /\ r \notin Chain(l, h) /\ k[r] = h
    BY <2>1, ChainPush
  <2>7. QED BY <2>2, <2>3, <2>4, <2>5, <2>6
<1>2. g \in N \cup {Nil}
  BY DEF Pushed
<1>3. \A x \in Rec \ {r} : k[x] = l[x]
  BY <1>1
<1>4. \A x \in N : k[x] \in N \cup {Nil}
  BY <1>1 DEF Parted
<1>5. ASSUME NEW a \in Rec \cup {Nil}, r \notin Chain(l, a)
      PROVE  Chain(k, a) = Chain(l, a)
  <2>1. \A x \in Chain(l, a) : k[x] = l[x]
    BY <1>1, <1>5 DEF Chain
  <2>2. QED BY <1>1, <2>1, ChainAgrees
<1>6. r \notin Chain(l, p)
  BY DEF Parted
<1>7. QED BY <1>1, <1>2, <1>3, <1>4, <1>5, <1>6 DEF Joins

\* Until the shutdown, the three lists are among the records not being probed.
LEMMA Placed ==
  ASSUME IInv, PlaceInv, ~shutdown
  PROVE  /\ Parted(list, probing, Nonprobers)
         /\ Nonprobers \in SUBSET Rec /\ Probers \in SUBSET Rec
         /\ Probers \cap Nonprobers = {}
         /\ Chain(list, a_now) \subseteq Nonprobers
         /\ Chain(list, a_pause) \subseteq Nonprobers
         /\ Announced \subseteq Nonprobers
         /\ probing \in Probers \cup {Nil}
<1>1. /\ list \in Links /\ probing \in Rec \cup {Nil}
      /\ a_now \in Rec \cup {Nil} /\ a_pause \in Rec \cup {Nil}
      /\ a_publish \in Rec \cup {Nil}
  BY Types
<1>2. /\ Chain(list, probing) = Probers
      /\ \A r \in Nonprobers : list[r] \in Nonprobers \cup {Nil}
      /\ a_now \in Nonprobers \cup {Nil} /\ a_pause \in Nonprobers \cup {Nil}
      /\ a_publish \in Nonprobers \cup {Nil}
  BY DEF PlaceInv
<1>3. Probers \cap Nonprobers = {} /\ Nonprobers \in SUBSET Rec /\ Probers \in SUBSET Rec
  BY DEF Probers, Nonprobers
<1>4. Parted(list, probing, Nonprobers)
  BY <1>2, <1>3 DEF Parted
<1>5. \A h \in Nonprobers \cup {Nil} : Chain(list, h) \subseteq Nonprobers
  <2>1. ASSUME NEW h \in Nonprobers \cup {Nil} PROVE Chain(list, h) \subseteq Nonprobers
    BY <1>2, <1>3, ChainWithin
  <2>2. QED BY <2>1
<1>6. probing \in Probers \cup {Nil}
  BY <1>1, <1>2, ChainHead
<1>7. QED BY <1>2, <1>3, <1>4, <1>5, <1>6 DEF Announced

\* Steps that leave records and lists alone.
LEMMA QuietRecords ==
  ASSUME RecordsInv, shutdown' = shutdown,
         UNCHANGED <<heap, data, unique, tries, ttl, list, heads, heard, probes>>
  PROVE  RecordsInv'
<1> USE DEF heads
<1>1. FreshInv'
  BY DEF RecordsInv, FreshInv
<1>2. CountInv'
  BY DEF RecordsInv, CountInv, Probing
<1>3. Probers' = Probers /\ Nonprobers' = Nonprobers /\ Live' = Live
  BY DEF Probers, Nonprobers, Probing, Live
<1>5. Chain(list', probing') = Chain(list, probing) /\ Announced' = Announced
  BY DEF Chain, OnList, Announced
<1>6. PlaceInv'
  BY <1>3, <1>5 DEF RecordsInv, PlaceInv
<1>7. AnnounceInv'
  BY <1>3, <1>5 DEF RecordsInv, AnnounceInv
<1>8. CurrentInv'
  BY <1>3, <1>5 DEF RecordsInv, CurrentInv, Probing
<1>9. QED BY <1>1, <1>2, <1>6, <1>7, <1>8 DEF RecordsInv

-----------------------------------------------------------------------------
\* The records and the lists, action by action

\* mdnsd_shared: one more record that is not probed, on no list.
LEMMA SharedRecords ==
  ASSUME IInv, RecordsInv, NEW r \in Rec, NEW k \in Key, MdnsdShared(r, k)
  PROVE  RecordsInv'
<1> USE DEF heads, timers, ghosts
<1>1. /\ heap[r] = "none" /\ heap' = [heap EXCEPT ![r] = "live"]
      /\ UNCHANGED <<data, unique, tries, ttl, list, heads, heard, probes, shutdown>>
  BY DEF MdnsdShared, Create
<1>2. /\ heap'[r] = "live" /\ \A x \in Rec \ {r} : heap'[x] = heap[x]
      /\ unique[r] = 0 /\ tries[r] = 0 /\ data[r] = Empty /\ heard[r] = Nil
  BY <1>1, Types DEF RecordsInv, FreshInv
<1>3. /\ Probers' = Probers /\ Nonprobers' = Nonprobers \cup {r}
      /\ Live' = Live \cup {r} /\ ~Probing(r)
  BY <1>1, <1>2 DEF Probers, Nonprobers, Probing, Live
<1>4. Chain(list', probing') = Chain(list, probing) /\ Announced' = Announced
  BY <1>1 DEF Chain, OnList, Announced
<1>5. FreshInv'
  BY <1>1, <1>2 DEF RecordsInv, FreshInv
<1>6. CountInv'
  BY <1>1, <1>2 DEF RecordsInv, CountInv, Probing
<1>7. PlaceInv'
  BY <1>1, <1>2, <1>3, <1>4 DEF RecordsInv, PlaceInv
<1>8. AnnounceInv'
  BY <1>1, <1>2, <1>3, <1>4 DEF RecordsInv, AnnounceInv
<1>9. CurrentInv'
  BY <1>1, <1>2, <1>3, <1>4 DEF RecordsInv, CurrentInv, Probing
<1>10. QED BY <1>5, <1>6, <1>7, <1>8, <1>9 DEF RecordsInv

\* mdnsd_unique: one more record that is probed, at the head of probing.
LEMMA UniqueRecords ==
  ASSUME IInv, RecordsInv, NEW r \in Rec, NEW k \in Key, MdnsdUnique(r, k)
  PROVE  RecordsInv'
<1> USE DEF heads, timers, ghosts
<1>1. /\ heap[r] = "none" /\ heap' = [heap EXCEPT ![r] = "live"]
      /\ unique' = [unique EXCEPT ![r] = 1]
      /\ ~shutdown /\ shutdown' = shutdown
      /\ Pushed(list, probing, r, list', probing')
      /\ UNCHANGED <<data, tries, ttl, a_now, a_pause, a_publish, heard, probes>>
  BY DEF MdnsdUnique, Create, Push, Pushed, AppMayCall
<1>2. /\ heap'[r] = "live" /\ \A x \in Rec \ {r} : heap'[x] = heap[x]
      /\ unique'[r] = 1 /\ \A x \in Rec \ {r} : unique'[x] = unique[x]
      /\ unique[r] = 0 /\ tries[r] = 0 /\ data[r] = Empty /\ heard[r] = Nil
      /\ probes[r] = 0
  BY <1>1, Types DEF RecordsInv, FreshInv
<1>3. /\ Probers' = Probers \cup {r} /\ Nonprobers' = Nonprobers
      /\ Live' = Live \cup {r} /\ r \notin Probers /\ r \notin Nonprobers
      /\ \A x \in Rec \ {r} : Probing(x)' = Probing(x)
      /\ Probing(r)'
  BY <1>1, <1>2 DEF Probers, Nonprobers, Probing, Live
<1>4. PlaceInv /\ Chain(list, probing) = Probers
  BY <1>1 DEF RecordsInv, PlaceInv
<1>5. /\ list' \in Links /\ Chain(list', probing') = Chain(list, probing) \cup {r}
      /\ \A x \in Rec : list'[x] # list[x] => x = r
  <2>1. list \in Links /\ Acyclic(list) /\ probing \in Rec \cup {Nil}
    BY Types
  <2>2. Pushed(list, probing, r, list', probing')
    BY <1>1
  <2>3. list' \in Links
    BY ONLY <2>1, <2>2, r \in Rec, ChainPush
  <2>4. Chain(list', probing') = Chain(list, probing) \cup {r}
    BY ONLY <2>1, <2>2, r \in Rec, ChainPush
  <2>5. \A x \in Rec : list'[x] # list[x] => x = r
    BY ONLY <2>1, <2>2, r \in Rec, ChainPush
  <2>6. QED BY <2>3, <2>4, <2>5
<1>6. Announced' = Announced
  <2>1. \A x \in Chain(list, a_publish) : list'[x] = list[x]
    BY <1>1, <1>3, <1>4, <1>5, Placed DEF Announced
  <2>2. Chain(list', a_publish) = Chain(list, a_publish)
    BY <1>5, <2>1, Types, ChainAgrees
  <2>3. Announced' = Chain(list', a_publish')
    BY DEF Announced, Chain, OnList
  <2>4. QED BY <1>1, <2>2, <2>3 DEF Announced
<1>7. FreshInv'
  BY <1>1, <1>2 DEF RecordsInv, FreshInv
<1>8. CountInv'
  BY <1>1, <1>2, <1>3 DEF RecordsInv, CountInv
<1>9. PlaceInv'
  <2>1. \A x \in Nonprobers : list'[x] \in Nonprobers \cup {Nil}
    <3>1. \A x \in Nonprobers : list'[x] = list[x] /\ x \in Rec
      BY <1>3, <1>5 DEF Nonprobers
    <3>2. QED BY <1>1, <1>4, <3>1 DEF PlaceInv
  <2>2. \A x \in Rec : heap'[x] = "none" => list'[x] = Nil
    BY <1>1, <1>2, <1>4, <1>5 DEF PlaceInv
  <2>3. Chain(list', probing') = Probers'
    BY <1>3, <1>4, <1>5
  <2>4. Chain(list, probing)' = Chain(list', probing')
    BY DEF Chain, OnList
  <2>5. QED BY <1>1, <1>3, <1>4, <2>1, <2>2, <2>3, <2>4 DEF PlaceInv
<1>10. AnnounceInv'
  BY <1>1, <1>2, <1>3, <1>6 DEF RecordsInv, AnnounceInv
<1>11. CurrentInv'
  <2>1. SUFFICES ASSUME NEW x \in Live', ttl'[x] = 1, ~Probing(x)', data'[x] # Empty
                 PROVE  heard'[x] = data'[x] \/ x \in Announced'
    BY DEF CurrentInv
  <2>2. x \in Live /\ ~Probing(x)
    BY <1>3, <2>1 DEF Live
  <2>3. QED BY <1>1, <1>6, <2>1, <2>2 DEF RecordsInv, CurrentInv
<1>12. QED BY <1>7, <1>8, <1>9, <1>10, <1>11 DEF RecordsInv

\* _r_publish of a record that is not probed puts it on a_publish, as l was
\* before, and on nothing else.
LEMMA RPublishPlace ==
  ASSUME NEW l \in Links, Acyclic(l), NEW p \in Rec \cup {Nil}, NEW N \in SUBSET Rec,
         Parted(l, p, N), a_publish \in N \cup {Nil}, NEW r \in N, NEW u, u \notin 1..4,
         RPublish(l, u, r)
  PROVE  /\ list' \in Links /\ Acyclic(list') /\ a_publish' \in N \cup {Nil}
         /\ Chain(list', p) = Chain(l, p)
         /\ \A x \in N : list'[x] \in N \cup {Nil}
         /\ \A x \in Rec \ {r} : list'[x] = l[x]
         /\ Announced' = Chain(l, a_publish) \cup {r}
         /\ tries' = [tries EXCEPT ![r] = 0]
<1>1. Push(l, a_publish, r) /\ tries' = [tries EXCEPT ![r] = 0]
  BY DEF RPublish
<1>2. Pushed(l, a_publish, r, list', a_publish')
  BY <1>1 DEF Push, Pushed
<1>3. Announced' = Chain(list', a_publish')
  BY DEF Announced, Chain, OnList
<1>4. /\ list' \in Links /\ Acyclic(list') /\ a_publish' \in N \cup {Nil}
      /\ Chain(list', p) = Chain(l, p)
      /\ \A x \in N : list'[x] \in N \cup {Nil}
      /\ \A x \in Rec \ {r} : list'[x] = l[x]
      /\ Chain(list', a_publish') = Chain(l, a_publish) \cup {r}
  <2>1. Joins(l, p, N, a_publish, r, list', a_publish')
    BY <1>2, PushParted
  <2>2. QED BY <2>1 DEF Joins
<1>5. QED BY <1>1, <1>3, <1>4

\* _r_send of a live record that is not probed puts it on a_now or a_pause, and
\* neither the probing list nor a_publish notices.
LEMMA RSendPlace ==
  ASSUME IInv, PlaceInv, AnnounceInv, ~shutdown, NEW r \in Nonprobers, RSend(r)
  PROVE  /\ Chain(list', probing) = Chain(list, probing)
         /\ a_now' \in Nonprobers \cup {Nil} /\ a_pause' \in Nonprobers \cup {Nil}
         /\ \A x \in Nonprobers : list'[x] \in Nonprobers \cup {Nil}
         /\ \A x \in Rec \ Nonprobers : list'[x] = list[x]
         /\ Chain(list', a_publish) = Announced
<1>1. /\ list \in Links /\ Acyclic(list) /\ probing \in Rec \cup {Nil}
      /\ a_publish \in Rec \cup {Nil} /\ tries \in [Rec -> Nat]
  BY Types
<1>2. /\ Parted(list, probing, Nonprobers) /\ Nonprobers \in SUBSET Rec
      /\ a_now \in Nonprobers \cup {Nil} /\ a_pause \in Nonprobers \cup {Nil}
  BY Placed DEF PlaceInv
<1>3. CASE Announcing(r) /\ UNCHANGED <<list, a_now, a_pause>>
  BY <1>2, <1>3 DEF Announced, Parted
<1>4. ASSUME ~Announcing(r) PROVE r \notin Chain(list, a_publish)
  BY <1>1, <1>2, <1>4 DEF Announcing, AnnounceInv, Announced
<1>5. CASE ~Announcing(r) /\ Push(list, a_now, r) /\ a_pause' = a_pause
  <2>1. Pushed(list, a_now, r, list', a_now')
    BY <1>5 DEF Push, Pushed
  <2>2. /\ a_now \in Nonprobers \cup {Nil} /\ r \in Nonprobers
        /\ Parted(list, probing, Nonprobers) /\ Nonprobers \in SUBSET Rec
        /\ list \in Links /\ Acyclic(list) /\ probing \in Rec \cup {Nil}
    BY <1>1, <1>2
  <2>3. /\ a_now' \in Nonprobers \cup {Nil}
        /\ Chain(list', probing) = Chain(list, probing)
        /\ \A x \in Nonprobers : list'[x] \in Nonprobers \cup {Nil}
        /\ \A x \in Rec \ Nonprobers : list'[x] = list[x]
        /\ \A a \in Rec \cup {Nil} : r \notin Chain(list, a) => Chain(list', a) = Chain(list, a)
        /\ Chain(list', a_now') = Chain(list, a_now) \cup {r}
    <3>1. Joins(list, probing, Nonprobers, a_now, r, list', a_now')
      BY ONLY <2>1, <2>2, PushParted
    <3>2. QED BY <2>2, <3>1 DEF Joins
  <2>4. QED BY <1>1, <1>2, <1>4, <1>5, <2>3 DEF Announced
<1>6. CASE ~Announcing(r) /\ Push(list, a_pause, r) /\ a_now' = a_now
  <2>1. Pushed(list, a_pause, r, list', a_pause')
    BY <1>6 DEF Push, Pushed
  <2>2. /\ a_pause \in Nonprobers \cup {Nil} /\ r \in Nonprobers
        /\ Parted(list, probing, Nonprobers) /\ Nonprobers \in SUBSET Rec
        /\ list \in Links /\ Acyclic(list) /\ probing \in Rec \cup {Nil}
    BY <1>1, <1>2
  <2>3. /\ a_pause' \in Nonprobers \cup {Nil}
        /\ Chain(list', probing) = Chain(list, probing)
        /\ \A x \in Nonprobers : list'[x] \in Nonprobers \cup {Nil}
        /\ \A x \in Rec \ Nonprobers : list'[x] = list[x]
        /\ \A a \in Rec \cup {Nil} : r \notin Chain(list, a) => Chain(list', a) = Chain(list, a)
        /\ Chain(list', a_pause') = Chain(list, a_pause) \cup {r}
    <3>1. Joins(list, probing, Nonprobers, a_pause, r, list', a_pause')
      BY ONLY <2>1, <2>2, PushParted
    <3>2. QED BY <2>2, <3>1 DEF Joins
  <2>4. QED BY <1>1, <1>2, <1>4, <1>6, <2>3 DEF Announced
<1>7. QED BY <1>3, <1>5, <1>6 DEF RSend

\* _r_send on the way from one state to the next: only ttl may change with it.
LEMMA SendRecords ==
  ASSUME IInv, RecordsInv, ~shutdown, NEW r \in Nonprobers, heap[r] = "live", RSend(r),
         ttl' = ttl \/ ttl' = [ttl EXCEPT ![r] = 0],
         UNCHANGED <<heap, data, unique, tries, probing, a_publish, heard, probes, shutdown>>
  PROVE  RecordsInv'
<1>0. PlaceInv /\ AnnounceInv
  BY DEF RecordsInv
<1>1. /\ Chain(list', probing) = Chain(list, probing)
      /\ a_now' \in Nonprobers \cup {Nil} /\ a_pause' \in Nonprobers \cup {Nil}
      /\ \A x \in Nonprobers : list'[x] \in Nonprobers \cup {Nil}
      /\ \A x \in Rec \ Nonprobers : list'[x] = list[x]
      /\ Chain(list', a_publish) = Announced
  BY <1>0, RSendPlace
<1>2. Probers' = Probers /\ Nonprobers' = Nonprobers /\ Live' = Live
  BY DEF Probers, Nonprobers, Probing, Live
<1>3. Chain(list, probing)' = Chain(list', probing') /\ Announced' = Chain(list', a_publish')
  BY DEF Announced, Chain, OnList
<1>4. Announced' = Announced /\ Chain(list, probing)' = Chain(list, probing)
  BY <1>1, <1>3
<1>5. r \in Rec /\ ttl \in [Rec -> 0..1]
  BY Types DEF Nonprobers
<1>6. FreshInv'
  BY <1>5 DEF RecordsInv, FreshInv
<1>7. CountInv'
  BY DEF RecordsInv, CountInv, Probing
<1>8. PlaceInv'
  <2>1. \A x \in Rec : heap[x] = "none" => list'[x] = Nil
    BY <1>0, <1>1 DEF PlaceInv, Nonprobers
  <2>2. QED BY <1>0, <1>1, <1>2, <1>4, <2>1 DEF PlaceInv
<1>9. AnnounceInv'
  BY <1>2, <1>4 DEF RecordsInv, AnnounceInv
<1>10. CurrentInv'
  <2>1. SUFFICES ASSUME NEW x \in Live, ttl'[x] = 1, ~Probing(x), data[x] # Empty
                 PROVE  heard[x] = data[x] \/ x \in Announced
    BY <1>2, <1>4 DEF CurrentInv, Probing
  <2>2. ttl[x] = 1
    BY <1>5, <2>1 DEF Live
  <2>3. QED BY <2>1, <2>2 DEF RecordsInv, CurrentInv
<1>11. QED BY <1>6, <1>7, <1>8, <1>9, <1>10 DEF RecordsInv

\* Taking a record out of the probing list takes that record alone.
LEMMA ZapPlace ==
  ASSUME IInv, PlaceInv, ~shutdown, NEW r \in Probers, ZapProbing(r)
  PROVE  /\ list' \in Links /\ Chain(list', probing') = Chain(list, probing) \ {r}
         /\ probing' \in Rec \cup {Nil}
         /\ \A x \in Rec \ Probers : list'[x] = list[x]
<1>1. list \in Links /\ Acyclic(list) /\ probing \in Rec \cup {Nil}
  BY Types
<1>2. r \in Rec /\ Chain(list, probing) = Probers
  BY DEF Probers, PlaceInv
<1>3. CASE probing = r /\ probing' = list[r] /\ list' = list
  <2>1. Chain(list, list[r]) = Chain(list, r) \ {r}
    BY <1>1, <1>2, ChainTail
  <2>2. QED BY <1>1, <1>2, <1>3, <2>1 DEF Links
<1>4. ASSUME probing # r, probing' = probing,
             NEW q \in Rec, OnList(list, probing, q), list[q] = r,
             list' = [list EXCEPT ![q] = list[r]]
      PROVE  /\ list' \in Links /\ Chain(list', probing') = Chain(list, probing) \ {r}
             /\ probing' \in Rec \cup {Nil}
             /\ \A x \in Rec \ Probers : list'[x] = list[x]
  <2>1. q \in Chain(list, probing)
    BY <1>4 DEF Chain
  <2>2. /\ list' \in Links /\ list'[q] = list[r]
        /\ \A x \in Rec \ {q} : list'[x] = list[x]
    BY <1>1, <1>2, <1>4 DEF Links
  <2>3. \A x \in Chain(list, probing) \ {q, r} : list'[x] = list[x]
    BY <2>2 DEF Chain
  <2>4. Chain(list', probing) = Chain(list, probing) \ {r}
    BY ONLY <1>1, <1>2, list[q] = r, <2>1, <2>2, <2>3, ChainSkip
  <2>5. QED BY <1>1, <1>2, <1>4, <2>1, <2>2, <2>4
<1>5. QED BY <1>3, <1>4 DEF ZapProbing

\* mdnsd_done and _conflict, of a live record: it is off the probing list and
\* freed, or it is sent.
LEMMA DelistRecords ==
  ASSUME IInv, RecordsInv, ~shutdown, NEW r \in Live, Delist(r),
         UNCHANGED <<data, unique, tries, a_publish, heard, probes, shutdown>>
  PROVE  RecordsInv'
<1>0. PlaceInv /\ AnnounceInv /\ r \in Rec /\ heap[r] = "live"
  BY DEF RecordsInv, Live
<1>1. CASE Probing(r)
  <2>1. /\ ZapProbing(r) /\ heap' = [heap EXCEPT ![r] = "freed"]
        /\ UNCHANGED <<ttl, a_now, a_pause>>
    BY <1>1 DEF Delist
  <2>2. r \in Probers
    BY <1>0, <1>1 DEF Probers
  <2>3. /\ list' \in Links /\ Chain(list', probing') = Chain(list, probing) \ {r}
        /\ \A x \in Rec \ Probers : list'[x] = list[x]
    BY <1>0, <2>1, <2>2, ZapPlace
  <2>4. heap'[r] = "freed" /\ \A x \in Rec \ {r} : heap'[x] = heap[x]
    BY <1>0, <2>1, Types
  <2>5. /\ Probers' = Probers \ {r} /\ Nonprobers' = Nonprobers /\ Live' = Live \ {r}
    BY <1>0, <1>1, <2>4 DEF Probers, Nonprobers, Probing, Live
  <2>6. Chain(list, probing)' = Chain(list', probing') /\ Announced' = Chain(list', a_publish')
    BY DEF Announced, Chain, OnList
  <2>7. Announced' = Announced
    <3>1. Announced \subseteq Rec \ Probers
      BY <1>0, Placed
    <3>2. Chain(list', a_publish) = Chain(list, a_publish)
      BY <2>3, <3>1, Types, ChainAgrees DEF Announced
    <3>3. QED BY <2>6, <3>2 DEF Announced
  <2>8. FreshInv'
    BY <2>1, <2>4 DEF RecordsInv, FreshInv
  <2>9. CountInv'
    <3>1. heard[r] \in {Nil, Gone}
      BY <1>0, <1>1 DEF RecordsInv, CountInv
    <3>2. QED BY <2>4, <3>1 DEF RecordsInv, CountInv, Probing
  <2>10. PlaceInv'
    <3>1. \A x \in Nonprobers : list'[x] \in Nonprobers \cup {Nil}
      BY <1>0, <2>3 DEF PlaceInv, Probers, Nonprobers
    <3>2. \A x \in Rec : heap'[x] = "none" => list'[x] = Nil
      BY <1>0, <2>3, <2>4 DEF PlaceInv, Probers
    <3>3. Chain(list, probing)' = Probers'
      BY <1>0, <2>3, <2>5, <2>6 DEF PlaceInv
    <3>4. QED BY <1>0, <2>1, <2>5, <3>1, <3>2, <3>3 DEF PlaceInv
  <2>11. AnnounceInv'
    BY <2>5, <2>7 DEF RecordsInv, AnnounceInv
  <2>12. CurrentInv'
    BY <2>1, <2>5, <2>7 DEF RecordsInv, CurrentInv, Probing
  <2>13. QED BY <2>8, <2>9, <2>10, <2>11, <2>12 DEF RecordsInv
<1>2. CASE ~Probing(r)
  <2>1. RSend(r) /\ ttl' = [ttl EXCEPT ![r] = 0] /\ UNCHANGED <<heap, probing>>
    BY <1>2 DEF Delist
  <2>2. r \in Nonprobers
    BY <1>0, <1>2 DEF Nonprobers
  <2>3. QED BY <1>0, <2>1, <2>2, SendRecords
<1>3. QED BY <1>1, <1>2

\* mdnsd_set_*: the new data of a record that is not probed goes to a_publish.
LEMMA SetRecords ==
  ASSUME IInv, RecordsInv, NEW r \in Rec, NEW v \in Data, MdnsdSet(r, v)
  PROVE  RecordsInv'
<1> USE DEF heads, timers, ghosts
<1>0. /\ PlaceInv /\ AnnounceInv /\ heap[r] = "live" /\ ~shutdown
      /\ data' = [data EXCEPT ![r] = v] /\ RPublish(list, unique[r], r)
      /\ UNCHANGED <<heap, unique, ttl, probing, a_now, a_pause, heard, probes, shutdown>>
  BY DEF RecordsInv, MdnsdSet, AppMayCall, Holds
<1>1. Probers' = Probers /\ Nonprobers' = Nonprobers /\ Live' = Live
  BY <1>0 DEF Probers, Nonprobers, Probing, Live
<1>2. \A x \in Rec \ {r} : data'[x] = data[x]
  BY <1>0, Types
<1>3. CountInv'
  BY <1>0 DEF RecordsInv, CountInv, Probing
<1>4. CASE Probing(r)
  <2>1. UNCHANGED <<list, tries, a_publish>>
    BY <1>0, <1>4 DEF RPublish, Probing
  <2>2. Chain(list, probing)' = Chain(list, probing) /\ Announced' = Announced
    BY <1>0, <2>1 DEF Announced, Chain, OnList
  <2>3. FreshInv'
    BY <1>0, <1>2, <2>1 DEF RecordsInv, FreshInv
  <2>4. PlaceInv'
    BY <1>0, <1>1, <2>1, <2>2 DEF PlaceInv
  <2>5. AnnounceInv'
    BY <1>0, <1>1, <2>1, <2>2 DEF AnnounceInv
  <2>6. CurrentInv'
    BY <1>0, <1>1, <1>2, <1>4, <2>2 DEF RecordsInv, CurrentInv, Probing, Live
  <2>7. QED BY <1>3, <2>3, <2>4, <2>5, <2>6 DEF RecordsInv
<1>5. CASE ~Probing(r)
  <2>1. r \in Nonprobers /\ unique[r] \notin 1..4
    BY <1>0, <1>5 DEF Nonprobers, Probing
  <2>2. /\ list \in Links /\ Acyclic(list) /\ probing \in Rec \cup {Nil}
        /\ tries \in [Rec -> Nat]
    BY Types
  <2>3. /\ Parted(list, probing, Nonprobers) /\ Nonprobers \in SUBSET Rec
        /\ a_publish \in Nonprobers \cup {Nil}
    BY <1>0, Placed DEF PlaceInv
  <2>4. /\ a_publish' \in Nonprobers \cup {Nil}
        /\ Chain(list', probing) = Chain(list, probing)
        /\ \A x \in Nonprobers : list'[x] \in Nonprobers \cup {Nil}
        /\ \A x \in Rec \ {r} : list'[x] = list[x]
        /\ Announced' = Chain(list, a_publish) \cup {r}
        /\ tries' = [tries EXCEPT ![r] = 0]
    BY <1>0, <2>1, <2>2, <2>3, RPublishPlace
  <2>5. Announced' = Announced \cup {r} /\ Chain(list, probing)' = Chain(list', probing')
    BY <2>4 DEF Announced, Chain, OnList
  <2>6. tries'[r] = 0 /\ \A x \in Rec \ {r} : tries'[x] = tries[x]
    BY <2>2, <2>4
  <2>7. FreshInv'
    BY <1>0, <1>2, <2>6 DEF RecordsInv, FreshInv
  <2>8. PlaceInv'
    <3>1. \A x \in Rec : heap[x] = "none" => list'[x] = Nil
      BY <1>0, <2>4 DEF PlaceInv, Nonprobers
    <3>2. Chain(list, probing)' = Probers
      BY <1>0, <2>4, <2>5 DEF PlaceInv
    <3>3. QED BY <1>0, <1>1, <2>4, <3>1, <3>2 DEF PlaceInv
  <2>9. AnnounceInv'
    BY <1>0, <1>1, <2>5, <2>6 DEF AnnounceInv, Live, Announced, Chain
  <2>10. CurrentInv'
    BY <1>0, <1>1, <1>2, <2>5 DEF RecordsInv, CurrentInv, Probing, Live
  <2>11. QED BY <1>3, <2>7, <2>8, <2>9, <2>10 DEF RecordsInv
<1>6. QED BY <1>4, <1>5

\* A packet about a live record: freed with ttl 0, and peers were told.
LEMMA SentRecord ==
  ASSUME IInv, NEW r \in Live, Sent(r)
  PROVE  /\ \A x \in Rec \ {r} : heap'[x] = heap[x] /\ heard'[x] = heard[x]
         /\ IF ttl[r] = 0 THEN heap'[r] = "freed" /\ heard'[r] = Gone
                          ELSE heap'[r] = "live" /\ heard'[r] = data[r]
         /\ r \in Rec /\ heap[r] = "live"
<1>1. r \in Rec /\ heap[r] = "live"
  BY DEF Live
<1>2. QED BY <1>1, Types DEF Sent, Say

\* _r_out: the record at the head of a_now or a_pause goes into the packet.
LEMMA OutRecords ==
  ASSUME IInv, RecordsInv, NEW r \in Live, Sent(r),
         ~shutdown => r \in Nonprobers,
         shutdown => ttl[r] = 0,
         \/ a_now = r /\ a_now' = list[r] /\ a_pause' = a_pause
         \/ a_pause = r /\ a_pause' = list[r] /\ a_now' = a_now,
         UNCHANGED <<data, unique, tries, ttl, list, probing, a_publish, probes, shutdown>>
  PROVE  RecordsInv'
<1>1. /\ \A x \in Rec \ {r} : heap'[x] = heap[x] /\ heard'[x] = heard[x]
      /\ IF ttl[r] = 0 THEN heap'[r] = "freed" /\ heard'[r] = Gone
                       ELSE heap'[r] = "live" /\ heard'[r] = data[r]
      /\ r \in Rec /\ heap[r] = "live"
  BY SentRecord
<1>2. FreshInv'
  BY <1>1 DEF RecordsInv, FreshInv
<1>3. CountInv'
  <2>1. ASSUME Probing(r) PROVE ttl[r] = 0
    BY <2>1 DEF Nonprobers
  <2>2. ASSUME NEW x \in Rec PROVE
          /\ unique[x] \in 0..5
          /\ Probing(x) => /\ heard'[x] \in {Nil, Gone}
                           /\ probes[x] >= 3 \/ unique[x] <= probes[x] + 1
          /\ unique[x] = 5 => probes[x] >= 3
          /\ heap'[x] = "freed" => heard'[x] \in {Nil, Gone}
    BY <1>1, <2>1 DEF RecordsInv, CountInv
  <2>3. QED BY <2>2 DEF CountInv, Probing
<1>4. ASSUME ~shutdown
      PROVE  /\ Probers' = Probers /\ Nonprobers' = Nonprobers /\ Live' \subseteq Live
             /\ Announced' = Announced /\ Chain(list, probing)' = Chain(list, probing)
             /\ list[r] \in Nonprobers \cup {Nil}
  <2>1. ~Probing(r) /\ r \in Nonprobers
    BY <1>4 DEF Nonprobers
  <2>2. Probers' = Probers /\ Nonprobers' = Nonprobers /\ Live' \subseteq Live
    BY <1>1, <2>1 DEF Probers, Nonprobers, Probing, Live
  <2>3. Announced' = Announced /\ Chain(list, probing)' = Chain(list, probing)
    BY DEF Announced, Chain, OnList
  <2>4. QED BY <1>4, <2>1, <2>2, <2>3 DEF RecordsInv, PlaceInv
<1>5. PlaceInv'
  <2>1. SUFFICES ASSUME ~shutdown PROVE PlaceInv'
    BY DEF PlaceInv
  <2>2. \A x \in Rec : heap'[x] = "none" => list[x] = Nil
    BY <1>1, <2>1 DEF RecordsInv, PlaceInv
  <2>3. QED BY <1>4, <2>1, <2>2 DEF RecordsInv, PlaceInv
<1>6. AnnounceInv'
  BY <1>4 DEF RecordsInv, AnnounceInv
<1>7. CurrentInv'
  <2>1. SUFFICES ASSUME ~shutdown, NEW x \in Live', ttl[x] = 1, ~Probing(x), data[x] # Empty
                 PROVE  heard'[x] = data[x] \/ x \in Announced
    BY <1>4 DEF CurrentInv, Probing
  <2>2. x \in Live /\ x \in Rec
    BY <1>4, <2>1 DEF Live
  <2>3. CASE x = r
    BY <1>1, <2>1, <2>3
  <2>4. CASE x # r
    BY <1>1, <2>1, <2>2, <2>4 DEF RecordsInv, CurrentInv
  <2>5. QED BY <2>3, <2>4
<1>8. QED BY <1>2, <1>3, <1>5, <1>6, <1>7 DEF RecordsInv

\* The walk of a_publish is on a_publish, and unlinking takes the record alone.
LEMMA AnnouncePlace ==
  ASSUME IInv, PlaceInv, ~shutdown, pc = "out_publish", cur # Nil,
         IF last = Nil THEN cur = a_publish ELSE last \in Announced
  PROVE  /\ cur \in Announced /\ cur \in Rec /\ list[cur] \in Nonprobers \cup {Nil}
         /\ last # Nil => a_publish # cur /\ last # cur
         /\ Unlink(list[cur]) =>
              /\ Announced' = Announced \ {cur}
              /\ list' \in Links /\ Chain(list', probing) = Chain(list, probing)
              /\ a_publish' \in Nonprobers \cup {Nil}
              /\ \A x \in Nonprobers : list'[x] \in Nonprobers \cup {Nil}
              /\ \A x \in Rec \ Nonprobers : list'[x] = list[x]
<1>1. /\ list \in Links /\ Acyclic(list) /\ probing \in Rec \cup {Nil}
      /\ a_publish \in Rec \cup {Nil} /\ cur \in Rec /\ last \in Rec \cup {Nil}
  BY Types
<1>2. /\ Parted(list, probing, Nonprobers) /\ Nonprobers \in SUBSET Rec
      /\ Announced \subseteq Nonprobers /\ a_publish \in Nonprobers \cup {Nil}
      /\ \A x \in Nonprobers : list[x] \in Nonprobers \cup {Nil}
  BY Placed DEF PlaceInv
<1>3. Announced' = Chain(list', a_publish')
  BY DEF Announced, Chain, OnList
<1>4. CASE last = Nil
  <2>1. cur = a_publish /\ cur \in Announced
    BY <1>1, <1>4, ChainHead DEF Announced
  <2>2. list[cur] \in Nonprobers \cup {Nil}
    BY <1>2, <2>1
  <2>3. ASSUME Unlink(list[cur]) PROVE a_publish' = list[cur] /\ list' = list
    BY <1>4, <2>1, <2>3 DEF Unlink
  <2>4. Chain(list, list[cur]) = Announced \ {cur}
    BY <1>1, <2>1, ChainTail DEF Announced
  <2>5. QED BY <1>1, <1>2, <1>3, <1>4, <2>1, <2>2, <2>3, <2>4
<1>5. CASE last # Nil
  <2>1. last \in Announced /\ list[last] = cur /\ last \in Rec
    BY <1>1, <1>5 DEF IInv, WalkInv
  <2>2. cur \in Announced
    BY <1>1, <2>1, ChainClosed, NilAssumption DEF Announced
  <2>3. list[cur] \in Nonprobers \cup {Nil}
    BY <1>2, <2>2
  <2> DEFINE k == [list EXCEPT ![last] = list[cur]]
  <2>4. /\ k \in Links /\ k[last] = list[cur]
        /\ \A x \in Rec \ {last} : k[x] = list[x]
    BY <1>1, <2>1 DEF Links
  <2> HIDE DEF k
  <2>5. \A x \in Chain(list, a_publish) \ {last, cur} : k[x] = list[x]
    BY <2>4 DEF Chain
  <2>6. last \in Chain(list, a_publish)
    BY <2>1 DEF Announced
  <2>7. /\ last # cur /\ a_publish # cur
        /\ Chain(k, a_publish) = Chain(list, a_publish) \ {cur}
    BY ONLY <1>1, <2>1, <2>4, <2>5, <2>6, ChainSkip
  <2>8. Chain(k, probing) = Chain(list, probing)
    <3>1. last \notin Chain(list, probing)
      BY <1>2, <2>1 DEF Parted
    <3>2. \A x \in Chain(list, probing) : k[x] = list[x]
      BY <2>4, <3>1 DEF Chain
    <3>3. QED BY <1>1, <2>4, <3>2, ChainAgrees
  <2>9. \A x \in Nonprobers : k[x] \in Nonprobers \cup {Nil}
    BY <1>2, <2>3, <2>4
  <2>10. \A x \in Rec \ Nonprobers : k[x] = list[x]
    BY <1>2, <2>1, <2>4
  <2>11. ASSUME Unlink(list[cur]) PROVE a_publish' = a_publish /\ list' = k
    BY <1>5, <2>7, <2>11 DEF Unlink, k
  <2>12. QED
    BY <1>1, <1>2, <1>3, <2>2, <2>3, <2>4, <2>7, <2>8, <2>9, <2>10, <2>11 DEF Announced
<1>6. QED BY <1>4, <1>5

\* One announcement of a live record.
LEMMA PublishRecords ==
  ASSUME IInv, RecordsInv, LoopInv, LastInv, OutPublish, cur \in Live
  PROVE  RecordsInv'
<1> USE DEF heads, timers, ghosts
<1>0. /\ pc = "out_publish" /\ cur # Nil /\ tries' = [tries EXCEPT ![cur] = tries[cur] + 1]
      /\ Sent(cur) /\ UNCHANGED <<data, unique, ttl, probing, a_now, a_pause, probes, shutdown>>
      /\ \/ Stays(cur) /\ UNCHANGED <<a_publish, list>>
         \/ ~Stays(cur) /\ Unlink(list[cur])
      /\ PlaceInv /\ AnnounceInv
  BY DEF OutPublish, RecordsInv
<1>1. /\ \A x \in Rec \ {cur} : heap'[x] = heap[x] /\ heard'[x] = heard[x]
      /\ IF ttl[cur] = 0 THEN heap'[cur] = "freed" /\ heard'[cur] = Gone
                         ELSE heap'[cur] = "live" /\ heard'[cur] = data[cur]
      /\ cur \in Rec /\ heap[cur] = "live"
  BY <1>0, SentRecord
<1>2. tries'[cur] = tries[cur] + 1 /\ \A x \in Rec \ {cur} : tries'[x] = tries[x]
  BY <1>0, <1>1, Types
<1>3. ASSUME ~shutdown
      PROVE  /\ cur \in Announced /\ cur \in Nonprobers
             /\ Announced' = IF Stays(cur) THEN Announced ELSE Announced \ {cur}
             /\ Chain(list, probing)' = Chain(list, probing)
             /\ a_publish' \in Nonprobers \cup {Nil}
             /\ \A x \in Nonprobers : list'[x] \in Nonprobers \cup {Nil}
             /\ \A x \in Rec \ Nonprobers : list'[x] = list[x]
  <2>1. IF last = Nil THEN cur = a_publish ELSE last \in Announced
    BY <1>0, <1>3 DEF LoopInv
  <2>2. /\ cur \in Announced
        /\ Unlink(list[cur]) =>
             /\ Announced' = Announced \ {cur}
             /\ list' \in Links /\ Chain(list', probing) = Chain(list, probing)
             /\ a_publish' \in Nonprobers \cup {Nil}
             /\ \A x \in Nonprobers : list'[x] \in Nonprobers \cup {Nil}
             /\ \A x \in Rec \ Nonprobers : list'[x] = list[x]
    BY <1>0, <1>3, <2>1, AnnouncePlace
  <2>3. cur \in Nonprobers
    BY <1>0, <1>3, <2>2, Placed
  <2>4. Chain(list, probing)' = Chain(list', probing)
    BY <1>0 DEF Chain, OnList
  <2>5. ASSUME UNCHANGED <<a_publish, list>>
        PROVE  Announced' = Announced /\ Chain(list', probing) = Chain(list, probing)
    BY <2>5 DEF Announced, Chain, OnList
  <2>6. QED BY <1>0, <1>3, <2>2, <2>3, <2>4, <2>5 DEF PlaceInv
<1>4. FreshInv'
  BY <1>0, <1>1, <1>2 DEF RecordsInv, FreshInv
<1>5. CountInv'
  <2>1. ASSUME Probing(cur) PROVE ttl[cur] = 0
    <3>1. shutdown
      BY <1>3, <2>1 DEF Nonprobers
    <3>2. QED BY <3>1 DEF LastInv
  <2>2. ASSUME NEW x \in Rec PROVE
          /\ unique[x] \in 0..5
          /\ Probing(x) => /\ heard'[x] \in {Nil, Gone}
                           /\ probes[x] >= 3 \/ unique[x] <= probes[x] + 1
          /\ unique[x] = 5 => probes[x] >= 3
          /\ heap'[x] = "freed" => heard'[x] \in {Nil, Gone}
    BY <1>1, <2>1 DEF RecordsInv, CountInv
  <2>3. QED BY <1>0, <2>2 DEF CountInv, Probing
<1>6. ASSUME ~shutdown
      PROVE  Probers' = Probers /\ Nonprobers' = Nonprobers /\ Live' \subseteq Live
  <2>1. ~Probing(cur)
    BY <1>3, <1>6 DEF Nonprobers
  <2>2. QED BY <1>0, <1>1, <2>1 DEF Probers, Nonprobers, Probing, Live
<1>7. PlaceInv'
  <2>1. SUFFICES ASSUME ~shutdown PROVE PlaceInv'
    BY <1>0 DEF PlaceInv
  <2>2. \A x \in Rec : heap'[x] = "none" => list'[x] = Nil
    BY <1>0, <1>1, <1>3, <2>1 DEF PlaceInv, Nonprobers
  <2>3. QED BY <1>0, <1>3, <1>6, <2>1, <2>2 DEF PlaceInv
<1>8. AnnounceInv'
  <2>1. SUFFICES ASSUME ~shutdown
                 PROVE  /\ \A x \in Announced' : tries'[x] < 4
                        /\ \A x \in Live' : tries'[x] \in 1..3 => x \in Announced'
    BY <1>0 DEF AnnounceInv
  <2>2. tries[cur] \in Nat /\ Announced \subseteq Rec /\ Live \subseteq Rec
    BY <1>1, Types DEF Announced, Chain, Live
  <2>3. CASE Stays(cur)
    BY <1>0, <1>2, <1>3, <1>6, <2>1, <2>2, <2>3 DEF AnnounceInv, Stays
  <2>4. CASE ~Stays(cur)
    <3>1. Announced' = Announced \ {cur}
      BY <1>3, <2>1, <2>4
    <3>2. cur \notin Live' \/ tries'[cur] >= 4
      BY <1>1, <1>2, <2>2, <2>4 DEF Stays, Live
    <3>3. QED BY <1>0, <1>2, <1>6, <2>1, <2>2, <3>1, <3>2 DEF AnnounceInv
  <2>5. QED BY <2>3, <2>4
<1>9. CurrentInv'
  <2>1. SUFFICES ASSUME ~shutdown, NEW x \in Live', ttl[x] = 1, ~Probing(x), data[x] # Empty
                 PROVE  heard'[x] = data[x] \/ x \in Announced'
    BY <1>0 DEF CurrentInv, Probing
  <2>2. x \in Live /\ x \in Rec
    BY <1>6, <2>1 DEF Live
  <2>3. CASE x = cur
    BY <1>1, <2>1, <2>3
  <2>4. CASE x # cur
    BY <1>1, <1>3, <2>1, <2>2, <2>4 DEF RecordsInv, CurrentInv
  <2>5. QED BY <2>3, <2>4
<1>10. QED BY <1>4, <1>5, <1>7, <1>8, <1>9 DEF RecordsInv

\* "done probing, publish": the record moves from the probing list to a_publish.
LEMMA PromotePlace ==
  ASSUME IInv, PlaceInv, LoopInv, ProbePromote
  PROVE  /\ ~shutdown /\ cur \in Probers /\ cur \in Rec
         /\ list' \in Links /\ Chain(list', probing') = Probers \ {cur}
         /\ a_publish' \in Nonprobers \cup {cur, Nil}
         /\ \A x \in Nonprobers \cup {cur} : list'[x] \in Nonprobers \cup {cur, Nil}
         /\ \A x \in Rec \ Probers : list'[x] = list[x]
         /\ Announced' = Announced \cup {cur}
         /\ tries' = [tries EXCEPT ![cur] = 0]
         /\ Chain(list', list[cur]) = Chain(list, cur) \ {cur}
<1> DEFINE skipped == IF probing = cur THEN list ELSE [list EXCEPT ![last] = list[cur]]
           k == [skipped EXCEPT ![cur] = Nil]
           N == Nonprobers \cup {cur}
<1>0. /\ pc = "probe_ask" /\ cur # Nil
      /\ probing' = IF probing = cur THEN list[cur] ELSE probing
  BY DEF ProbePromote
<1>1. /\ ~shutdown /\ cur \in Probers
      /\ k \in Links /\ Acyclic(k) /\ cur \in Rec /\ RPublish(k, 5, cur)
  BY <1>0, PromoteLinks DEF LoopInv, IInv
<1>2. /\ list \in Links /\ Acyclic(list) /\ probing \in Rec \cup {Nil}
      /\ a_publish \in Rec \cup {Nil} /\ last \in Rec \cup {Nil}
      /\ list[cur] \in Rec \cup {Nil}
  BY <1>1, Types DEF Links
<1>3. /\ Parted(list, probing, Nonprobers) /\ Nonprobers \in SUBSET Rec
      /\ Probers \cap Nonprobers = {} /\ Probers \in SUBSET Rec
      /\ Announced \subseteq Nonprobers /\ a_publish \in Nonprobers \cup {Nil}
      /\ Chain(list, probing) = Probers
      /\ \A x \in Nonprobers : list[x] \in Nonprobers \cup {Nil}
  BY <1>1, Placed DEF PlaceInv
<1>4. ASSUME probing = cur
      PROVE  /\ k[cur] = Nil /\ \A x \in Rec \ Probers : k[x] = list[x]
             /\ probing' \in Rec \cup {Nil}
             /\ Chain(k, probing') = Probers \ {cur}
             /\ Chain(k, list[cur]) = Chain(list, cur) \ {cur}
  <2>1. k = [list EXCEPT ![cur] = Nil]
    BY <1>4
  <2>2. k[cur] = Nil /\ \A x \in Rec \ {cur} : k[x] = list[x]
    BY <1>1, <1>2, <2>1 DEF Links
  <2> HIDE DEF k
  <2>3. Chain(list, list[cur]) = Probers \ {cur}
    BY <1>1, <1>2, <1>3, <1>4, ChainTail
  <2>4. Chain(k, list[cur]) = Chain(list, list[cur])
    <3>1. \A x \in Chain(list, list[cur]) : k[x] = list[x]
      BY <1>3, <2>2, <2>3
    <3>2. QED BY <1>1, <1>2, <3>1, ChainAgrees
  <2>5. Chain(list, list[cur]) = Chain(list, cur) \ {cur}
    BY <1>1, <1>2, ChainTail
  <2>6. probing' = list[cur]
    BY <1>0, <1>4
  <2>7. /\ k[cur] = Nil /\ \A x \in Rec \ Probers : k[x] = list[x]
        /\ probing' \in Rec \cup {Nil}
        /\ Chain(k, probing') = Probers \ {cur}
        /\ Chain(k, list[cur]) = Chain(list, cur) \ {cur}
    BY <1>1, <1>2, <2>2, <2>3, <2>4, <2>5, <2>6
  <2>8. QED BY <2>7
<1>5. ASSUME probing # cur
      PROVE  /\ k[cur] = Nil /\ \A x \in Rec \ Probers : k[x] = list[x]
             /\ probing' \in Rec \cup {Nil}
             /\ Chain(k, probing') = Probers \ {cur}
             /\ Chain(k, list[cur]) = Chain(list, cur) \ {cur}
  <2>1. last # Nil
    BY <1>0, <1>5 DEF IInv, WalkInv
  <2>2. last \in Rec /\ list[last] = cur /\ last \in Chain(list, probing)
    BY <1>0, <1>2, <2>1 DEF IInv, WalkInv, Chain
  <2>3. last # cur
    BY <1>1, <1>2, <2>2, OnListHead, NoReturn
  <2>4. k = [[list EXCEPT ![last] = list[cur]] EXCEPT ![cur] = Nil]
    BY <1>5
  <2>5. k[cur] = Nil /\ k[last] = list[cur] /\ \A x \in Rec \ {last, cur} : k[x] = list[x]
    BY <1>1, <1>2, <2>2, <2>3, <2>4 DEF Links
  <2> HIDE DEF k
  <2>6. \A x \in Chain(list, probing) \ {last, cur} : k[x] = list[x]
    BY <2>5 DEF Chain
  <2>7. Chain(k, probing) = Chain(list, probing) \ {cur}
    BY ONLY <1>1, <1>2, <2>2, <2>5, <2>6, ChainSkip
  <2>8. Chain(list, list[cur]) = Chain(list, cur) \ {cur}
    BY <1>1, <1>2, ChainTail
  <2>9. last \notin Chain(list, cur)
    BY <1>1, <1>2, <2>2, NoReturn DEF Chain
  <2>10. Chain(k, list[cur]) = Chain(list, list[cur])
    <3>1. \A x \in Chain(list, list[cur]) : k[x] = list[x]
      BY <2>5, <2>8, <2>9 DEF Chain
    <3>2. QED BY <1>1, <1>2, <3>1, ChainAgrees
  <2>11. probing' = probing
    BY <1>0, <1>5
  <2>12. \A x \in Rec \ Probers : k[x] = list[x]
    BY <1>1, <1>3, <2>2, <2>5
  <2>13. QED BY <1>2, <1>3, <2>5, <2>7, <2>8, <2>10, <2>11, <2>12
<1>6. /\ k[cur] = Nil /\ \A x \in Rec \ Probers : k[x] = list[x]
      /\ probing' \in Rec \cup {Nil}
      /\ Chain(k, probing') = Probers \ {cur}
      /\ Chain(k, list[cur]) = Chain(list, cur) \ {cur}
  BY <1>4, <1>5
<1> HIDE DEF k, skipped
<1>7. Chain(k, a_publish) = Announced
  <2>1. \A x \in Chain(list, a_publish) : k[x] = list[x]
    BY <1>3, <1>6 DEF Announced
  <2>2. QED BY <1>1, <1>2, <2>1, ChainAgrees DEF Announced
<1>8. /\ Parted(k, probing', N) /\ N \in SUBSET Rec /\ a_publish \in N \cup {Nil}
      /\ cur \in N
  BY <1>1, <1>3, <1>6 DEF Parted
<1> HIDE DEF N
<1>9. /\ list' \in Links /\ a_publish' \in N \cup {Nil}
      /\ Chain(list', probing') = Chain(k, probing')
      /\ \A x \in N : list'[x] \in N \cup {Nil}
      /\ \A x \in Rec \ {cur} : list'[x] = k[x]
      /\ Announced' = Chain(k, a_publish) \cup {cur}
      /\ tries' = [tries EXCEPT ![cur] = 0]
  BY <1>1, <1>6, <1>8, RPublishPlace
<1>10. Chain(list', list[cur]) = Chain(k, list[cur])
  <2>1. \A x \in Chain(k, list[cur]) : list'[x] = k[x]
    BY <1>6, <1>9 DEF Chain
  <2>2. QED BY <1>1, <1>2, <1>9, <2>1, ChainAgrees
<1>11. \A x \in Rec \ Probers : list'[x] = list[x]
  BY <1>1, <1>6, <1>9
<1>12. QED BY <1>1, <1>6, <1>7, <1>9, <1>10, <1>11 DEF N

LEMMA PromoteRecords ==
  ASSUME IInv, RecordsInv, LoopInv, ProbePromote
  PROVE  RecordsInv'
<1> USE DEF heads, timers, ghosts
<1>0. /\ unique' = [unique EXCEPT ![cur] = 5] /\ unique[cur] = 4
      /\ UNCHANGED <<heap, data, ttl, a_now, a_pause, heard, probes, shutdown>>
      /\ PlaceInv /\ AnnounceInv
  BY DEF ProbePromote, Probed, RecordsInv
<1>1. /\ ~shutdown /\ cur \in Probers /\ cur \in Rec
      /\ list' \in Links /\ Chain(list', probing') = Probers \ {cur}
      /\ a_publish' \in Nonprobers \cup {cur, Nil}
      /\ \A x \in Nonprobers \cup {cur} : list'[x] \in Nonprobers \cup {cur, Nil}
      /\ \A x \in Rec \ Probers : list'[x] = list[x]
      /\ Announced' = Announced \cup {cur}
      /\ tries' = [tries EXCEPT ![cur] = 0]
  BY <1>0, PromotePlace
<1>2. /\ unique'[cur] = 5 /\ \A x \in Rec \ {cur} : unique'[x] = unique[x]
      /\ tries'[cur] = 0 /\ \A x \in Rec \ {cur} : tries'[x] = tries[x]
      /\ heap[cur] = "live" /\ Probing(cur)
  BY <1>0, <1>1, Types DEF Probers
<1>3. /\ Probers' = Probers \ {cur} /\ Nonprobers' = Nonprobers \cup {cur} /\ Live' = Live
      /\ \A x \in Rec \ {cur} : Probing(x)' <=> Probing(x)
  BY <1>0, <1>1, <1>2 DEF Probers, Nonprobers, Probing, Live
<1>4. FreshInv'
  BY <1>0, <1>2 DEF RecordsInv, FreshInv
<1>5. CountInv'
  <2>1. ASSUME NEW x \in Rec PROVE
          /\ unique'[x] \in 0..5
          /\ unique'[x] \in 1..4 =>
               /\ heard[x] \in {Nil, Gone}
               /\ probes[x] >= 3 \/ unique'[x] <= probes[x] + 1
          /\ unique'[x] = 5 => probes[x] >= 3
          /\ heap[x] = "freed" => heard[x] \in {Nil, Gone}
    <3>1. CASE x = cur
      <4>1. probes[x] >= 3
        BY <1>0, <1>1, <1>2, <3>1, Types DEF RecordsInv, CountInv
      <4>2. QED BY <1>2, <3>1, <4>1
    <3>2. CASE x # cur
      BY <1>2, <3>2 DEF RecordsInv, CountInv, Probing
    <3>3. QED BY <3>1, <3>2
  <2>2. QED BY <1>0, <2>1 DEF CountInv, Probing
<1>6. PlaceInv'
  <2>1. Chain(list, probing)' = Probers'
    BY <1>1, <1>3 DEF Chain, OnList
  <2>2. \A x \in Rec : heap[x] = "none" => list'[x] = Nil
    BY <1>0, <1>1 DEF PlaceInv, Probers
  <2>3. QED BY <1>0, <1>1, <1>3, <2>1, <2>2 DEF PlaceInv
<1>7. AnnounceInv'
  <2>1. Announced \subseteq Rec /\ Live \subseteq Rec
    BY DEF Announced, Chain, Live
  <2>2. QED BY <1>0, <1>1, <1>2, <1>3, <2>1 DEF AnnounceInv
<1>8. CurrentInv'
  <2>1. SUFFICES ASSUME NEW x \in Live, ttl[x] = 1, ~Probing(x)', data[x] # Empty
                 PROVE  heard[x] = data[x] \/ x \in Announced'
    BY <1>0, <1>3 DEF CurrentInv, Probing
  <2>2. x \in Rec
    BY DEF Live
  <2>3. QED BY <1>0, <1>1, <1>3, <2>1, <2>2 DEF RecordsInv, CurrentInv
<1>9. QED BY <1>4, <1>5, <1>6, <1>7, <1>8 DEF RecordsInv

\* A probe of a record that had at most two.
LEMMA ClaimRecords ==
  ASSUME IInv, RecordsInv, LoopInv, ProbeClaim
  PROVE  /\ RecordsInv' /\ Probers' = Probers /\ cur \in Rec
         /\ \A x \in Rec \ {cur} : unique'[x] = unique[x]
<1> USE DEF heads, timers, ghosts
<1>0. /\ pc = "probe_claim" /\ cur # Nil
      /\ unique' = [unique EXCEPT ![cur] = unique[cur] + 1]
      /\ probes' = [probes EXCEPT ![cur] = IF probes[cur] < 3 THEN probes[cur] + 1 ELSE 3]
      /\ UNCHANGED <<heap, data, tries, ttl, list, heads, heard, shutdown>>
  BY DEF ProbeClaim, Counted
<1>1. cur \in Probers /\ cur \in Rec /\ heap[cur] = "live" /\ Probing(cur)
  BY <1>0 DEF LoopInv, Probers
<1>2. unique[cur] <= 3
  <2>1. cur \in Chain(list, cur)
    BY <1>1, Types, ChainHead
  <2>2. QED BY <1>0, <2>1 DEF LoopInv
<1>3. /\ unique'[cur] = unique[cur] + 1 /\ \A x \in Rec \ {cur} : unique'[x] = unique[x]
      /\ probes'[cur] = (IF probes[cur] < 3 THEN probes[cur] + 1 ELSE 3)
      /\ \A x \in Rec \ {cur} : probes'[x] = probes[x]
      /\ unique[cur] \in Nat /\ probes[cur] \in Nat
  BY <1>0, <1>1, Types
<1>4. \A x \in Rec : Probing(x)' <=> Probing(x)
  BY <1>1, <1>2, <1>3 DEF Probing
<1>5. Probers' = Probers /\ Nonprobers' = Nonprobers /\ Live' = Live
  BY <1>0, <1>4 DEF Probers, Nonprobers, Live
<1>6. Announced' = Announced /\ Chain(list, probing)' = Chain(list, probing)
  BY <1>0 DEF Announced, Chain, OnList
<1>7. FreshInv'
  BY <1>0, <1>1, <1>3 DEF RecordsInv, FreshInv
<1>8. CountInv'
  <2>1. ASSUME NEW x \in Rec PROVE
          /\ unique'[x] \in 0..5
          /\ Probing(x) => /\ heard[x] \in {Nil, Gone}
                           /\ probes'[x] >= 3 \/ unique'[x] <= probes'[x] + 1
          /\ unique'[x] = 5 => probes'[x] >= 3
          /\ heap[x] = "freed" => heard[x] \in {Nil, Gone}
    <3>1. CASE x = cur
      BY <1>1, <1>2, <1>3, <3>1 DEF RecordsInv, CountInv, Probing
    <3>2. CASE x # cur
      BY <1>3, <3>2 DEF RecordsInv, CountInv
    <3>3. QED BY <3>1, <3>2
  <2>2. \A x \in Rec : Probing(x)' => Probing(x)
    BY <1>4
  <2>3. QED BY <1>0, <2>1, <2>2 DEF CountInv
<1>9. PlaceInv'
  BY <1>0, <1>5, <1>6 DEF RecordsInv, PlaceInv
<1>10. AnnounceInv'
  BY <1>0, <1>5, <1>6 DEF RecordsInv, AnnounceInv
<1>11. CurrentInv'
  <2>1. SUFFICES ASSUME ~shutdown, NEW x \in Live, ttl[x] = 1, ~Probing(x), data[x] # Empty
                 PROVE  heard[x] = data[x] \/ x \in Announced
    BY <1>0, <1>4, <1>5, <1>6 DEF CurrentInv, Live
  <2>2. QED BY <2>1 DEF RecordsInv, CurrentInv
<1>12. QED BY <1>1, <1>3, <1>5, <1>7, <1>8, <1>9, <1>10, <1>11 DEF RecordsInv

\* mdnsd_shutdown: every live record is on a_now, which starts at the oldest.
LEMMA ShutdownPlace ==
  ASSUME IInv, MdnsdShutdown
  PROVE  \A x \in Live : x \in Chain(list', a_now')
<1> DEFINE C == Chain(list', a_now')
<1>0. \A S \in SUBSET Created : S # {} => \E r \in S : S \ {r} \subseteq older[r]
  BY DEF IInv, OrderInv, IsNewest
<1>1. \A x, y \in Rec : x \in older[y] => y \notin older[x]
  BY DEF IInv, OrderInv
<1>2. /\ a_now' \in Rec \cup {Nil} /\ (a_now' = Nil <=> Live = {})
      /\ a_now' # Nil => a_now' \in Live /\ \A x \in Live \ {a_now'} : a_now' \in older[x]
      /\ list' \in Links
      /\ \A r \in Live :
           \/ list'[r] = Nil /\ \A x \in Live : r \notin older[x]
           \/ /\ list'[r] \in Live /\ r \in older[list'[r]]
              /\ \A x \in Live : r \in older[x] => x = list'[r] \/ list'[r] \in older[x]
  BY DEF MdnsdShutdown, Links
<1>3. Live \subseteq Created /\ Live \subseteq Rec /\ C \subseteq Rec
  BY DEF Live, Created, Chain
<1>4. a_now' # Nil => a_now' \in C
  BY <1>2, ChainHead
<1>5. \A y \in C : list'[y] \in C \cup {Nil}
  BY <1>2, ChainClosed
<1> HIDE DEF C
<1> SUFFICES ASSUME NEW x \in Live, x \notin C PROVE FALSE
  BY DEF C
<1> DEFINE S == {y \in C \cap Live : y \in older[x]}
<1>6. S \in SUBSET Created /\ S # {}
  <2>1. a_now' \in C \cap Live /\ a_now' # x
    BY <1>2, <1>4
  <2>2. a_now' \in older[x]
    BY <1>2, <2>1
  <2>3. QED BY <1>3, <2>1, <2>2
<1>7. PICK y \in S : S \ {y} \subseteq older[y]
  BY <1>0, <1>6
<1>8. list'[y] # Nil /\ list'[y] \in Live /\ y \in older[list'[y]]
      /\ (x = list'[y] \/ list'[y] \in older[x])
  <2>1. y \in Live /\ y \in older[x] /\ x \in Live
    BY <1>7
  <2>2. \/ list'[y] = Nil /\ \A z \in Live : y \notin older[z]
        \/ /\ list'[y] \in Live /\ y \in older[list'[y]]
           /\ \A z \in Live : y \in older[z] => z = list'[y] \/ list'[y] \in older[z]
    BY <1>2, <2>1
  <2>3. ~(list'[y] = Nil /\ \A z \in Live : y \notin older[z])
    BY <2>1
  <2>4. list'[y] \in Rec
    BY <1>3, <2>2, <2>3
  <2>5. QED BY <2>1, <2>2, <2>3, <2>4, NilAssumption
<1>9. list'[y] \in C
  BY <1>5, <1>7, <1>8
<1>10. list'[y] \in S
  BY <1>8, <1>9
<1>11. list'[y] # y /\ list'[y] \notin older[y]
  BY <1>1, <1>3, <1>7, <1>8
<1>12. QED BY <1>7, <1>10, <1>11

-----------------------------------------------------------------------------
\* The steps

LEMMA RecordsStep ==
  ASSUME ListsInv, [Next]_vars
  PROVE  RecordsInv'
<1> USE DEF heads
<1>0. IInv /\ TypeOK /\ OrderInv /\ RecordsInv /\ LoopInv /\ LastInv /\ PlaceInv
  BY DEF ListsInv, IInv, RecordsInv
<1>1. ASSUME NEW r \in Rec, NEW k \in Key, MdnsdShared(r, k) PROVE RecordsInv'
  BY <1>0, <1>1, SharedRecords
<1>2. ASSUME NEW r \in Rec, NEW k \in Key, MdnsdUnique(r, k) PROVE RecordsInv'
  BY <1>0, <1>2, UniqueRecords
<1>3. ASSUME NEW r \in Rec, NEW v \in Data, MdnsdSet(r, v) PROVE RecordsInv'
  BY <1>0, <1>3, SetRecords
<1>4. ASSUME NEW r \in Rec, MdnsdDone(r) PROVE RecordsInv'
  <2>1. /\ ~shutdown /\ r \in Live /\ Delist(r)
        /\ UNCHANGED <<data, unique, tries, a_publish, heard, probes, shutdown>>
    BY <1>4 DEF MdnsdDone, AppMayCall, Holds, Live
  <2>2. QED BY <1>0, <2>1, DelistRecords
<1>5. CASE MdnsdShutdown
  <2>1. /\ shutdown' /\ ttl' = [r \in Rec |-> IF r \in Live THEN 0 ELSE ttl[r]]
        /\ UNCHANGED <<heap, data, unique, tries, heard, probes>>
    BY <1>5 DEF MdnsdShutdown
  <2>2. FreshInv'
    BY <1>0, <2>1 DEF RecordsInv, FreshInv, Live
  <2>3. CountInv'
    BY <1>0, <2>1 DEF RecordsInv, CountInv, Probing
  <2>4. PlaceInv' /\ AnnounceInv' /\ CurrentInv'
    BY <2>1 DEF PlaceInv, AnnounceInv, CurrentInv
  <2>5. QED BY <2>2, <2>3, <2>4 DEF RecordsInv
<1>6. ASSUME NEW k \in Key, NEW v \in Data, InAnswer(k, v) PROVE RecordsInv'
  <2> DEFINE r == NextMatch(Matches(k))
  <2>1. r \in Live
    BY <1>0, <1>6, NextMatchType DEF InAnswer, Matches
  <2>2. /\ ~shutdown /\ Delist(r)
        /\ UNCHANGED <<data, unique, tries, a_publish, heard, probes, shutdown>>
    BY <1>6 DEF InAnswer, MayReceive
  <2> HIDE DEF r
  <2>3. QED BY <1>0, <2>1, <2>2, DelistRecords
<1>7. ASSUME ~UseAfterFree, InReply PROVE RecordsInv'
  <2>1. cur \in Rec /\ heap[cur] = "live" /\ ~Probing(cur) /\ ~shutdown
    BY <1>0, <1>7, NilAssumption DEF InReply, IInv, WalkInv, UseAfterFree, Reads, LoopInv
  <2>2. cur \in Nonprobers
    BY <2>1 DEF Nonprobers
  <2>3. UNCHANGED <<heap, data, unique, tries, ttl, probing, a_publish, heard, probes, shutdown>>
    BY <1>7 DEF InReply, recordVars
  <2>4. CASE data[cur] \in known
    <3>1. UNCHANGED <<heap, data, unique, tries, ttl, list, heads, heard, probes>>
      BY <1>7, <2>3, <2>4 DEF InReply
    <3>2. QED BY <1>0, <2>3, <3>1, QuietRecords
  <2>5. CASE data[cur] \notin known
    <3>1. RSend(cur)
      BY <1>7, <2>5 DEF InReply
    <3>2. QED BY <1>0, <2>1, <2>2, <2>3, <3>1, SendRecords
  <2>6. QED BY <2>4, <2>5
<1>8. ASSUME ~UseAfterFree, InClash PROVE RecordsInv'
  <2>1. cur \in Live /\ ~shutdown
    BY <1>0, <1>8, NilAssumption DEF InClash, IInv, WalkInv, UseAfterFree, Reads, LoopInv, Live
  <2>2. Delist(cur) /\ UNCHANGED <<data, unique, tries, a_publish, heard, probes, shutdown>>
    BY <1>8 DEF InClash
  <2>3. QED BY <1>0, <2>1, <2>2, DelistRecords
<1>9. ASSUME ~UseAfterFree, OutNow PROVE RecordsInv'
  <2>1. /\ a_now \in Rec /\ heap[a_now] = "live" /\ Sent(a_now) /\ a_now' = list[a_now]
        /\ UNCHANGED <<data, unique, tries, ttl, list, probing, a_pause, a_publish, probes, shutdown>>
    BY <1>0, <1>9, Types DEF OutNow, ROut, UseAfterFree, Reads
  <2>2. a_now \in Live /\ (shutdown => ttl[a_now] = 0)
    BY <1>0, <2>1 DEF LastInv, Live
  <2>3. ~shutdown => a_now \in Nonprobers
    BY <1>0, <2>1, NilAssumption DEF PlaceInv
  <2>4. QED BY <1>0, <2>1, <2>2, <2>3, OutRecords
<1>10. ASSUME ~UseAfterFree, OutPause PROVE RecordsInv'
  <2>1. /\ a_pause \in Rec /\ heap[a_pause] = "live" /\ Sent(a_pause)
        /\ a_pause' = list[a_pause] /\ ~shutdown
        /\ UNCHANGED <<data, unique, tries, ttl, list, probing, a_now, a_publish, probes, shutdown>>
    BY <1>0, <1>10, Types DEF OutPause, ROut, UseAfterFree, Reads, PauseDue
  <2>2. a_pause \in Live
    BY <2>1 DEF Live
  <2>3. a_pause \in Nonprobers
    BY <1>0, <2>1, NilAssumption DEF PlaceInv
  <2>4. QED BY <1>0, <2>1, <2>2, <2>3, OutRecords
<1>11. ASSUME ~UseAfterFree, OutPublish PROVE RecordsInv'
  <2>1. cur \in Live
    BY <1>0, <1>11, Types DEF OutPublish, UseAfterFree, Reads, Live
  <2>2. QED BY <1>0, <1>11, <2>1, PublishRecords
<1>12. CASE ProbePromote
  BY <1>0, <1>12, PromoteRecords
<1>13. CASE ProbeClaim
  BY <1>0, <1>13, ClaimRecords
<1>14. ASSUME \/ \E k \in Key, an \in Section, ns \in Section, u \in BOOLEAN :
                   InQuery(k, an, ns, u)
              \/ InProbed \/ StartOut \/ OutUnicast \/ OutBegin \/ OutNowEnd
              \/ OutPublishEnd \/ OutReturn \/ ProbeAsk \/ ProbeAskEnd
              \/ ProbeClaimEnd \/ Tick \/ Crash \/ UNCHANGED vars
       PROVE  RecordsInv'
  <2>1. shutdown' = shutdown
        /\ UNCHANGED <<heap, data, unique, tries, ttl, list, heads, heard, probes>>
    BY <1>14 DEF InQuery, InProbed, StartOut, OutUnicast, OutBegin, OutNowEnd,
       OutPublishEnd, OutReturn, ProbeAsk, ProbeAskEnd, ProbeClaimEnd, Tick, Crash, vars,
       recordVars, timers, walk, query, app, ghosts, daemonVars, others
  <2>2. QED BY <1>0, <2>1, QuietRecords
<1>15. QED
  BY <1>1, <1>2, <1>3, <1>4, <1>5, <1>6, <1>7, <1>8, <1>9, <1>10, <1>11, <1>12, <1>13,
     <1>14
  DEF Next, Application, Network, Daemon, Rest

\* What the walks have before them.
LEMMA LoopStep ==
  ASSUME ListsInv, [Next]_vars
  PROVE  LoopInv'
<1> USE DEF recordVars, heads, timers, walk, query, app, ghosts, daemonVars, others
<1>0. IInv /\ RecordsInv /\ LoopInv /\ LastInv /\ PlaceInv
  BY DEF ListsInv, RecordsInv
<1>1. ASSUME pc' \in {"recv", "in", "sleep", "out", "out_now", "out_pause", "exit"},
             pc' \in {"in", "sleep"} => ~shutdown',
             pc' = "exit" => shutdown'
      PROVE  LoopInv'
  BY <1>1 DEF LoopInv
<1>2. ASSUME \/ \E r \in Rec, k \in Key : MdnsdShared(r, k) \/ MdnsdUnique(r, k)
             \/ \E r \in Rec, v \in Data : MdnsdSet(r, v)
             \/ \E r \in Rec : MdnsdDone(r)
             \/ MdnsdShutdown
             \/ \E k \in Key, v \in Data : InAnswer(k, v)
             \/ \E k \in Key, an \in Section, ns \in Section, u \in BOOLEAN :
                   InQuery(k, an, ns, u)
             \/ StartOut \/ OutUnicast \/ OutBegin \/ OutNow \/ OutPublishEnd
             \/ OutPause \/ Tick
      PROVE  LoopInv'
  <2>1. pc' \in {"recv", "in", "sleep", "out", "out_now", "out_pause", "exit"}
        /\ (pc' \in {"in", "sleep"} => ~shutdown') /\ pc' # "exit"
    <3>1. ASSUME \/ \E r \in Rec, k \in Key : MdnsdShared(r, k) \/ MdnsdUnique(r, k)
                 \/ \E r \in Rec, v \in Data : MdnsdSet(r, v)
                 \/ \E r \in Rec : MdnsdDone(r)
                 \/ \E k \in Key, an \in Section, ns \in Section, u \in BOOLEAN :
                       InQuery(k, an, ns, u)
                 \/ Tick
          PROVE  pc' \in {"sleep", "in"} /\ ~shutdown /\ shutdown' = shutdown
      <4>1. CASE \E r \in Rec, k \in Key : MdnsdShared(r, k) \/ MdnsdUnique(r, k)
        BY <1>0, <4>1 DEF MdnsdShared, MdnsdUnique, Create, AppMayCall, LoopInv
      <4>2. CASE \/ \E r \in Rec, v \in Data : MdnsdSet(r, v)
                 \/ \E r \in Rec : MdnsdDone(r)
        BY <1>0, <4>2 DEF AppMayCall, MdnsdSet, MdnsdDone, LoopInv
      <4>3. CASE \E k \in Key, an \in Section, ns \in Section, u \in BOOLEAN :
                    InQuery(k, an, ns, u)
        BY <1>0, <4>3 DEF InQuery, MayReceive, LoopInv
      <4>4. CASE Tick
        BY <1>0, <4>4 DEF Tick, LoopInv
      <4>5. QED BY <3>1, <4>1, <4>2, <4>3, <4>4
    <3>2. ASSUME \/ MdnsdShutdown \/ \E k \in Key, v \in Data : InAnswer(k, v)
                 \/ StartOut \/ OutUnicast \/ OutBegin \/ OutNow \/ OutPublishEnd
                 \/ OutPause
          PROVE  pc' \in {"recv", "out", "out_now", "out_pause"}
      BY <3>2 DEF MdnsdShutdown, InAnswer, StartOut, OutUnicast, OutBegin, OutNow,
         ROut, OutPublishEnd, OutPause
    <3>3. QED BY <1>2, <3>1, <3>2
  <2>2. QED BY <1>1, <2>1
<1>3. CASE InReply \/ InProbed \/ InClash
  <2>1. pc = "in" /\ pc' \in {"recv", "in"} /\ shutdown' = shutdown
    BY <1>3 DEF InReply, InProbed, InClash, Advance
  <2>2. QED BY <1>0, <1>1, <2>1 DEF LoopInv
<1>4. CASE OutNowEnd
  <2>1. /\ pc' \in {"out_publish", "out_pause"} /\ last' = Nil
        /\ pc' = "out_publish" => cur' = a_publish
        /\ UNCHANGED <<a_publish, shutdown>>
    BY <1>4 DEF OutNowEnd
  <2>2. QED BY <2>1 DEF LoopInv
<1>5. ASSUME ~UseAfterFree, OutPublish PROVE LoopInv'
  <2>1. /\ pc = "out_publish" /\ pc' = pc /\ cur # Nil /\ cur' = list[cur]
        /\ shutdown' = shutdown
        /\ \/ Stays(cur) /\ last' = cur /\ UNCHANGED <<a_publish, list>>
           \/ ~Stays(cur) /\ last' = last /\ Unlink(list[cur])
    BY <1>5 DEF OutPublish
  <2>2. CASE shutdown
    <3>1. cur \in Live
      BY <1>5, <2>1, Types, <1>0 DEF UseAfterFree, Reads, Live
    <3>2. last' = last /\ last = Nil
      BY <1>0, <2>1, <2>2, <3>1 DEF LastInv, Stays, LoopInv
    <3>3. QED BY <2>1, <2>2, <3>2 DEF LoopInv
  <2>3. CASE ~shutdown
    <3>1. IF last = Nil THEN cur = a_publish ELSE last \in Announced
      BY <1>0, <2>1, <2>3 DEF LoopInv
    <3>2. /\ cur \in Announced
          /\ last # Nil => a_publish # cur /\ last # cur
          /\ Unlink(list[cur]) => Announced' = Announced \ {cur}
      BY <1>0, <2>1, <2>3, <3>1, AnnouncePlace
    <3>3. CASE Stays(cur)
      <4>1. Announced' = Announced /\ last' = cur
        BY <2>1, <3>3 DEF Announced, Chain, OnList
      <4>2. QED BY <2>1, <2>3, <3>2, <4>1 DEF LoopInv
    <3>4. CASE ~Stays(cur)
      <4>1. last = Nil => a_publish' = cur'
        BY <2>1, <3>1, <3>4 DEF Unlink
      <4>2. last # Nil => last \in Announced'
        BY <2>1, <3>1, <3>2, <3>4
      <4>3. last' = last
        BY <2>1, <3>4
      <4>4. QED BY <2>1, <2>3, <4>1, <4>2, <4>3 DEF LoopInv
    <3>5. QED BY <3>3, <3>4
  <2>4. QED BY <2>2, <2>3
<1>6. CASE OutReturn
  <2>1. /\ pc' \in {"out", "exit", "sleep", "probe_ask"}
        /\ pc' \in {"sleep", "probe_ask"} => ~shutdown
        /\ pc' = "exit" => shutdown
        /\ pc' = "probe_ask" => cur' = probing
        /\ UNCHANGED <<heap, unique, list, probing, shutdown>>
    BY <1>6 DEF OutReturn
  <2>2. CASE pc' = "probe_ask"
    <3>1. Probers' = Probers /\ Chain(list, cur)' = Chain(list, probing)
      BY <2>1, <2>2 DEF Probers, Probing, Chain, OnList
    <3>2. Chain(list, probing) = Probers /\ probing \in Probers \cup {Nil}
      BY <1>0, <2>1, <2>2, Placed DEF PlaceInv
    <3>3. QED BY <2>1, <2>2, <3>1, <3>2 DEF LoopInv
  <2>3. QED BY <1>1, <2>1, <2>2
<1>7. CASE ProbePromote
  <2>1. /\ pc = "probe_ask" /\ pc' = pc /\ cur' = list[cur]
        /\ heap' = heap /\ unique' = [unique EXCEPT ![cur] = 5] /\ shutdown' = shutdown
    BY <1>7 DEF ProbePromote
  <2>2. /\ ~shutdown /\ cur \in Probers /\ cur \in Rec
        /\ Chain(list', list[cur]) = Chain(list, cur) \ {cur}
    BY <1>0, <1>7, PromotePlace
  <2>3. unique'[cur] = 5 /\ \A x \in Rec \ {cur} : unique'[x] = unique[x]
    BY <1>0, <2>1, <2>2, Types
  <2>4. Probers' = Probers \ {cur}
    BY <2>1, <2>3 DEF Probers, Probing
  <2>5. Chain(list, cur)' = Chain(list, cur) \ {cur}
    <3>1. Chain(list, cur)' = Chain(list', cur')
      BY DEF Chain, OnList
    <3>2. QED BY <2>1, <2>2, <3>1
  <2>6. \A r \in Probers' : unique'[r] = 4 => r \in Chain(list, cur)'
    BY <1>0, <2>1, <2>3, <2>4, <2>5 DEF LoopInv, Probers
  <2>7. cur' \in Probers' \cup {Nil}
    <3>1. list[cur] \in Chain(list, cur) \cup {Nil} /\ list[cur] \in Rec \cup {Nil}
      BY <1>0, <2>2, Types, ChainHead, ChainClosed DEF Links
    <3>2. list[cur] # cur
      BY <1>0, <2>2, Types, OnListHead, NoReturn
    <3>3. Chain(list, cur) \subseteq Probers
      <4>1. Chain(list, probing) = Probers
        BY <1>0, <2>2 DEF PlaceInv
      <4>2. list \in Links /\ probing \in Rec \cup {Nil}
        BY <1>0, Types
      <4>3. QED BY <2>2, <4>1, <4>2, ChainSuffix
    <3>4. QED BY <2>1, <2>4, <3>1, <3>2, <3>3
  <2>8. QED BY <2>1, <2>2, <2>6, <2>7 DEF LoopInv
<1>8. CASE ProbeAsk
  <2>1. /\ pc = "probe_ask" /\ pc' = pc /\ cur # Nil /\ unique[cur] # 4 /\ cur' = list[cur]
        /\ UNCHANGED <<heap, unique, list, probing, shutdown>>
    BY <1>8 DEF ProbeAsk, Probed
  <2>2. ~shutdown /\ cur \in Probers /\ cur \in Rec
    BY <1>0, <2>1 DEF LoopInv, Probers
  <2>3. Probers' = Probers /\ Chain(list, cur)' = Chain(list, list[cur])
    BY <2>1 DEF Probers, Probing, Chain, OnList
  <2>4. Chain(list, list[cur]) = Chain(list, cur) \ {cur}
    BY <1>0, <2>2, Types, ChainTail
  <2>5. list[cur] \in Probers \cup {Nil}
    <3>1. cur \in Chain(list, probing) /\ Chain(list, probing) = Probers
      BY <1>0, <2>2 DEF PlaceInv
    <3>2. QED BY <1>0, <3>1, Types, ChainClosed
  <2>6. \A r \in Probers : unique[r] = 4 => r \in Chain(list, list[cur])
    BY <1>0, <2>1, <2>4 DEF LoopInv
  <2>7. QED BY <2>1, <2>2, <2>3, <2>5, <2>6 DEF LoopInv
<1>9. CASE ProbeAskEnd
  <2>1. /\ pc = "probe_ask" /\ pc' = "probe_claim" /\ cur = Nil /\ cur' = probing
        /\ UNCHANGED <<heap, unique, list, probing, shutdown>>
    BY <1>9 DEF ProbeAskEnd
  <2>2. Probers' = Probers /\ Chain(list, cur)' = Chain(list, probing)
    BY <2>1 DEF Probers, Probing, Chain, OnList
  <2>3. ~shutdown /\ Chain(list, probing) = Probers /\ probing \in Probers \cup {Nil}
    BY <1>0, <2>1, Placed DEF PlaceInv, LoopInv
  <2>4. \A r \in Probers : unique[r] # 4
    BY <1>0, <2>1, ChainNil DEF LoopInv
  <2>5. \A r \in Probers : unique[r] <= 3
    BY <2>4 DEF Probers, Probing
  <2>6. QED BY <2>1, <2>2, <2>3, <2>5 DEF LoopInv
<1>10. CASE ProbeClaim
  <2>1. /\ pc = "probe_claim" /\ pc' = pc /\ cur # Nil /\ cur' = list[cur]
        /\ UNCHANGED <<list, probing, shutdown>>
    BY <1>10 DEF ProbeClaim
  <2>2. ~shutdown /\ cur \in Probers /\ cur \in Rec
    BY <1>0, <2>1 DEF LoopInv, Probers
  <2>3. Probers' = Probers /\ \A x \in Rec \ {cur} : unique'[x] = unique[x]
    BY <1>0, <1>10, ClaimRecords
  <2>4. Chain(list, cur)' = Chain(list, cur) \ {cur}
    <3>1. Chain(list, cur)' = Chain(list, list[cur])
      BY <2>1 DEF Chain, OnList
    <3>2. QED BY <1>0, <2>2, <3>1, Types, ChainTail
  <2>5. list[cur] \in Probers \cup {Nil}
    <3>1. cur \in Chain(list, probing) /\ Chain(list, probing) = Probers
      BY <1>0, <2>2 DEF PlaceInv
    <3>2. QED BY <1>0, <3>1, Types, ChainClosed
  <2>6. \A r \in Chain(list, cur)' : unique'[r] <= 3
    BY <1>0, <2>1, <2>3, <2>4 DEF LoopInv, Chain
  <2>7. QED BY <2>1, <2>2, <2>3, <2>5, <2>6 DEF LoopInv
<1>11. CASE ProbeClaimEnd
  <2>1. pc = "probe_claim" /\ pc' \in {"out", "sleep"} /\ shutdown' = shutdown
    BY <1>11 DEF ProbeClaimEnd
  <2>2. QED BY <1>0, <1>1, <2>1 DEF LoopInv
<1>12. CASE Crash \/ UNCHANGED vars
  <2>1. UNCHANGED <<heap, unique, list, a_publish, pc, cur, last, shutdown>>
    BY <1>12 DEF Crash, vars
  <2>2. /\ Probers' = Probers /\ Chain(list, cur)' = Chain(list, cur)
        /\ Announced' = Announced
    BY <2>1 DEF Probers, Probing, Chain, OnList, Announced
  <2>3. QED BY <1>0, <2>1, <2>2 DEF LoopInv
<1>13. QED
  BY <1>2, <1>3, <1>4, <1>5, <1>6, <1>7, <1>8, <1>9, <1>10, <1>11, <1>12
  DEF Next, Application, Network, Daemon, Rest

\* What is left of the shutdown.
LEMMA LastStep ==
  ASSUME ListsInv, [Next]_vars
  PROVE  LastInv'
<1> USE DEF recordVars, heads, timers, walk, query, app, ghosts, daemonVars, others
<1>0. IInv /\ RecordsInv /\ LoopInv /\ LastInv
  BY DEF ListsInv
<1>1. ASSUME shutdown' = FALSE PROVE LastInv'
  BY <1>1 DEF LastInv
<1>2. CASE MdnsdShutdown
  <2>1. /\ ttl' = [r \in Rec |-> IF r \in Live THEN 0 ELSE ttl[r]]
        /\ heap' = heap /\ pc' = "recv"
    BY <1>2 DEF MdnsdShutdown
  <2>2. \A x \in Live : x \in Chain(list', a_now')
    BY <1>0, <1>2, ShutdownPlace
  <2>3. Live' = Live /\ Chain(list, a_now)' = Chain(list', a_now')
    BY <2>1 DEF Live, Chain, OnList
  <2>4. \A x \in Live : ttl'[x] = 0
    BY <2>1 DEF Live
  <2>5. QED BY <2>1, <2>2, <2>3, <2>4 DEF LastInv
<1>3. ASSUME \/ \E r \in Rec, k \in Key : MdnsdShared(r, k) \/ MdnsdUnique(r, k)
             \/ \E r \in Rec, v \in Data : MdnsdSet(r, v)
             \/ \E r \in Rec : MdnsdDone(r)
             \/ \E k \in Key, v \in Data : InAnswer(k, v)
             \/ \E k \in Key, an \in Section, ns \in Section, u \in BOOLEAN :
                   InQuery(k, an, ns, u)
             \/ InReply \/ InProbed \/ InClash \/ OutPause
             \/ ProbePromote \/ ProbeAsk \/ ProbeAskEnd \/ ProbeClaim \/ ProbeClaimEnd
             \/ Tick
      PROVE  LastInv'
  <2>1. shutdown' = shutdown /\ ~shutdown
    <3>1. CASE \/ \E r \in Rec, k \in Key : MdnsdShared(r, k) \/ MdnsdUnique(r, k)
               \/ \E r \in Rec, v \in Data : MdnsdSet(r, v)
               \/ \E r \in Rec : MdnsdDone(r)
      BY <3>1 DEF MdnsdShared, MdnsdUnique, Create, AppMayCall, MdnsdSet, MdnsdDone
    <3>2. CASE \/ \E k \in Key, v \in Data : InAnswer(k, v)
               \/ \E k \in Key, an \in Section, ns \in Section, u \in BOOLEAN :
                     InQuery(k, an, ns, u)
      BY <3>2 DEF InAnswer, InQuery, MayReceive
    <3>3. CASE InReply \/ InProbed \/ InClash
      BY <1>0, <3>3 DEF InReply, InProbed, InClash, LoopInv
    <3>4. CASE OutPause
      BY <1>0, <3>4 DEF OutPause, ROut, PauseDue, LoopInv
    <3>5. CASE ProbePromote \/ ProbeAsk \/ ProbeAskEnd \/ ProbeClaim \/ ProbeClaimEnd \/ Tick
      BY <1>0, <3>5 DEF ProbePromote, ProbeAsk, ProbeAskEnd, ProbeClaim, ProbeClaimEnd, Tick, LoopInv
    <3>6. QED BY <1>3, <3>1, <3>2, <3>3, <3>4, <3>5
  <2>2. shutdown' = FALSE
    BY <1>0, <2>1 DEF IInv, TypeOK, LoopTypes
  <2>3. QED BY <1>1, <2>2
<1>4. ASSUME UNCHANGED <<heap, ttl, list, a_now, shutdown>>,
             pc' \in {"out_publish", "out_pause"} /\ room' = Frame => a_now = Nil,
             shutdown /\ pc' = "exit" => a_now = Nil
      PROVE  LastInv'
  <2>1. Live' = Live /\ Chain(list, a_now)' = Chain(list, a_now)
    BY <1>4 DEF Live, Chain, OnList
  <2>2. ASSUME shutdown, a_now = Nil PROVE Live = {}
    <3>1. Chain(list, a_now) = {}
      BY <2>2, ChainNil
    <3>2. QED BY <1>0, <2>2, <3>1 DEF LastInv
  <2>3. QED BY <1>0, <1>4, <2>1, <2>2 DEF LastInv
<1>5. CASE StartOut \/ OutUnicast \/ OutBegin
  <2>1. /\ UNCHANGED <<heap, ttl, list, a_now, shutdown>> /\ pc' \in {"out", "out_now"}
    BY <1>5 DEF StartOut, OutUnicast, OutBegin
  <2>2. QED BY <1>4, <2>1
<1>6. CASE OutNowEnd
  <2>1. /\ UNCHANGED <<heap, ttl, list, a_now, shutdown, room>>
        /\ pc' \in {"out_publish", "out_pause"} /\ (a_now = Nil \/ room = 0)
    BY <1>6 DEF OutNowEnd
  <2>2. QED BY <1>4, <2>1, FrameAssumption
<1>7. CASE OutPublishEnd
  <2>1. /\ UNCHANGED <<heap, ttl, list, a_now, shutdown, room>>
        /\ pc = "out_publish" /\ pc' = "out_pause"
    BY <1>7 DEF OutPublishEnd
  <2>2. CASE shutdown
    BY <1>0, <1>4, <2>1, <2>2 DEF LastInv
  <2>3. CASE ~shutdown
    BY <2>1, <2>3 DEF LastInv
  <2>4. QED BY <2>2, <2>3
<1>8. CASE OutReturn
  <2>1. /\ UNCHANGED <<heap, ttl, list, a_now, shutdown>> /\ pc = "out_pause"
        /\ pc' \in {"out", "exit", "sleep", "probe_ask"}
        /\ pc' = "exit" => room = Frame /\ shutdown
    BY <1>8 DEF OutReturn, NothingSent
  <2>2. shutdown /\ pc' = "exit" => a_now = Nil
    BY <1>0, <2>1 DEF LastInv
  <2>3. QED BY <1>4, <2>1, <2>2
<1>9. CASE Crash \/ UNCHANGED vars
  <2>1. UNCHANGED <<heap, ttl, list, a_now, shutdown, pc, room>>
    BY <1>9 DEF Crash, vars
  <2>2. CASE shutdown
    <3>1. pc = "exit" => a_now = Nil \/ Live = {}
      BY <1>0, <2>2 DEF LastInv
    <3>2. Live' = Live /\ Chain(list, a_now)' = Chain(list, a_now)
      BY <2>1 DEF Live, Chain, OnList
    <3>3. QED BY <1>0, <2>1, <2>2, <3>2 DEF LastInv
  <2>3. CASE ~shutdown
    BY <2>1, <2>3 DEF LastInv
  <2>4. QED BY <2>2, <2>3
<1>10. ASSUME ~UseAfterFree, OutNow PROVE LastInv'
  <2>1. /\ pc' = "out_now" /\ a_now # Nil /\ Sent(a_now) /\ a_now' = list[a_now]
        /\ UNCHANGED <<ttl, list, shutdown>>
    BY <1>10 DEF OutNow, ROut
  <2>2. SUFFICES ASSUME shutdown PROVE LastInv'
    BY <2>1 DEF LastInv
  <2>3. a_now \in Live /\ a_now \in Rec
    BY <1>0, <1>10, <2>1, Types DEF OutNow, UseAfterFree, Reads, Live
  <2>4. ttl[a_now] = 0
    BY <1>0, <2>2, <2>3 DEF LastInv
  <2>5. heap'[a_now] = "freed" /\ \A x \in Rec \ {a_now} : heap'[x] = heap[x]
    BY <1>0, <2>1, <2>3, <2>4, SentRecord
  <2>6. Live' = Live \ {a_now}
    BY <2>5 DEF Live
  <2>7. Chain(list, a_now)' = Chain(list, a_now) \ {a_now}
    <3>1. Chain(list, a_now)' = Chain(list, list[a_now])
      BY <2>1 DEF Chain, OnList
    <3>2. QED BY <1>0, <2>3, <3>1, Types, ChainTail
  <2>8. QED BY <1>0, <2>1, <2>2, <2>6, <2>7 DEF LastInv
<1>11. ASSUME ~UseAfterFree, OutPublish PROVE LastInv'
  <2>1. /\ pc = "out_publish" /\ pc' = pc /\ cur # Nil /\ Sent(cur) /\ room > 0
        /\ room' = room - 1
        /\ UNCHANGED <<ttl, a_now, shutdown>>
        /\ Stays(cur) \/ Unlink(list[cur])
    BY <1>11 DEF OutPublish
  <2>2. SUFFICES ASSUME shutdown PROVE LastInv'
    BY <2>1 DEF LastInv
  <2>3. cur \in Live /\ cur \in Rec
    BY <1>0, <1>11, <2>1, Types DEF UseAfterFree, Reads, Live
  <2>4. ttl[cur] = 0
    BY <1>0, <2>2, <2>3 DEF LastInv
  <2>5. heap'[cur] = "freed" /\ \A x \in Rec \ {cur} : heap'[x] = heap[x]
    BY <1>0, <2>1, <2>3, <2>4, SentRecord
  <2>6. Live' = Live \ {cur}
    BY <2>5 DEF Live
  <2>7. list' = list
    BY <1>0, <2>1, <2>2, <2>4 DEF Stays, Unlink, LoopInv
  <2>8. Chain(list, a_now)' = Chain(list, a_now)
    BY <2>1, <2>7 DEF Chain, OnList
  <2>9. room' # Frame
    BY <1>0, <2>1, Types, FrameAssumption
  <2>10. QED BY <1>0, <2>1, <2>2, <2>6, <2>8, <2>9 DEF LastInv
<1>12. QED
  BY <1>2, <1>3, <1>5, <1>6, <1>7, <1>8, <1>9, <1>10, <1>11
  DEF Next, Application, Network, Daemon, Rest

LEMMA InitLists == Init => RecordsInv /\ LoopInv /\ LastInv
<1> SUFFICES ASSUME Init PROVE RecordsInv /\ LoopInv /\ LastInv
  OBVIOUS
<1>1. FreshInv /\ CountInv
  BY DEF Init, FreshInv, CountInv, Probing
<1>2. Probers = {} /\ Nonprobers = {} /\ Live = {}
  BY DEF Init, Probers, Nonprobers, Live
<1>3. Chain(list, probing) = {} /\ Announced = {}
  BY ChainNil DEF Init, Announced
<1>4. PlaceInv /\ AnnounceInv /\ CurrentInv
  BY <1>2, <1>3 DEF Init, PlaceInv, AnnounceInv, CurrentInv
<1>5. LoopInv /\ LastInv
  BY <1>2 DEF Init, LoopInv, LastInv
<1>6. QED BY <1>1, <1>4, <1>5 DEF RecordsInv

-----------------------------------------------------------------------------
\* The theorems

\* The inductive invariant holds in every reachable state, in every environment.
THEOREM ListsInductive == Spec => []ListsInv
<1>1. Init => ListsInv
  BY InitIInv, InitLists DEF ListsInv
<1>2. ListsInv /\ [Next]_vars => ListsInv'
  <2> SUFFICES ASSUME ListsInv, [Next]_vars PROVE ListsInv'
    OBVIOUS
  <2>1. IInv'
    BY TypeStep, OrderStep, AcyclicStep, WalkStep DEF ListsInv, IInv
  <2>2. QED BY <2>1, RecordsStep, LoopStep, LastStep DEF ListsInv
<1>3. QED BY <1>1, <1>2, PTL DEF Spec

\* Until the shutdown, mdnsd_done and _conflict find every record that is being
\* probed on the probing list, and that list holds no other (mdnsd.c:489).
THEOREM ProbingListExact == Spec => []ProbingExact
<1>1. ListsInv => ProbingExact
  <2> SUFFICES ASSUME ListsInv, ~shutdown, NEW r \in Rec
               PROVE  OnList(list, probing, r) <=> heap[r] = "live" /\ Probing(r)
    BY DEF ProbingExact
  <2>1. Chain(list, probing) = Probers
    BY DEF ListsInv, RecordsInv, PlaceInv
  <2>2. QED BY <2>1 DEF Chain, Probers
<1>2. QED BY ListsInductive, <1>1, PTL

\* Peers hear of a unique record only after three probes went out for it,
\* whatever the application, the peers and the moment of the shutdown.
THEOREM ThreeProbesFirst == Spec => []ProbedBeforeAnnounced
<1>1. ListsInv => ProbedBeforeAnnounced
  BY DEF ListsInv, RecordsInv, CountInv, ProbedBeforeAnnounced, Probing
<1>2. QED BY ListsInductive, <1>1, PTL

\* No record that peers believe in is freed: its goodbye went out before.
THEOREM NoFreeWithoutGoodbye == Spec => []GoodbyeBeforeFree
<1>1. ListsInv => GoodbyeBeforeFree
  BY DEF ListsInv, RecordsInv, CountInv, GoodbyeBeforeFree
<1>2. QED BY ListsInductive, <1>1, PTL

\* A record whose announcements began stays on a_publish until they are over,
\* although its link is shared with three other lists.
THEOREM AnnouncementsGoOn == Spec => []AnnouncementsQueued
<1>1. ListsInv => AnnouncementsQueued
  BY DEF ListsInv, RecordsInv, AnnounceInv, AnnouncementsQueued, Announced, Chain
<1>2. QED BY ListsInductive, <1>1, PTL

\* Once a_publish is empty, what peers last heard of every record is its
\* current data, however often mdnsd_set_* changed it.
THEOREM PeersLearnTheData == Spec => []PeersAreCurrent
<1>1. ListsInv => PeersAreCurrent
  <2> SUFFICES ASSUME ListsInv, ~shutdown, a_publish = Nil, NEW r \in Live,
                      ttl[r] = 1, ~Probing(r), data[r] # Empty
               PROVE  heard[r] = data[r]
    BY DEF PeersAreCurrent
  <2>1. Announced = {}
    BY ChainNil DEF Announced
  <2>2. QED BY <2>1 DEF ListsInv, RecordsInv, CurrentInv
<1>2. QED BY ListsInductive, <1>1, PTL

\* When the main loop ends after mdnsd_shutdown, peers believe in no record.
THEOREM ExitIsClean == Spec => []ExitSaidGoodbye
<1>1. ListsInv => ExitSaidGoodbye
  <2> SUFFICES ASSUME ListsInv, pc = "exit", NEW r \in Rec
               PROVE  heard[r] \in {Nil, Gone}
    BY DEF ExitSaidGoodbye
  <2>1. heap[r] \in {"none", "live", "freed"}
    BY Types DEF ListsInv
  <2>2. CASE heap[r] = "none"
    BY <2>2 DEF ListsInv, RecordsInv, FreshInv
  <2>3. CASE heap[r] = "freed"
    BY <2>3 DEF ListsInv, RecordsInv, CountInv
  <2>4. heap[r] # "live"
    BY DEF ListsInv, LoopInv, LastInv, Live
  <2>5. QED BY <2>1, <2>2, <2>3, <2>4
<1>2. QED BY ListsInductive, <1>1, PTL
=============================================================================
