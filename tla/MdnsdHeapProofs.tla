---------------------------- MODULE MdnsdHeapProofs ----------------------------
(***************************************************************************)
(* Theorems about the memory of MdnsdRecords.  mdnsd.c keeps four lists in *)
(* one link field; these theorems say from which use of the daemon on that *)
(* is sound: while no established record is set again ("reset") and the    *)
(* shutdown finds the lists empty (no "abrupt"), the lists stay apart and  *)
(* live and lose nothing; and when moreover no rival claims the data of a  *)
(* record being probed and no unicast query hits one ("rival", "early"),   *)
(* no step reads a freed record.  Each of the four is needed: the run      *)
(* records_hostile and the section on divergences of the README show why.  *)
(***************************************************************************)
EXTENDS MdnsdListsProofs

Now == Chain(list, a_now)
Pausing == Chain(list, a_pause)

\* The three lists tell their records apart by unique and tries, so that what
\* _r_send and _r_publish push is on no other list.
SeparateInv ==
  ~shutdown =>
    /\ \A r \in Now : r \in Live /\ unique[r] = 5 /\ tries[r] >= 4
    /\ \A r \in Pausing : r \in Live /\ unique[r] = 0 /\ tries[r] >= 4
    /\ Announced \subseteq Live
    /\ \A r \in Rec : unique[r] = 0 /\ data[r] = Empty => tries[r] = 0 /\ r \notin Announced

\* What is owed is on a list.
OwedInv ==
  /\ ~shutdown => \A r \in Live : owed[r] => r \in Now \cup Pausing \cup Announced
  /\ \A r \in Rec : heap[r] = "none" => ~owed[r]

\* After a shutdown of settled lists, a_now is the only list.
ShutInv ==
  shutdown => /\ probing = Nil /\ a_pause = Nil /\ a_publish = Nil
              /\ Now \subseteq Live
              /\ pc # "out_publish"

HeapInv == SeparateInv /\ OwedInv /\ ShutInv

-----------------------------------------------------------------------------
\* Facts the steps share

LEMMA Primes ==
  /\ Now' = Chain(list', a_now') /\ Pausing' = Chain(list', a_pause')
  /\ Announced' = Chain(list', a_publish')
BY DEF Now, Pausing, Announced, Chain, OnList

\* A step that changes only links of other records leaves a list alone.
LEMMA ChainKept ==
  ASSUME IInv, TypeOK', NEW h \in Rec \cup {Nil},
         \A x \in Chain(list, h) : list'[x] = list[x]
  PROVE  Chain(list', h) = Chain(list, h)
<1>1. list \in Links /\ list' \in Links
  BY DEF IInv, TypeOK, ListTypes, Links
<1>2. QED BY <1>1, ChainAgrees

\* The lists are apart.
LEMMA ListsDisjoint ==
  ASSUME IInv, RecordsInv, SeparateInv, ~shutdown
  PROVE  /\ Now \cap Pausing = {} /\ Now \cap Announced = {} /\ Pausing \cap Announced = {}
         /\ Now \subseteq Nonprobers /\ Pausing \subseteq Nonprobers
         /\ Announced \subseteq Nonprobers
         /\ Now \subseteq Rec /\ Pausing \subseteq Rec /\ Announced \subseteq Rec
<1>1. \A r \in Rec : tries[r] \in Nat
  BY Types
<1>2. Now \subseteq Rec /\ Pausing \subseteq Rec /\ Announced \subseteq Rec
  BY DEF Now, Pausing, Announced, Chain
<1>3. \A r \in Announced : tries[r] < 4
  BY DEF RecordsInv, AnnounceInv
<1>4. Now \subseteq Nonprobers /\ Pausing \subseteq Nonprobers /\ Announced \subseteq Nonprobers
  BY Placed DEF RecordsInv, Now, Pausing
<1>5. Now \cap Pausing = {}
  BY DEF SeparateInv
<1>6. Now \cap Announced = {} /\ Pausing \cap Announced = {}
  BY <1>1, <1>2, <1>3 DEF SeparateInv
<1>7. QED BY <1>2, <1>4, <1>5, <1>6

\* Steps that leave records and lists alone.
LEMMA QuietHeap ==
  ASSUME HeapInv, shutdown' = shutdown, pc' # "out_publish" \/ ~shutdown,
         UNCHANGED <<heap, data, unique, tries, list, heads, owed>>
  PROVE  HeapInv'
<1> USE DEF heads
<1>1. Now' = Now /\ Pausing' = Pausing /\ Announced' = Announced /\ Live' = Live
  BY DEF Now, Pausing, Announced, Chain, OnList, Live
<1>2. SeparateInv'
  BY <1>1 DEF HeapInv, SeparateInv
<1>3. OwedInv'
  BY <1>1 DEF HeapInv, OwedInv
<1>4. ShutInv'
  BY <1>1 DEF HeapInv, ShutInv
<1>5. QED BY <1>2, <1>3, <1>4 DEF HeapInv

\* _r_send puts a record on the list of its kind, and on no other.
LEMMA SendHeap ==
  ASSUME IInv, TypeOK', RecordsInv, HeapInv, ~shutdown,
         NEW r \in Live, ~Probing(r), RSend(r),
         UNCHANGED <<heap, data, unique, tries, a_publish, shutdown>>
  PROVE  HeapInv'
<1>0. /\ list \in Links /\ Acyclic(list) /\ list' \in Links /\ a_now \in Rec \cup {Nil}
      /\ a_pause \in Rec \cup {Nil} /\ a_publish \in Rec \cup {Nil}
      /\ r \in Rec /\ tries[r] \in Nat /\ unique[r] \in {0, 5} /\ Live' = Live
      /\ owed \in [Rec -> BOOLEAN]
  <2>1. r \in Rec /\ Live' = Live
    BY DEF Live
  <2>2. unique[r] \in 0..5
    BY <2>1 DEF RecordsInv, CountInv
  <2>3. unique[r] \in {0, 5}
    BY <2>2 DEF Probing
  <2>4. list' \in Links
    BY DEF TypeOK, ListTypes, Links
  <2>5. owed \in [Rec -> BOOLEAN]
    BY DEF IInv, TypeOK, OutsideTypes
  <2>6. QED BY <2>1, <2>3, <2>4, <2>5, Types
<1>1. /\ Now \cap Pausing = {} /\ Now \cap Announced = {} /\ Pausing \cap Announced = {}
      /\ Now \subseteq Rec /\ Pausing \subseteq Rec /\ Announced \subseteq Rec
      /\ \A x \in Announced : tries[x] < 4
      /\ \A x \in Now : x \in Live /\ unique[x] = 5 /\ tries[x] >= 4
      /\ \A x \in Pausing : x \in Live /\ unique[x] = 0 /\ tries[x] >= 4
      /\ Announced \subseteq Live
      /\ \A x \in Rec : unique[x] = 0 /\ data[x] = Empty => tries[x] = 0 /\ x \notin Announced
      /\ \A x \in Live : owed[x] => x \in Now \cup Pausing \cup Announced
      /\ \A x \in Rec : heap[x] = "none" => ~owed[x]
  BY ListsDisjoint DEF HeapInv, RecordsInv, AnnounceInv, SeparateInv, OwedInv
<1>2. CASE Announcing(r) /\ UNCHANGED <<list, a_now, a_pause, owed>>
  <2>1. Now' = Now /\ Pausing' = Pausing /\ Announced' = Announced
    BY <1>2 DEF Now, Pausing, Announced, Chain, OnList
  <2>2. QED BY <1>0, <1>2, <2>1 DEF HeapInv, SeparateInv, OwedInv, ShutInv
<1>3. ASSUME NEW h, NEW g, h \in {a_now, a_pause}, ~Announcing(r),
             Pushed(list, h, r, list', g)
      PROVE  /\ Chain(list', g) = Chain(list, h) \cup {r}
             /\ \A a \in {a_now, a_pause, a_publish} :
                  r \notin Chain(list, a) => Chain(list', a) = Chain(list, a)
             /\ tries[r] >= 4 /\ r \notin Announced
  <2>1. h \in Rec \cup {Nil}
    BY <1>0, <1>3
  <2>2. /\ Chain(list', g) = Chain(list, h) \cup {r}
        /\ \A x \in Rec : list'[x] # list[x] => x = r
    BY ONLY <1>0, <1>3, <2>1, ChainPush
  <2>3. ASSUME NEW a \in {a_now, a_pause, a_publish}, r \notin Chain(list, a)
        PROVE  Chain(list', a) = Chain(list, a)
    <3>1. \A x \in Chain(list, a) : list'[x] = list[x]
      BY <2>2, <2>3 DEF Chain
    <3>2. QED BY <1>0, <3>1, ChainAgrees
  <2>4. tries[r] >= 4
    BY <1>0, <1>3 DEF Announcing
  <2>5. QED BY <1>0, <1>1, <2>2, <2>3, <2>4
<1>4. CASE /\ ~Announcing(r) /\ unique[r] # 0 /\ Push(list, a_now, r)
           /\ owed' = [owed EXCEPT ![r] = TRUE] /\ a_pause' = a_pause
  <2>1. Pushed(list, a_now, r, list', a_now')
    BY <1>4 DEF Push, Pushed
  <2>2. /\ Chain(list', a_now') = Now \cup {r} /\ tries[r] >= 4 /\ r \notin Announced
        /\ \A a \in {a_now, a_pause, a_publish} :
             r \notin Chain(list, a) => Chain(list', a) = Chain(list, a)
    BY <1>3, <1>4, <2>1 DEF Now
  <2>3. unique[r] = 5 /\ r \notin Pausing
    BY <1>0, <1>1, <1>4
  <2>4. Now' = Now \cup {r} /\ Pausing' = Pausing /\ Announced' = Announced
    BY <1>4, <2>2, <2>3, Primes DEF Pausing, Announced
  <2>5. owed'[r] /\ \A x \in Rec \ {r} : owed'[x] = owed[x]
    BY <1>0, <1>4
  <2>6. SeparateInv'
    BY <1>0, <1>1, <2>2, <2>3, <2>4 DEF SeparateInv
  <2>7. OwedInv'
    BY <1>0, <1>1, <2>4, <2>5 DEF OwedInv, Live
  <2>8. QED BY <2>6, <2>7 DEF HeapInv, ShutInv
<1>5. CASE /\ ~Announcing(r) /\ unique[r] = 0 /\ Push(list, a_pause, r)
           /\ owed' = [owed EXCEPT ![r] = TRUE] /\ a_now' = a_now
  <2>1. Pushed(list, a_pause, r, list', a_pause')
    BY <1>5 DEF Push, Pushed
  <2>2. /\ Chain(list', a_pause') = Pausing \cup {r} /\ tries[r] >= 4 /\ r \notin Announced
        /\ \A a \in {a_now, a_pause, a_publish} :
             r \notin Chain(list, a) => Chain(list', a) = Chain(list, a)
    BY <1>3, <1>5, <2>1 DEF Pausing
  <2>3. r \notin Now
    BY <1>0, <1>1, <1>5
  <2>4. Pausing' = Pausing \cup {r} /\ Now' = Now /\ Announced' = Announced
    BY <1>5, <2>2, <2>3, Primes DEF Now, Announced
  <2>5. owed'[r] /\ \A x \in Rec \ {r} : owed'[x] = owed[x]
    BY <1>0, <1>5
  <2>6. SeparateInv'
    BY <1>0, <1>1, <1>5, <2>2, <2>4 DEF SeparateInv
  <2>7. OwedInv'
    BY <1>0, <1>1, <2>4, <2>5 DEF OwedInv, Live
  <2>8. QED BY <2>6, <2>7 DEF HeapInv, ShutInv
<1>6. QED BY <1>2, <1>4, <1>5 DEF RSend

-----------------------------------------------------------------------------
\* The lists, action by action

\* A created record is on no list, or on the probing list alone.
LEMMA CreateHeap ==
  ASSUME IInv, TypeOK', RecordsInv, HeapInv, NEW r \in Rec, NEW k \in Key,
         MdnsdShared(r, k) \/ MdnsdUnique(r, k)
  PROVE  HeapInv'
<1> USE DEF heads, timers, ghosts
<1>1. /\ ~shutdown /\ shutdown' = shutdown /\ heap[r] = "none"
      /\ heap' = [heap EXCEPT ![r] = "live"]
      /\ list' = list \/ list' = [list EXCEPT ![r] = probing]
      /\ unique' = unique \/ unique' = [unique EXCEPT ![r] = 1]
      /\ UNCHANGED <<data, tries, a_now, a_pause, a_publish, owed>>
  BY DEF MdnsdShared, MdnsdUnique, Create, Push, AppMayCall
<1>2. /\ Now \subseteq Nonprobers /\ Pausing \subseteq Nonprobers
      /\ Announced \subseteq Nonprobers
      /\ Now \subseteq Rec /\ Pausing \subseteq Rec /\ Announced \subseteq Rec
  BY <1>1, ListsDisjoint DEF HeapInv
<1>3. r \notin Now /\ r \notin Pausing /\ r \notin Announced
  BY <1>1, <1>2 DEF Nonprobers
<1>4. \A x \in Rec \ {r} : heap'[x] = heap[x] /\ unique'[x] = unique[x] /\ list'[x] = list[x]
  BY <1>1, Types DEF Links
<1>5. tries[r] = 0 /\ ~owed[r] /\ heap'[r] = "live"
  BY <1>1, Types DEF RecordsInv, FreshInv, HeapInv, OwedInv
<1>6. Now' = Now /\ Pausing' = Pausing /\ Announced' = Announced
  <2>1. \A h \in {a_now, a_pause, a_publish} : \A x \in Chain(list, h) : list'[x] = list[x]
    BY <1>3, <1>4 DEF Now, Pausing, Announced, Chain
  <2>2. \A h \in {a_now, a_pause, a_publish} : Chain(list', h) = Chain(list, h)
    BY <2>1, Types, ChainKept
  <2>3. QED BY <1>1, <2>2, Primes DEF Now, Pausing, Announced
<1>7. Live' = Live \cup {r}
  BY <1>1, <1>4, <1>5 DEF Live
<1>8. SeparateInv'
  BY <1>1, <1>2, <1>3, <1>4, <1>5, <1>6, <1>7 DEF HeapInv, SeparateInv
<1>9. OwedInv'
  BY <1>1, <1>4, <1>5, <1>6, <1>7 DEF HeapInv, OwedInv, Live
<1>10. QED BY <1>1, <1>8, <1>9 DEF HeapInv, ShutInv

\* mdnsd_set_* of a record that had no data yet, or is being probed.
LEMMA SetHeap ==
  ASSUME "reset" \notin Env, IInv, TypeOK', RecordsInv, HeapInv,
         NEW r \in Rec, NEW v \in Data, MdnsdSet(r, v)
  PROVE  HeapInv'
<1> USE DEF heads, timers, ghosts
<1>1. /\ ~shutdown /\ shutdown' = shutdown /\ heap[r] = "live"
      /\ data' = [data EXCEPT ![r] = v] /\ data[r] # v
      /\ RPublish(list, unique[r], r)
      /\ UNCHANGED <<heap, unique, probing, a_now, a_pause>>
      /\ (data[r] = Empty /\ unique[r] < 5) \/ Probing(r)
  BY DEF MdnsdSet, AppMayCall, Holds
<1>2. /\ Live' = Live /\ r \in Live /\ \A x \in Rec \ {r} : data'[x] = data[x]
      /\ data'[r] = v
  BY <1>1, Types DEF Live
<1>3. CASE Probing(r)
  <2>1. UNCHANGED <<list, tries, a_publish, owed>>
    BY <1>1, <1>3 DEF RPublish, Probing
  <2>2. Now' = Now /\ Pausing' = Pausing /\ Announced' = Announced
    BY <1>1, <2>1 DEF Now, Pausing, Announced, Chain, OnList
  <2>3. unique[r] # 0
    BY <1>3 DEF Probing
  <2>4. SeparateInv'
    BY <1>1, <1>2, <2>1, <2>2, <2>3 DEF HeapInv, SeparateInv
  <2>5. OwedInv'
    BY <1>1, <1>2, <2>1, <2>2 DEF HeapInv, OwedInv
  <2>6. QED BY <1>1, <2>4, <2>5 DEF HeapInv, ShutInv
<1>4. CASE ~Probing(r)
  <2>1. unique[r] = 0 /\ data[r] = Empty /\ tries[r] = 0
    <3>1. unique[r] \in 0..5
      BY DEF RecordsInv, CountInv
    <3>2. unique[r] = 0 /\ data[r] = Empty
      BY <1>1, <1>4, <3>1 DEF Probing
    <3>3. QED BY <1>1, <3>2 DEF HeapInv, SeparateInv
  <2>2. v # Empty
    BY <1>1, <2>1
  <2>3. r \notin Now /\ r \notin Pausing
    BY <1>1, <2>1 DEF HeapInv, SeparateInv
  <2>4. /\ Parted(list, probing, Nonprobers) /\ Nonprobers \in SUBSET Rec
        /\ a_publish \in Nonprobers \cup {Nil} /\ r \in Nonprobers
        /\ Announced \subseteq Rec
    BY <1>1, <1>4, Placed DEF RecordsInv, PlaceInv, Nonprobers
  <2>5. list \in Links /\ Acyclic(list) /\ probing \in Rec \cup {Nil} /\ unique[r] \notin 1..4
    BY <2>1, Types
  <2>6. /\ \A x \in Rec \ {r} : list'[x] = list[x]
        /\ Announced' = Announced \cup {r}
        /\ tries' = [tries EXCEPT ![r] = 0]
    BY <1>1, <2>4, <2>5, RPublishPlace DEF Announced
  <2>7. tries' = tries
    BY <2>1, <2>6, Types
  <2>8. owed' = [owed EXCEPT ![r] = TRUE]
    BY <1>1, <2>5 DEF RPublish
  <2>9. \A x \in Rec \ {r} : owed'[x] = owed[x]
    BY <2>8 DEF IInv, TypeOK, OutsideTypes
  <2>10. Now' = Now /\ Pausing' = Pausing
    <3>1. \A h \in {a_now, a_pause} : \A x \in Chain(list, h) : list'[x] = list[x]
      BY <2>3, <2>6 DEF Now, Pausing, Chain
    <3>2. \A h \in {a_now, a_pause} : Chain(list', h) = Chain(list, h)
      BY <3>1, Types, ChainKept
    <3>3. QED BY <1>1, <3>2, Primes DEF Now, Pausing
  <2>11. SeparateInv'
    <3>1. \A x \in Rec : unique'[x] = 0 /\ data'[x] = Empty => tries'[x] = 0 /\ x \notin Announced'
      BY <1>1, <1>2, <2>2, <2>6, <2>7 DEF HeapInv, SeparateInv
    <3>2. QED BY <1>1, <1>2, <2>6, <2>7, <2>10, <3>1 DEF HeapInv, SeparateInv
  <2>12. OwedInv'
    BY <1>1, <1>2, <2>6, <2>9, <2>10 DEF HeapInv, OwedInv, Live
  <2>13. QED BY <1>1, <2>11, <2>12 DEF HeapInv, ShutInv
<1>5. QED BY <1>3, <1>4

\* mdnsd_done and _conflict.
LEMMA DelistHeap ==
  ASSUME IInv, TypeOK', RecordsInv, HeapInv, ~shutdown, NEW r \in Live, Delist(r),
         UNCHANGED <<data, unique, tries, a_publish, shutdown>>
  PROVE  HeapInv'
<1>1. CASE ~Probing(r)
  <2>1. RSend(r) /\ heap' = heap
    BY <1>1 DEF Delist
  <2>2. QED BY <1>1, <2>1, SendHeap
<1>2. CASE Probing(r)
  <2>1. /\ ZapProbing(r) /\ heap' = [heap EXCEPT ![r] = "freed"]
        /\ owed' = [owed EXCEPT ![r] = FALSE] /\ UNCHANGED <<a_now, a_pause>>
    BY <1>2 DEF Delist
  <2>2. r \in Probers /\ r \in Rec /\ heap[r] = "live"
    BY <1>2 DEF Probers, Live
  <2>3. \A x \in Rec \ Probers : list'[x] = list[x]
    BY <2>1, <2>2, ZapPlace DEF RecordsInv
  <2>4. /\ Now \subseteq Nonprobers /\ Pausing \subseteq Nonprobers
        /\ Announced \subseteq Nonprobers
        /\ Now \subseteq Rec /\ Pausing \subseteq Rec /\ Announced \subseteq Rec
        /\ Probers \cap Nonprobers = {}
    BY ListsDisjoint, Placed DEF HeapInv, RecordsInv
  <2>5. Now' = Now /\ Pausing' = Pausing /\ Announced' = Announced
    <3>1. \A h \in {a_now, a_pause, a_publish} : \A x \in Chain(list, h) : list'[x] = list[x]
      BY <2>3, <2>4 DEF Now, Pausing, Announced
    <3>2. \A h \in {a_now, a_pause, a_publish} : Chain(list', h) = Chain(list, h)
      BY <3>1, Types, ChainKept
    <3>3. QED BY <2>1, <3>2, Primes DEF Now, Pausing, Announced
  <2>6. heap'[r] = "freed" /\ \A x \in Rec \ {r} : heap'[x] = heap[x]
    BY <2>1, <2>2, Types
  <2>7. Live' = Live \ {r}
    BY <2>6 DEF Live
  <2>8. r \notin Now /\ r \notin Pausing /\ r \notin Announced
    BY <2>2, <2>4
  <2>9. \A x \in Rec \ {r} : owed'[x] = owed[x]
    BY <2>1 DEF IInv, TypeOK, OutsideTypes
  <2>10. SeparateInv'
    BY <2>4, <2>5, <2>7, <2>8 DEF HeapInv, SeparateInv
  <2>11. OwedInv'
    BY <2>2, <2>5, <2>6, <2>7, <2>9 DEF HeapInv, OwedInv, Live
  <2>12. QED BY <2>10, <2>11 DEF HeapInv, ShutInv
<1>3. QED BY <1>1, <1>2

\* A packet takes the head of a_now or a_pause, which is on no other list.
LEMMA OutHeap ==
  ASSUME IInv, TypeOK', RecordsInv, HeapInv, NEW r \in Live, Sent(r),
         \/ a_now = r /\ a_now' = list[r] /\ a_pause' = a_pause
         \/ a_pause = r /\ a_pause' = list[r] /\ a_now' = a_now /\ ~shutdown,
         pc' # "out_publish",
         UNCHANGED <<data, unique, tries, list, probing, a_publish, shutdown>>
  PROVE  HeapInv'
<1>1. /\ \A x \in Rec \ {r} : heap'[x] = heap[x]
      /\ r \in Rec /\ heap[r] = "live" /\ heap'[r] # "none"
  BY SentRecord
<1>2. owed' = [owed EXCEPT ![r] = FALSE]
  BY DEF Sent
<1>3. ~owed'[r] /\ \A x \in Rec \ {r} : owed'[x] = owed[x]
  BY <1>1, <1>2 DEF IInv, TypeOK, OutsideTypes
<1>4. Live' \cup {r} = Live
  BY <1>1 DEF Live
<1>5. Chain(list, list[r]) = Chain(list, r) \ {r} /\ r \in Chain(list, r)
  BY <1>1, Types, ChainTail, ChainHead
<1>6. CASE a_now = r /\ a_now' = list[r] /\ a_pause' = a_pause
  <2>1. Now' = Now \ {r} /\ Pausing' = Pausing /\ Announced' = Announced /\ r \in Now
    BY <1>5, <1>6, Primes DEF Now, Pausing, Announced
  <2>2. CASE shutdown
    <3>1. ShutInv'
      BY <1>4, <1>6, <2>1, <2>2 DEF HeapInv, ShutInv
    <3>2. OwedInv'
      BY <1>1, <1>3, <2>2 DEF HeapInv, OwedInv
    <3>3. QED BY <2>2, <3>1, <3>2 DEF HeapInv, SeparateInv
  <2>3. CASE ~shutdown
    <3>1. /\ Now \cap Pausing = {} /\ Now \cap Announced = {}
          /\ Now \subseteq Rec /\ Pausing \subseteq Rec /\ Announced \subseteq Rec
      BY <2>3, ListsDisjoint DEF HeapInv
    <3>2. SeparateInv'
      BY <1>4, <2>1, <2>3, <3>1 DEF HeapInv, SeparateInv
    <3>3. OwedInv'
      BY <1>1, <1>3, <1>4, <2>1, <2>3, <3>1 DEF HeapInv, OwedInv, Live
    <3>4. QED BY <2>3, <3>2, <3>3 DEF HeapInv, ShutInv
  <2>4. QED BY <2>2, <2>3
<1>7. CASE a_pause = r /\ a_pause' = list[r] /\ a_now' = a_now /\ ~shutdown
  <2>1. Pausing' = Pausing \ {r} /\ Now' = Now /\ Announced' = Announced /\ r \in Pausing
    BY <1>5, <1>7, Primes DEF Now, Pausing, Announced
  <2>2. /\ Now \cap Pausing = {} /\ Pausing \cap Announced = {}
        /\ Now \subseteq Rec /\ Pausing \subseteq Rec /\ Announced \subseteq Rec
    BY <1>7, ListsDisjoint DEF HeapInv
  <2>3. SeparateInv'
    BY <1>4, <1>7, <2>1, <2>2 DEF HeapInv, SeparateInv
  <2>4. OwedInv'
    BY <1>1, <1>3, <1>4, <1>7, <2>1, <2>2 DEF HeapInv, OwedInv, Live
  <2>5. QED BY <1>7, <2>3, <2>4 DEF HeapInv, ShutInv
<1>8. QED BY <1>6, <1>7

\* An announcement takes a record off a_publish after the fourth, or the goodbye.
LEMMA PublishHeap ==
  ASSUME IInv, TypeOK', RecordsInv, LoopInv, HeapInv, OutPublish, cur \in Live
  PROVE  HeapInv'
<1> USE DEF heads, timers, ghosts
<1>1. /\ pc = "out_publish" /\ cur # Nil /\ tries' = [tries EXCEPT ![cur] = tries[cur] + 1]
      /\ Sent(cur) /\ UNCHANGED <<data, unique, ttl, probing, a_now, a_pause, shutdown>>
      /\ \/ Stays(cur) /\ UNCHANGED <<a_publish, list>> /\ last' = cur
         \/ ~Stays(cur) /\ Unlink(list[cur]) /\ last' = last
  BY DEF OutPublish
<1>2. ~shutdown /\ PlaceInv
  BY <1>1 DEF HeapInv, ShutInv, RecordsInv
<1>3. IF last = Nil THEN cur = a_publish ELSE last \in Announced
  BY <1>1, <1>2 DEF LoopInv
<1>4. /\ cur \in Announced /\ cur \in Rec
      /\ Unlink(list[cur]) => Announced' = Announced \ {cur}
  BY <1>1, <1>2, <1>3, AnnouncePlace
<1>5. /\ Now \cap Announced = {} /\ Pausing \cap Announced = {}
      /\ Now \subseteq Rec /\ Pausing \subseteq Rec /\ Announced \subseteq Rec
  BY <1>2, ListsDisjoint DEF HeapInv
<1>6. Announced' = IF Stays(cur) THEN Announced ELSE Announced \ {cur}
  <2>1. ASSUME UNCHANGED <<a_publish, list>> PROVE Announced' = Announced
    BY <2>1 DEF Announced, Chain, OnList
  <2>2. QED BY <1>1, <1>4, <2>1
<1>7. Now' = Now /\ Pausing' = Pausing
  <2>1. \A x \in Rec \ Announced : list'[x] = list[x]
    <3>1. last # Nil => last \in Announced
      BY <1>3
    <3>2. CASE UNCHANGED <<a_publish, list>>
      BY <3>2
    <3>3. CASE Unlink(list[cur])
      <4>1. list' = IF last # Nil THEN [list EXCEPT ![last] = list[cur]] ELSE list
        BY <3>3 DEF Unlink
      <4>2. QED BY <3>1, <4>1, Types DEF Links
    <3>4. QED BY <1>1, <3>2, <3>3
  <2>2. \A h \in {a_now, a_pause} : \A x \in Chain(list, h) : list'[x] = list[x]
    BY <1>5, <2>1 DEF Now, Pausing
  <2>3. \A h \in {a_now, a_pause} : Chain(list', h) = Chain(list, h)
    BY <2>2, Types, ChainKept
  <2>4. QED BY <1>1, <2>3, Primes DEF Now, Pausing
<1>8. /\ \A x \in Rec \ {cur} : heap'[x] = heap[x] /\ owed'[x] = owed[x] /\ tries'[x] = tries[x]
      /\ IF ttl[cur] = 0 THEN heap'[cur] = "freed" ELSE heap'[cur] = "live"
      /\ ~owed'[cur]
  <2>1. owed' = [owed EXCEPT ![cur] = FALSE]
    BY <1>1 DEF Sent
  <2>2. owed \in [Rec -> BOOLEAN]
    BY DEF IInv, TypeOK, OutsideTypes
  <2>3. /\ \A x \in Rec \ {cur} : heap'[x] = heap[x]
        /\ IF ttl[cur] = 0 THEN heap'[cur] = "freed" ELSE heap'[cur] = "live"
    BY <1>1, SentRecord
  <2>4. \A x \in Rec \ {cur} : tries'[x] = tries[x]
    BY <1>1, <1>4, Types
  <2>5. QED BY <1>4, <2>1, <2>2, <2>3, <2>4
<1>9. cur \notin Now /\ cur \notin Pausing
  BY <1>4, <1>5
<1>10. Live' = IF ttl[cur] = 0 THEN Live \ {cur} ELSE Live
  BY <1>4, <1>8 DEF Live
<1>11. SeparateInv'
  <2>1. /\ \A x \in Now : x \in Live /\ unique[x] = 5 /\ tries[x] >= 4
        /\ \A x \in Pausing : x \in Live /\ unique[x] = 0 /\ tries[x] >= 4
        /\ Announced \subseteq Live
        /\ \A x \in Rec : unique[x] = 0 /\ data[x] = Empty => tries[x] = 0 /\ x \notin Announced
    BY <1>2 DEF HeapInv, SeparateInv
  <2>2. \A x \in Now : x \in Live' /\ unique'[x] = 5 /\ tries'[x] >= 4
    BY <1>1, <1>5, <1>8, <1>9, <1>10, <2>1
  <2>3. \A x \in Pausing : x \in Live' /\ unique'[x] = 0 /\ tries'[x] >= 4
    BY <1>1, <1>5, <1>8, <1>9, <1>10, <2>1
  <2>4. Announced' \subseteq Live'
    BY <1>6, <1>10, <2>1 DEF Stays
  <2>5. \A x \in Rec : unique'[x] = 0 /\ data'[x] = Empty => tries'[x] = 0 /\ x \notin Announced'
    BY <1>1, <1>4, <1>6, <1>8, <2>1
  <2>6. QED BY <1>1, <1>7, <2>2, <2>3, <2>4, <2>5 DEF SeparateInv
<1>12. OwedInv'
  BY <1>1, <1>2, <1>4, <1>6, <1>7, <1>8, <1>10 DEF HeapInv, OwedInv, Live
<1>13. QED BY <1>1, <1>2, <1>11, <1>12 DEF HeapInv, ShutInv

\* The established record is on no list but a_publish.
LEMMA PromoteHeap ==
  ASSUME IInv, TypeOK', RecordsInv, LoopInv, HeapInv, ProbePromote
  PROVE  HeapInv'
<1> USE DEF heads, timers, ghosts
<1>1. /\ unique' = [unique EXCEPT ![cur] = 5] /\ PlaceInv
      /\ UNCHANGED <<heap, data, a_now, a_pause, shutdown>>
  BY DEF ProbePromote, RecordsInv
<1>2. /\ ~shutdown /\ cur \in Probers /\ cur \in Rec
      /\ \A x \in Rec \ Probers : list'[x] = list[x]
      /\ Announced' = Announced \cup {cur}
      /\ tries' = [tries EXCEPT ![cur] = 0]
  BY <1>1, PromotePlace
<1>3. owed' = [owed EXCEPT ![cur] = TRUE]
  <2>1. 5 \notin 1..4
    OBVIOUS
  <2>2. RPublish([(IF probing = cur THEN list ELSE [list EXCEPT ![last] = list[cur]])
                    EXCEPT ![cur] = Nil], 5, cur)
    BY DEF ProbePromote
  <2>3. QED BY <2>1, <2>2 DEF RPublish
<1>4. /\ Now \subseteq Nonprobers /\ Pausing \subseteq Nonprobers /\ Announced \subseteq Nonprobers
      /\ Now \subseteq Rec /\ Pausing \subseteq Rec /\ Announced \subseteq Rec
      /\ Probers \cap Nonprobers = {}
  BY <1>1, <1>2, ListsDisjoint, Placed DEF HeapInv
<1>5. Now' = Now /\ Pausing' = Pausing
  <2>1. \A h \in {a_now, a_pause} : \A x \in Chain(list, h) : list'[x] = list[x]
    BY <1>2, <1>4 DEF Now, Pausing
  <2>2. \A h \in {a_now, a_pause} : Chain(list', h) = Chain(list, h)
    BY <2>1, Types, ChainKept
  <2>3. QED BY <1>1, <2>2, Primes DEF Now, Pausing
<1>6. /\ unique'[cur] = 5 /\ owed'[cur]
      /\ \A x \in Rec \ {cur} : owed'[x] = owed[x] /\ tries'[x] = tries[x] /\ unique'[x] = unique[x]
  <2>1. owed \in [Rec -> BOOLEAN]
    BY DEF IInv, TypeOK, OutsideTypes
  <2>2. unique \in [Rec -> Nat] /\ tries \in [Rec -> Nat]
    BY Types
  <2>3. QED BY <1>1, <1>2, <1>3, <2>1, <2>2
<1>7. Live' = Live /\ cur \in Live /\ cur \notin Now /\ cur \notin Pausing /\ heap[cur] = "live"
  BY <1>1, <1>2, <1>4 DEF Live, Probers
<1>8. SeparateInv'
  BY <1>1, <1>2, <1>4, <1>5, <1>6, <1>7 DEF HeapInv, SeparateInv
<1>9. OwedInv'
  BY <1>1, <1>2, <1>5, <1>6, <1>7 DEF HeapInv, OwedInv, Live
<1>10. QED BY <1>1, <1>2, <1>8, <1>9 DEF HeapInv, ShutInv

LEMMA ClaimHeap ==
  ASSUME IInv, TypeOK', RecordsInv, LoopInv, HeapInv, ProbeClaim
  PROVE  HeapInv'
<1> USE DEF heads, timers, ghosts
<1>1. /\ pc = "probe_claim" /\ cur # Nil /\ ~shutdown
      /\ unique' = [unique EXCEPT ![cur] = unique[cur] + 1]
      /\ UNCHANGED <<heap, data, tries, list, heads, shutdown, owed>>
  BY DEF ProbeClaim, Counted, LoopInv
<1>2. cur \in Probers /\ cur \in Rec
  BY <1>1 DEF LoopInv, Probers
<1>3. unique'[cur] # 0 /\ \A x \in Rec \ {cur} : unique'[x] = unique[x]
  BY <1>1, <1>2, Types
<1>4. Now' = Now /\ Pausing' = Pausing /\ Announced' = Announced /\ Live' = Live
  BY <1>1 DEF Now, Pausing, Announced, Chain, OnList, Live
<1>5. /\ Now \subseteq Nonprobers /\ Pausing \subseteq Nonprobers
      /\ Now \subseteq Rec /\ Pausing \subseteq Rec
      /\ Probers \cap Nonprobers = {}
  BY <1>1, ListsDisjoint, Placed DEF HeapInv, RecordsInv
<1>6. SeparateInv'
  BY <1>1, <1>2, <1>3, <1>4, <1>5 DEF HeapInv, SeparateInv
<1>7. OwedInv'
  BY <1>1, <1>4 DEF HeapInv, OwedInv
<1>8. QED BY <1>1, <1>6, <1>7 DEF HeapInv, ShutInv

\* A shutdown that finds the lists empty leaves a_now, and only it.
LEMMA ShutdownHeap ==
  ASSUME "abrupt" \notin Env, IInv, TypeOK', HeapInv, MdnsdShutdown
  PROVE  HeapInv'
<1>1. /\ shutdown' /\ pc' = "recv" /\ heap' = heap
      /\ owed' = [r \in Rec |-> r \in Live \/ owed[r]]
      /\ probing' = Nil /\ a_pause' = Nil /\ a_publish' = Nil
      /\ a_now' \in Live \cup {Nil}
      /\ \A r \in Live : list'[r] \in Live \cup {Nil}
  BY DEF MdnsdShutdown, Settled
<1>2. Live \in SUBSET Rec /\ Live' = Live /\ a_now' \in Rec \cup {Nil}
  BY <1>1 DEF Live
<1>3. Now' \subseteq Live'
  <2>1. Chain(list', a_now') \subseteq Live
    BY <1>1, <1>2, ChainWithin
  <2>2. QED BY <1>2, <2>1, Primes
<1>4. \A r \in Rec : heap'[r] = "none" => ~owed'[r]
  BY <1>1 DEF HeapInv, OwedInv, Live
<1>5. QED BY <1>1, <1>3, <1>4 DEF HeapInv, SeparateInv, OwedInv, ShutInv

-----------------------------------------------------------------------------
\* The steps

LEMMA HeapStep ==
  ASSUME "reset" \notin Env, "abrupt" \notin Env, ListsInv, HeapInv, [Next]_vars
  PROVE  HeapInv'
<1> USE DEF heads
<1>0. IInv /\ TypeOK' /\ RecordsInv /\ LoopInv /\ LastInv /\ PlaceInv
  BY TypeStep DEF ListsInv, IInv, RecordsInv
<1>1. ASSUME NEW r \in Rec, NEW k \in Key, MdnsdShared(r, k) \/ MdnsdUnique(r, k)
      PROVE  HeapInv'
  BY <1>0, <1>1, CreateHeap
<1>2. ASSUME NEW r \in Rec, NEW v \in Data, MdnsdSet(r, v) PROVE HeapInv'
  BY <1>0, <1>2, SetHeap
<1>3. ASSUME NEW r \in Rec, MdnsdDone(r) PROVE HeapInv'
  <2>1. /\ ~shutdown /\ r \in Live /\ Delist(r)
        /\ UNCHANGED <<data, unique, tries, a_publish, shutdown>>
    BY <1>3 DEF MdnsdDone, AppMayCall, Holds, Live
  <2>2. QED BY <1>0, <2>1, DelistHeap
<1>4. CASE MdnsdShutdown
  BY <1>0, <1>4, ShutdownHeap
<1>5. ASSUME NEW k \in Key, NEW v \in Data, InAnswer(k, v) PROVE HeapInv'
  <2> DEFINE r == NextMatch(Matches(k))
  <2>1. r \in Live
    BY <1>0, <1>5, NextMatchType DEF InAnswer, Matches, IInv
  <2>2. /\ ~shutdown /\ Delist(r)
        /\ UNCHANGED <<data, unique, tries, a_publish, shutdown>>
    BY <1>5 DEF InAnswer, MayReceive
  <2> HIDE DEF r
  <2>3. QED BY <1>0, <2>1, <2>2, DelistHeap
<1>6. ASSUME ~UseAfterFree, InReply PROVE HeapInv'
  <2>1. cur \in Rec /\ heap[cur] = "live" /\ ~Probing(cur) /\ ~shutdown
    BY <1>0, <1>6, NilAssumption DEF InReply, IInv, WalkInv, UseAfterFree, Reads, LoopInv
  <2>2. cur \in Live
    BY <2>1 DEF Live
  <2>3. UNCHANGED <<heap, data, unique, tries, probing, a_publish, shutdown>>
    BY <1>6 DEF InReply, recordVars
  <2>4. CASE data[cur] \in known
    <3>1. UNCHANGED <<heap, data, unique, tries, list, heads, owed>>
      BY <1>6, <2>3, <2>4 DEF InReply
    <3>2. QED BY <1>0, <2>1, <2>3, <3>1, QuietHeap
  <2>5. CASE data[cur] \notin known
    <3>1. RSend(cur)
      BY <1>6, <2>5 DEF InReply
    <3>2. QED BY <1>0, <2>1, <2>2, <2>3, <3>1, SendHeap
  <2>6. QED BY <2>4, <2>5
<1>7. ASSUME ~UseAfterFree, InClash PROVE HeapInv'
  <2>1. cur \in Live /\ ~shutdown
    BY <1>0, <1>7, NilAssumption DEF InClash, IInv, WalkInv, UseAfterFree, Reads, LoopInv, Live
  <2>2. Delist(cur) /\ UNCHANGED <<data, unique, tries, a_publish, shutdown>>
    BY <1>7 DEF InClash
  <2>3. QED BY <1>0, <2>1, <2>2, DelistHeap
<1>8. ASSUME ~UseAfterFree, OutNow PROVE HeapInv'
  <2>1. /\ a_now \in Rec /\ heap[a_now] = "live" /\ Sent(a_now) /\ a_now' = list[a_now]
        /\ pc = "out_now" /\ pc' = pc
        /\ UNCHANGED <<data, unique, tries, list, probing, a_pause, a_publish, shutdown>>
    BY <1>0, <1>8, Types DEF OutNow, ROut, UseAfterFree, Reads
  <2>2. a_now \in Live
    BY <2>1 DEF Live
  <2>3. QED BY <1>0, <2>1, <2>2, OutHeap
<1>9. ASSUME ~UseAfterFree, OutPause PROVE HeapInv'
  <2>1. /\ a_pause \in Rec /\ heap[a_pause] = "live" /\ Sent(a_pause)
        /\ a_pause' = list[a_pause] /\ ~shutdown /\ pc = "out_pause" /\ pc' = pc
        /\ UNCHANGED <<data, unique, tries, list, probing, a_now, a_publish, shutdown>>
    BY <1>0, <1>9, Types DEF OutPause, ROut, UseAfterFree, Reads, PauseDue
  <2>2. a_pause \in Live
    BY <2>1 DEF Live
  <2>3. QED BY <1>0, <2>1, <2>2, OutHeap
<1>10. ASSUME ~UseAfterFree, OutPublish PROVE HeapInv'
  <2>1. cur \in Live
    BY <1>0, <1>10, Types DEF OutPublish, UseAfterFree, Reads, Live
  <2>2. QED BY <1>0, <1>10, <2>1, PublishHeap
<1>11. CASE ProbePromote
  BY <1>0, <1>11, PromoteHeap
<1>12. CASE ProbeClaim
  BY <1>0, <1>12, ClaimHeap
<1>13. ASSUME \/ \E k \in Key, an \in Section, ns \in Section, u \in BOOLEAN :
                   InQuery(k, an, ns, u)
              \/ InProbed \/ StartOut \/ OutUnicast \/ OutBegin \/ OutNowEnd
              \/ OutPublishEnd \/ OutReturn \/ ProbeAsk \/ ProbeAskEnd
              \/ ProbeClaimEnd \/ Tick \/ Crash \/ UNCHANGED vars
       PROVE  HeapInv'
  <2>1. shutdown' = shutdown
        /\ UNCHANGED <<heap, data, unique, tries, list, heads, owed>>
    BY <1>13 DEF InQuery, InProbed, StartOut, OutUnicast, OutBegin, OutNowEnd,
       OutPublishEnd, OutReturn, ProbeAsk, ProbeAskEnd, ProbeClaimEnd, Tick, Crash, vars,
       recordVars, timers, walk, query, app, ghosts, daemonVars, others
  <2>2. shutdown => a_publish = Nil /\ pc # "out_publish"
    BY DEF HeapInv, ShutInv
  <2>3. pc' = "out_publish" => pc = "out_publish" \/ a_publish # Nil
    BY <1>13 DEF InQuery, InProbed, Advance, StartOut, OutUnicast, OutBegin, OutNowEnd,
       OutPublishEnd, OutReturn, ProbeAsk, ProbeAskEnd, ProbeClaimEnd, Tick, Crash, vars
  <2>4. QED BY <1>0, <2>1, <2>2, <2>3, QuietHeap
<1>14. QED
  BY <1>1, <1>2, <1>3, <1>4, <1>5, <1>6, <1>7, <1>8, <1>9, <1>10, <1>11, <1>12, <1>13
  DEF Next, Application, Network, Daemon, Rest

LEMMA InitHeap == Init => HeapInv
<1> SUFFICES ASSUME Init PROVE HeapInv
  OBVIOUS
<1>1. Now = {} /\ Pausing = {} /\ Announced = {} /\ Live = {}
  BY ChainNil DEF Init, Now, Pausing, Announced, Live
<1>2. QED BY <1>1 DEF Init, HeapInv, SeparateInv, OwedInv, ShutInv

-----------------------------------------------------------------------------
\* No step reads a freed record

\* A unicast answer is queued for established or shared records only, and is
\* sent before anything is freed; a query met no record it is in conflict with.
AnswersLive == \A i \in 1..Len(uanswers) : uanswers[i] \in Live /\ ~Probing(uanswers[i])
SafeInv ==
  /\ AnswersLive
  /\ pc \in {"out_now", "out_publish", "out_pause", "probe_ask", "probe_claim"}
     => uanswers = <<>>
  /\ pc = "in" => /\ cur \in Live
                  /\ \A x \in Matches(key[cur]) : Probing(x) => Agrees(x, claims)
  /\ fault = "none"

\* The record a step reads is live, and no record is given up in a query.
LEMMA ReadsLive ==
  ASSUME ListsInv, HeapInv, SafeInv
  PROVE  ~UseAfterFree /\ ~InClash
<1>0. /\ IInv /\ RecordsInv /\ PlaceInv /\ LoopInv
      /\ cur \in Rec \cup {Nil} /\ a_now \in Rec \cup {Nil} /\ a_pause \in Rec \cup {Nil}
      /\ list \in Links /\ uanswers \in Seq(Rec)
  BY Types DEF ListsInv, RecordsInv, IInv, TypeOK, ListTypes
<1>1. ~InClash
  BY DEF InClash, SafeInv, Matches
<1>2. ASSUME pc \in {"in", "probe_ask", "probe_claim"}, cur # Nil PROVE cur \in Live
  <2>1. CASE pc = "in"
    BY <2>1 DEF SafeInv
  <2>2. CASE pc \in {"probe_ask", "probe_claim"}
    BY <1>0, <1>2, <2>2 DEF LoopInv, Probers, Live
  <2>3. QED BY <1>2, <2>1, <2>2
<1>3. ASSUME pc = "out_publish", cur # Nil PROVE cur \in Live
  <2>1. ~shutdown
    BY <1>3 DEF HeapInv, ShutInv
  <2>2. IF last = Nil THEN cur = a_publish ELSE last \in Announced
    BY <1>0, <1>3, <2>1 DEF LoopInv
  <2>3. cur \in Announced
    BY <1>0, <1>3, <2>1, <2>2, AnnouncePlace
  <2>4. QED BY <2>1, <2>3 DEF HeapInv, SeparateInv
<1>4. ASSUME a_now # Nil PROVE a_now \in Live
  <2>1. a_now \in Now
    BY <1>0, <1>4, ChainHead DEF Now
  <2>2. QED BY <2>1 DEF HeapInv, SeparateInv, ShutInv
<1>5. ASSUME PauseDue PROVE a_pause \in Live
  <2>1. a_pause # Nil /\ ~shutdown
    BY <1>5 DEF PauseDue
  <2>2. a_pause \in Pausing
    BY <1>0, <2>1, ChainHead DEF Pausing
  <2>3. QED BY <2>1, <2>2 DEF HeapInv, SeparateInv
<1>6. ASSUME uanswers # <<>> PROVE Head(uanswers) \in Live
  <2>1. 1 \in 1..Len(uanswers) /\ Head(uanswers) = uanswers[1]
    BY <1>0, <1>6
  <2>2. QED BY <2>1 DEF SafeInv, AnswersLive
<1>7. Reads # Nil => Reads \in Live
  BY <1>2, <1>3, <1>4, <1>5, <1>6 DEF Reads
<1>8. QED BY <1>1, <1>7 DEF UseAfterFree, Live

\* Queued unicast answers stay good in a step that frees only probing records.
LEMMA AnswersKept ==
  ASSUME AnswersLive, uanswers' = uanswers,
         \A x \in Live : ~Probing(x) => x \in Live' /\ ~Probing(x)'
  PROVE  AnswersLive'
BY DEF AnswersLive

LEMMA AnswersStep ==
  ASSUME "early" \notin Env, ListsInv, HeapInv, SafeInv, [Next]_vars
  PROVE  AnswersLive'
<1> USE DEF recordVars, heads
<1>0. /\ AnswersLive /\ IInv /\ ~UseAfterFree /\ ~InClash /\ uanswers \in Seq(Rec)
      /\ uanswers' \in Seq(Rec)
      /\ heap \in [Rec -> {"none", "live", "freed"}] /\ unique \in [Rec -> Nat]
  BY ReadsLive, TypeStep, Types DEF ListsInv, SafeInv, IInv, TypeOK, ListTypes
<1>1. ASSUME NEW r \in Rec, NEW k \in Key, MdnsdShared(r, k) \/ MdnsdUnique(r, k)
      PROVE  AnswersLive'
  <2>1. /\ heap[r] = "none" /\ heap' = [heap EXCEPT ![r] = "live"] /\ uanswers' = uanswers
        /\ unique' = unique \/ unique' = [unique EXCEPT ![r] = 1]
    BY <1>1 DEF MdnsdShared, MdnsdUnique, Create
  <2>2. \A x \in Live : x # r /\ heap'[x] = heap[x] /\ unique'[x] = unique[x]
    BY <1>0, <2>1 DEF Live
  <2>3. QED BY <1>0, <2>1, <2>2, AnswersKept DEF Live, Probing
<1>2. ASSUME NEW r \in Rec, Delist(r), UNCHANGED <<unique, uanswers>> PROVE AnswersLive'
  <2>1. heap' = heap \/ (Probing(r) /\ heap' = [heap EXCEPT ![r] = "freed"])
    <3>1. CASE Probing(r)
      BY <1>2, <3>1 DEF Delist
    <3>2. CASE ~Probing(r)
      BY <1>2, <3>2 DEF Delist
    <3>3. QED BY <3>1, <3>2
  <2>2. \A x \in Live : ~Probing(x) => x \in Live' /\ ~Probing(x)'
    BY <1>0, <1>2, <2>1 DEF Live, Probing
  <2>3. QED BY <1>0, <1>2, <2>2, AnswersKept
<1>3. ASSUME \/ \E r \in Rec : MdnsdDone(r)
             \/ \E k \in Key, v \in Data : InAnswer(k, v)
      PROVE  AnswersLive'
  <2>1. CASE \E r \in Rec : MdnsdDone(r)
    BY <1>2, <2>1 DEF MdnsdDone
  <2>2. CASE \E k \in Key, v \in Data : InAnswer(k, v)
    <3>1. PICK k \in Key, v \in Data : InAnswer(k, v)
      BY <2>2
    <3>2. NextMatch(Matches(k)) \in Rec
      BY <1>0, <3>1, NextMatchType DEF InAnswer, Matches, Live, IInv
    <3>3. Delist(NextMatch(Matches(k))) /\ UNCHANGED <<unique, uanswers>>
      BY <3>1 DEF InAnswer
    <3>4. QED BY <1>2, <3>2, <3>3
  <2>3. QED BY <1>3, <2>1, <2>2
<1>4. ASSUME NEW k \in Key, NEW an \in Section, NEW ns \in Section, NEW u \in BOOLEAN,
             InQuery(k, an, ns, u)
      PROVE  AnswersLive'
  <2> DEFINE r == NextMatch(Matches(k))
  <2>1. r \in Live
    BY <1>0, <1>4, NextMatchType DEF InQuery, Matches, IInv
  <2>2. /\ Probing(r) /\ u => "early" \in Env
        /\ uanswers' = IF u THEN <<r>> \o uanswers ELSE uanswers
        /\ UNCHANGED <<heap, unique>>
    BY <1>4 DEF InQuery
  <2> HIDE DEF r
  <2>3. Live' = Live /\ \A x \in Rec : Probing(x)' <=> Probing(x)
    BY <2>2 DEF Live, Probing
  <2>4. CASE ~u
    BY <1>0, <2>2, <2>3, <2>4, AnswersKept DEF Live
  <2>5. CASE u
    <3>1. r \in Rec /\ ~Probing(r)
      BY <2>1, <2>2, <2>5 DEF Live
    <3>2. uanswers' = <<r>> \o uanswers
      BY <2>2, <2>5
    <3>3. \A i \in 1..Len(uanswers') : uanswers'[i] \in Live /\ ~Probing(uanswers'[i])
      <4> TAKE i \in 1..Len(uanswers')
      <4>1. CASE i = 1
        BY <1>0, <2>1, <3>1, <3>2, <4>1
      <4>2. CASE i # 1
        <5>1. i - 1 \in 1..Len(uanswers) /\ uanswers'[i] = uanswers[i - 1]
          BY <1>0, <3>1, <3>2, <4>2
        <5>2. QED BY <1>0, <5>1 DEF AnswersLive
      <4>3. QED BY <4>1, <4>2
    <3>4. QED BY <2>3, <3>3 DEF AnswersLive, Live
  <2>6. QED BY <2>4, <2>5
<1>5. CASE OutUnicast
  <2>1. uanswers # <<>> /\ uanswers' = Tail(uanswers) /\ UNCHANGED <<heap, unique>>
    BY <1>5 DEF OutUnicast
  <2>2. \A i \in 1..Len(uanswers') : i + 1 \in 1..Len(uanswers) /\ uanswers'[i] = uanswers[i + 1]
    BY <1>0, <2>1
  <2>3. QED BY <1>0, <2>1, <2>2 DEF AnswersLive, Live, Probing
<1>6. CASE OutNow \/ OutPublish \/ OutPause
  <2>1. uanswers = <<>> /\ uanswers' = uanswers
    BY <1>6 DEF SafeInv, OutNow, OutPublish, OutPause, ROut
  <2>2. QED BY <2>1 DEF AnswersLive
<1>7. CASE ProbePromote
  <2>1. unique' = [unique EXCEPT ![cur] = 5] /\ UNCHANGED <<heap, uanswers>>
    BY <1>7 DEF ProbePromote
  <2>2. \A x \in Live : ~Probing(x) => x \in Live' /\ ~Probing(x)'
    BY <1>0, <2>1 DEF Live, Probing
  <2>3. QED BY <1>0, <2>1, <2>2, AnswersKept
<1>8. CASE ProbeClaim
  <2>1. uanswers = <<>> /\ uanswers' = uanswers
    BY <1>8 DEF SafeInv, ProbeClaim
  <2>2. QED BY <2>1 DEF AnswersLive
<1>9. ASSUME \/ \E r \in Rec, v \in Data : MdnsdSet(r, v)
             \/ MdnsdShutdown \/ InReply \/ InProbed \/ StartOut \/ OutBegin \/ OutNowEnd
             \/ OutPublishEnd \/ OutReturn \/ ProbeAsk \/ ProbeAskEnd
             \/ ProbeClaimEnd \/ Tick \/ UNCHANGED vars
      PROVE  AnswersLive'
  <2>1. UNCHANGED <<heap, unique, uanswers>>
    BY <1>9 DEF MdnsdSet, MdnsdShutdown, InReply, InProbed, StartOut, OutBegin, OutNowEnd,
       OutPublishEnd, OutReturn, ProbeAsk, ProbeAskEnd, ProbeClaimEnd, Tick, vars, daemonVars
  <2>2. QED BY <1>0, <2>1, AnswersKept DEF Live, Probing
<1>10. QED
  BY <1>0, <1>1, <1>3, <1>4, <1>5, <1>6, <1>7, <1>8, <1>9
  DEF Next, Application, Network, Daemon, Rest, Crash

LEMMA SafeStep ==
  ASSUME "early" \notin Env, "rival" \notin Env, ListsInv, HeapInv, SafeInv, [Next]_vars
  PROVE  SafeInv'
<1> USE DEF recordVars, heads, timers, walk, query, app, ghosts, daemonVars, others
<1>0. /\ IInv /\ ~UseAfterFree /\ ~InClash /\ fault = "none" /\ AnswersLive'
  BY ReadsLive, AnswersStep DEF ListsInv, SafeInv
<1>1. fault' = "none"
  BY <1>0 DEF Next, Application, Network, Daemon, Rest, Crash, MdnsdShared, MdnsdUnique,
     MdnsdSet, MdnsdDone, MdnsdShutdown, InAnswer, InQuery, InReply, InProbed, StartOut,
     OutUnicast, OutBegin, OutNow, OutPause, ROut, OutNowEnd, OutPublish, OutPublishEnd,
     OutReturn, ProbePromote, ProbeAsk, ProbeAskEnd, ProbeClaim, ProbeClaimEnd, Tick, vars
<1> DEFINE Walks == {"out_now", "out_publish", "out_pause", "probe_ask", "probe_claim"}
<1>2. ASSUME pc' \in Walks PROVE uanswers' = <<>>
  <2>1. pc' = pc \/ pc \in Walks \/ uanswers = <<>>
    BY <1>0, <1>2 DEF Next, Application, Network, Daemon, Rest, MdnsdShared, MdnsdUnique,
     MdnsdSet, MdnsdDone, MdnsdShutdown, InAnswer, InQuery, InReply, InProbed, Advance,
     StartOut, OutUnicast, OutBegin, OutNow, OutPause, ROut, OutNowEnd, OutPublish,
     OutPublishEnd, OutReturn, ProbePromote, ProbeAsk, ProbeAskEnd, ProbeClaim,
     ProbeClaimEnd, Tick, vars, Crash
  <2>2. uanswers = <<>>
    BY <1>2, <2>1 DEF SafeInv
  <2>3. uanswers' = uanswers
    BY <1>0, <1>2, <2>2 DEF Next, Application, Network, Daemon, Rest, MdnsdShared,
     MdnsdUnique, MdnsdSet, MdnsdDone, MdnsdShutdown, InAnswer, InQuery, InReply, InProbed,
     StartOut, OutUnicast, OutBegin, OutNow, OutPause, ROut, OutNowEnd, OutPublish,
     OutPublishEnd, OutReturn, ProbePromote, ProbeAsk, ProbeAskEnd, ProbeClaim,
     ProbeClaimEnd, Tick, vars, Crash
  <2>4. QED BY <2>2, <2>3
<1>3. ASSUME pc' = "in"
      PROVE  cur' \in Live' /\ \A x \in Matches(key[cur])' : Probing(x)' => Agrees(x, claims)'
  <2>1. CASE InReply \/ InProbed
    <3>1. /\ pc = "in" /\ UNCHANGED <<heap, key, data, unique>>
          /\ cur' = NextMatch(Matches(key[cur]) \cap older[cur]) /\ cur' # Nil
          /\ claims' = claims
      BY <1>3, <2>1 DEF InReply, InProbed, Advance
    <3>2. cur' \in Matches(key[cur])
      BY <1>0, <3>1, NextMatchType DEF Matches, IInv
    <3>3. key[cur'] = key[cur] /\ cur' \in Live
      BY <3>2 DEF Matches
    <3>4. Live' = Live /\ Matches(key[cur])' = Matches(key[cur])
      BY <3>1, <3>3 DEF Live, Matches
    <3>5. QED BY <3>1, <3>3, <3>4 DEF SafeInv, Probing, Agrees
  <2>2. ASSUME NEW k \in Key, NEW an \in Section, NEW ns \in Section, NEW u \in BOOLEAN,
               InQuery(k, an, ns, u)
        PROVE  cur' \in Live' /\ \A x \in Matches(key[cur])' : Probing(x)' => Agrees(x, claims)'
    <3>1. /\ cur' = NextMatch(Matches(k)) /\ cur' # Nil
          /\ UNCHANGED <<heap, key, data, unique>>
          /\ "rival" \in Env \/ \A x \in Matches(k) : Probing(x) => Agrees(x, claims')
      BY <2>2 DEF InQuery
    <3>2. cur' \in Matches(k)
      BY <1>0, <3>1, NextMatchType DEF Matches, IInv
    <3>3. key[cur'] = k /\ cur' \in Live
      BY <3>2 DEF Matches
    <3>4. Live' = Live /\ Matches(key[cur])' = Matches(k)
      BY <3>1, <3>3 DEF Live, Matches
    <3>5. QED BY <3>1, <3>3, <3>4 DEF Probing, Agrees
  <2>3. CASE UNCHANGED vars
    <3>1. pc = "in" /\ UNCHANGED <<heap, key, data, unique, cur, claims>>
      BY <1>3, <2>3 DEF vars
    <3>2. QED BY <3>1 DEF SafeInv, Live, Matches, Probing, Agrees
  <2>4. InReply \/ InProbed \/ UNCHANGED vars
        \/ \E k \in Key, an \in Section, ns \in Section, u \in BOOLEAN : InQuery(k, an, ns, u)
    BY <1>0, <1>3 DEF Next, Application, Network, Daemon, Rest, MdnsdShared, MdnsdUnique,
     Create, AppMayCall, MdnsdSet, MdnsdDone, MdnsdShutdown, InAnswer, StartOut, OutUnicast,
     OutBegin, OutNow, OutPause, ROut, OutNowEnd, OutPublish, OutPublishEnd, OutReturn,
     ProbePromote, ProbeAsk, ProbeAskEnd, ProbeClaim, ProbeClaimEnd, Tick, Crash
  <2>5. QED BY <2>1, <2>2, <2>3, <2>4
<1>4. QED BY <1>0, <1>1, <1>2, <1>3 DEF SafeInv

-----------------------------------------------------------------------------
\* The theorems

\* While no established record is set again, and the shutdown finds the lists
\* empty, what the lists hold is apart, live and complete.
THEOREM HeapInductive ==
  ASSUME "reset" \notin Env, "abrupt" \notin Env
  PROVE  Spec => [](ListsInv /\ HeapInv)
<1>1. Init => HeapInv
  BY InitHeap
<1>2. ListsInv /\ HeapInv /\ [Next]_vars => HeapInv'
  BY HeapStep
<1>3. QED BY ListsInductive, <1>1, <1>2, PTL DEF Spec

\* The four lists of mdnsd.c share one link field, and yet no live record is on
\* two of them.
THEOREM OneListEach ==
  ASSUME "reset" \notin Env, "abrupt" \notin Env
  PROVE  Spec => []ListsApart
<1>1. ListsInv /\ HeapInv => ListsApart
  <2> SUFFICES ASSUME ListsInv, HeapInv, NEW m \in DOMAIN Lists, NEW n \in DOMAIN Lists,
                      m # n, NEW r \in Live,
                      OnList(list, Lists[m], r), OnList(list, Lists[n], r)
               PROVE  FALSE
    BY DEF ListsApart
  <2>1. r \in Rec
    BY DEF Live
  <2>2. /\ m \in {"probing", "a_now", "a_pause", "a_publish"}
        /\ n \in {"probing", "a_now", "a_pause", "a_publish"}
        /\ Lists["probing"] = probing /\ Lists["a_now"] = a_now
        /\ Lists["a_pause"] = a_pause /\ Lists["a_publish"] = a_publish
    BY DEF Lists
  <2>3. CASE ~shutdown
    <3>1. /\ Now \cap Pausing = {} /\ Now \cap Announced = {} /\ Pausing \cap Announced = {}
          /\ Now \cap Probers = {} /\ Pausing \cap Probers = {} /\ Announced \cap Probers = {}
          /\ Probers = Chain(list, probing)
      BY <2>3, ListsDisjoint, Placed DEF HeapInv, ListsInv, RecordsInv, PlaceInv
    <3>2. QED BY <2>1, <2>2, <3>1 DEF Now, Pausing, Announced, Chain
  <2>4. CASE shutdown
    BY <2>2, <2>4 DEF HeapInv, ShutInv, OnList
  <2>5. QED BY <2>3, <2>4
<1>2. QED BY HeapInductive, <1>1, PTL

\* What was queued to go out and was not sent since is on a list, so that
\* mdnsd_out comes to it.
THEOREM QueuedIsKept ==
  ASSUME "reset" \notin Env, "abrupt" \notin Env
  PROVE  Spec => []AnswerNotLost
<1>1. ListsInv /\ HeapInv => AnswerNotLost
  <2> SUFFICES ASSUME ListsInv, HeapInv, NEW r \in Live, owed[r] PROVE Queued(r)
    BY DEF AnswerNotLost
  <2>1. /\ Lists["a_now"] = a_now /\ Lists["a_pause"] = a_pause
        /\ Lists["a_publish"] = a_publish
    BY DEF Lists
  <2>2. r \in Now \cup Pausing \cup Announced
    BY DEF HeapInv, OwedInv, ListsInv, LastInv, Now
  <2>3. QED BY <2>1, <2>2 DEF Queued, Now, Pausing, Announced, Chain
<1>2. QED BY HeapInductive, <1>1, PTL

\* Outside mdnsd_out no list leads to a freed record, so that the walks of
\* _r_push and of mdnsd_done read none.
THEOREM WalksAreLive ==
  ASSUME "reset" \notin Env, "abrupt" \notin Env
  PROVE  Spec => []ListsAreLive
<1>1. ListsInv /\ HeapInv => ListsAreLive
  <2> SUFFICES ASSUME ListsInv, HeapInv, ~shutdown, NEW n \in DOMAIN Lists, NEW r \in Rec,
                      OnList(list, Lists[n], r)
               PROVE  heap[r] = "live"
    BY DEF ListsAreLive
  <2>1. /\ n \in {"probing", "a_now", "a_pause", "a_publish"}
        /\ Lists["probing"] = probing /\ Lists["a_now"] = a_now
        /\ Lists["a_pause"] = a_pause /\ Lists["a_publish"] = a_publish
    BY DEF Lists
  <2>2. r \in Now \/ r \in Pausing \/ r \in Announced \/ r \in Probers
    BY <2>1 DEF ListsInv, RecordsInv, PlaceInv, Now, Pausing, Announced, Chain
  <2>3. QED BY <2>2 DEF HeapInv, SeparateInv, Live, Probers
<1>2. QED BY HeapInductive, <1>1, PTL

\* When moreover no peer claims other data for a record being probed, and no
\* unicast query asks for one, mdnsd.c reads no record after it freed it.
THEOREM NothingFreedIsRead ==
  ASSUME Env \subseteq {"late"}
  PROVE  Spec => []NoUseAfterFree
<1>1. "reset" \notin Env /\ "abrupt" \notin Env /\ "early" \notin Env /\ "rival" \notin Env
  OBVIOUS
<1>2. Spec => [](ListsInv /\ HeapInv)
  BY <1>1, HeapInductive
<1>3. Init => SafeInv
  BY DEF Init, SafeInv, AnswersLive
<1>4. ListsInv /\ HeapInv /\ SafeInv /\ [Next]_vars => SafeInv'
  BY <1>1, SafeStep
<1>5. SafeInv => NoUseAfterFree
  BY DEF SafeInv, NoUseAfterFree
<1>6. QED BY <1>2, <1>3, <1>4, <1>5, PTL DEF Spec
=============================================================================
