------------------------- MODULE MdnsdRecordsProofs -------------------------
(***************************************************************************)
(* Theorems about MdnsdRecords, for every set of records, keys and data,   *)
(* every packet size and wait, and every environment (Env = EnvKinds       *)
(* included): types, and that the shared link never closes into a cycle.   *)
(***************************************************************************)
EXTENDS MdnsdRecords, TLAPS

Links == [Rec -> Rec \cup {Nil}]
Created == {r \in Rec : heap[r] # "none"}

\* The order of creation is one: what is older than a record was created, no two
\* records are older than each other, and any set of records has a newest one.
OrderInv ==
  /\ \A x \in Rec : older[x] \subseteq Created
  /\ \A x, y \in Rec : x \in older[y] => y \notin older[x]
  /\ \A S \in SUBSET Created : S # {} => \E r \in S : IsNewest(r, S)

\* The walking pointers of the loops: the trailing pointer last is the one
\* whose link is cur, so that skipping cur cannot close a cycle.
WalkInv ==
  /\ pc = "in" => cur \in Rec
  /\ pc \in {"out_publish", "probe_ask"} /\ last # Nil => list[last] = cur
  /\ pc = "probe_ask" =>
       IF last = Nil THEN cur = probing ELSE OnList(list, probing, last)

\* The inductive invariant.
IInv == TypeOK /\ OrderInv /\ LinksAcyclic /\ WalkInv

-----------------------------------------------------------------------------
\* Lemmas about the shared link

\* _r_push: putting a record that is not on the list before its head keeps
\* the links acyclic, even when the record is on another list.
LEMMA PushAcyclic ==
  ASSUME NEW l \in Links, Acyclic(l), NEW h \in Rec \cup {Nil}, NEW r \in Rec,
         ~OnList(l, h, r)
  PROVE  Acyclic([l EXCEPT ![r] = h])
<1> DEFINE k == [l EXCEPT ![r] = h]
<1> SUFFICES ASSUME NEW S \in SUBSET Rec, S # {}, \A x \in S : k[x] \in S
             PROVE  FALSE
  BY DEF Acyclic
<1>1. CASE r \notin S
  <2>1. \A x \in S : l[x] \in S
    BY <1>1 DEF Links
  <2>2. QED BY <2>1 DEF Acyclic
<1>2. CASE r \in S
  <2>1. h \in S
    BY <1>2 DEF Links
  <2>2. PICK C \in SUBSET Rec : /\ h \in C /\ r \notin C
                                /\ \A x \in C : l[x] \in C \cup {Nil}
    BY <2>1, NilAssumption DEF OnList
  <2>3. \A x \in S \cap C : l[x] \in S \cap C
    BY <2>2, NilAssumption DEF Links
  <2>4. S \cap C # {} /\ S \cap C \in SUBSET Rec
    BY <2>1, <2>2
  <2>5. QED BY <2>3, <2>4 DEF Acyclic
<1>3. QED BY <1>1, <1>2

\* Making a predecessor skip a record keeps the links acyclic.
LEMMA SkipAcyclic ==
  ASSUME NEW l \in Links, Acyclic(l), NEW p \in Rec, NEW r \in Rec, l[p] = r
  PROVE  Acyclic([l EXCEPT ![p] = l[r]])
<1> DEFINE k == [l EXCEPT ![p] = l[r]]
<1> SUFFICES ASSUME NEW S \in SUBSET Rec, S # {}, \A x \in S : k[x] \in S
             PROVE  FALSE
  BY DEF Acyclic
<1>1. CASE p \notin S
  <2>1. \A x \in S : l[x] \in S
    BY <1>1 DEF Links
  <2>2. QED BY <2>1 DEF Acyclic
<1>2. CASE p \in S
  <2>1. l[r] \in S
    BY <1>2 DEF Links
  <2> DEFINE D == S \cup {r}
  <2>2. \A x \in D : l[x] \in D
    BY <2>1 DEF Links
  <2>3. D \in SUBSET Rec /\ D # {}
    OBVIOUS
  <2> HIDE DEF D
  <2>4. QED BY <2>2, <2>3 DEF Acyclic
<1>3. QED BY <1>1, <1>2

\* Clearing a link keeps the links acyclic.
LEMMA ClearAcyclic ==
  ASSUME NEW l \in Links, Acyclic(l), NEW r \in Rec
  PROVE  Acyclic([l EXCEPT ![r] = Nil])
<1> DEFINE k == [l EXCEPT ![r] = Nil]
<1> SUFFICES ASSUME NEW S \in SUBSET Rec, S # {}, \A x \in S : k[x] \in S
             PROVE  FALSE
  BY DEF Acyclic
<1>1. r \notin S
  BY NilAssumption DEF Links
<1>2. \A x \in S : l[x] \in S
  BY <1>1 DEF Links
<1>3. QED BY <1>2 DEF Acyclic

\* Reachability: one step on, and along what is reachable already.
LEMMA OnListStep ==
  ASSUME NEW l \in Links, NEW h \in Rec \cup {Nil}, NEW x \in Rec, OnList(l, h, x),
         l[x] # Nil
  PROVE  OnList(l, h, l[x])
BY DEF OnList, Links

LEMMA OnListHead ==
  ASSUME NEW l \in Links, NEW h \in Rec
  PROVE  OnList(l, h, h)
BY NilAssumption DEF OnList, Links

\* A record that links to y is not on the list that starts at y.
LEMMA NoReturn ==
  ASSUME NEW l \in Links, Acyclic(l), NEW x \in Rec, NEW y \in Rec, l[x] = y,
         OnList(l, y, x)
  PROVE  FALSE
<1> DEFINE S == {z \in Rec : OnList(l, y, z) /\ OnList(l, z, x)}
<1>1. y \in S
  BY OnListHead
<1>2. ASSUME NEW z \in S PROVE l[z] \in S
  <2>1. CASE z = x
    BY <2>1, <1>1
  <2>2. CASE z # x
    <3>1. PICK z1 : z1 = l[z] /\ z1 \in Rec \cup {Nil}
      BY DEF Links
    <3>2. z1 # Nil
      <4>1. SUFFICES ASSUME z1 = Nil PROVE FALSE
        OBVIOUS
      <4>2. {z} \in SUBSET Rec /\ z \in {z}
        OBVIOUS
      <4>3. \A w \in {z} : l[w] \in {z} \cup {Nil}
        BY <4>1, <3>1
      <4>4. x \in {z}
        <5>1. OnList(l, z, x)
          OBVIOUS
        <5>2. QED BY <4>2, <4>3, <5>1 DEF OnList
      <4>5. QED BY <4>4, <2>2
    <3>3. OnList(l, z1, x)
      <4>1. SUFFICES ASSUME NEW C \in SUBSET Rec, z1 \in C,
                            \A w \in C : l[w] \in C \cup {Nil}
                     PROVE  x \in C
        BY <3>2 DEF OnList
      <4> DEFINE D == C \cup {z}
      <4>2. D \in SUBSET Rec /\ z \in D /\ \A w \in D : l[w] \in D \cup {Nil}
        <5>1. l[z] \in D
          BY <4>1, <3>1
        <5>2. \A w \in C : l[w] \in D \cup {Nil}
          BY <4>1
        <5>3. D \in SUBSET Rec /\ z \in D
          BY <4>1
        <5> HIDE DEF D
        <5>4. \A w \in D : w \in C \/ w = z
          BY DEF D
        <5>5. QED BY <5>1, <5>2, <5>3, <5>4
      <4>3. x \in D
        <5> HIDE DEF D
        <5>1. QED BY <4>2 DEF OnList
      <4>4. QED BY <4>3, <2>2
    <3>4. OnList(l, y, z1)
      BY <3>1, <3>2, OnListStep
    <3>5. QED BY <3>1, <3>2, <3>3, <3>4
  <2>3. QED BY <2>1, <2>2
<1>3. QED BY <1>1, <1>2 DEF Acyclic

-----------------------------------------------------------------------------
\* Facts about the operators, from the types and the order of creation

\* _r_next returns a match, and there is one unless there are no matches.
LEMMA NextMatchType ==
  ASSUME TypeOK, OrderInv, NEW S \in SUBSET Live
  PROVE  /\ NextMatch(S) \in S \cup {Nil}
         /\ S # {} => NextMatch(S) \in S
<1>1. S \in SUBSET Created
  BY DEF Live, Created
<1>2. CASE S = {}
  BY <1>2 DEF NextMatch
<1>3. CASE S # {}
  <2>1. \E r \in S : IsNewest(r, S)
    BY <1>1, <1>3 DEF OrderInv
  <2>2. QED BY <1>3, <2>1 DEF NextMatch
<1>4. QED BY <1>2, <1>3

\* Push keeps heads and links well-typed.
LEMMA PushType ==
  ASSUME NEW l \in Links, NEW h \in Rec \cup {Nil}, NEW g, NEW k, NEW r \in Rec,
         IF OnList(l, h, r) THEN k = l /\ g = h
                            ELSE k = [l EXCEPT ![r] = h] /\ g = r
  PROVE  g \in Rec \cup {Nil} /\ k \in Links
BY DEF Links

\* What RPublish, RSend and Delist touch keeps its type.
LEMMA RPublishType ==
  ASSUME TypeOK, NEW l \in Links, NEW u, NEW r \in Rec, RPublish(l, u, r)
  PROVE  /\ list' \in Links
         /\ a_publish' \in Rec \cup {Nil}
         /\ tries' \in [Rec -> Nat]
         /\ publish' \in Nat
         /\ owed' \in [Rec -> BOOLEAN]
<1>1. a_publish \in Rec \cup {Nil} /\ tries \in [Rec -> Nat] /\ publish \in Nat
      /\ owed \in [Rec -> BOOLEAN]
  BY DEF TypeOK, RecordTypes, ListTypes, LoopTypes, OutsideTypes
<1>2. CASE u \in 1..4
  BY <1>1, <1>2 DEF RPublish
<1>3. CASE u \notin 1..4
  <2>1. Push(l, a_publish, r) /\ tries' = [tries EXCEPT ![r] = 0]
        /\ publish' = 0 /\ owed' = [owed EXCEPT ![r] = TRUE]
    BY <1>3 DEF RPublish
  <2>2. list' \in Links /\ a_publish' \in Rec \cup {Nil}
    BY <1>1, <2>1, PushType DEF Push
  <2>3. QED BY <1>1, <2>1, <2>2
<1>4. QED BY <1>2, <1>3

LEMMA RSendType ==
  ASSUME TypeOK, NEW r \in Rec, RSend(r)
  PROVE  /\ list' \in Links
         /\ a_now' \in Rec \cup {Nil}
         /\ a_pause' \in Rec \cup {Nil}
         /\ publish' \in Nat /\ pause' \in Nat
         /\ owed' \in [Rec -> BOOLEAN]
<1>1. list \in Links /\ a_now \in Rec \cup {Nil} /\ a_pause \in Rec \cup {Nil}
      /\ publish \in Nat /\ pause \in Nat /\ owed \in [Rec -> BOOLEAN]
  BY DEF TypeOK, RecordTypes, ListTypes, LoopTypes, OutsideTypes, Links
<1>2. CASE Announcing(r) /\ publish' = 0 /\ UNCHANGED <<list, a_now, a_pause, pause, owed>>
  BY <1>1, <1>2
<1>3. CASE Push(list, a_now, r) /\ owed' = [owed EXCEPT ![r] = TRUE]
           /\ UNCHANGED <<a_pause, pause, publish>>
  <2>1. list' \in Links /\ a_now' \in Rec \cup {Nil}
    BY <1>1, <1>3, PushType DEF Push
  <2>2. QED BY <1>1, <1>3, <2>1
<1>4. CASE pause' = PauseWait /\ Push(list, a_pause, r) /\ owed' = [owed EXCEPT ![r] = TRUE]
           /\ UNCHANGED <<a_now, publish>>
  <2>1. list' \in Links /\ a_pause' \in Rec \cup {Nil}
    BY <1>1, <1>4, PushType DEF Push
  <2>2. QED BY <1>1, <1>4, <2>1, WaitAssumption
<1>5. QED BY <1>2, <1>3, <1>4 DEF RSend

LEMMA DelistType ==
  ASSUME TypeOK, NEW r \in Rec, Delist(r)
  PROVE  /\ list' \in Links
         /\ heap' \in [Rec -> {"none", "live", "freed"}]
         /\ ttl' \in [Rec -> 0..1]
         /\ probing' \in Rec \cup {Nil}
         /\ a_now' \in Rec \cup {Nil}
         /\ a_pause' \in Rec \cup {Nil}
         /\ publish' \in Nat /\ pause' \in Nat
         /\ owed' \in [Rec -> BOOLEAN]
<1>1. /\ list \in Links /\ probing \in Rec \cup {Nil}
      /\ a_now \in Rec \cup {Nil} /\ a_pause \in Rec \cup {Nil}
      /\ publish \in Nat /\ pause \in Nat /\ owed \in [Rec -> BOOLEAN]
      /\ heap \in [Rec -> {"none", "live", "freed"}] /\ ttl \in [Rec -> 0..1]
  BY DEF TypeOK, RecordTypes, ListTypes, LoopTypes, OutsideTypes, Links
<1>2. CASE Probing(r)
  <2>1. /\ ZapProbing(r)
        /\ heap' = [heap EXCEPT ![r] = "freed"]
        /\ owed' = [owed EXCEPT ![r] = FALSE]
        /\ UNCHANGED <<ttl, a_now, a_pause, publish, pause>>
    BY <1>2 DEF Delist
  <2>2. list' \in Links /\ probing' \in Rec \cup {Nil}
    BY <1>1, <2>1 DEF ZapProbing, Links
  <2>3. QED BY <1>1, <2>1, <2>2
<1>3. CASE ~Probing(r)
  <2>1. RSend(r) /\ ttl' = [ttl EXCEPT ![r] = 0] /\ UNCHANGED <<heap, probing>>
    BY <1>3 DEF Delist
  <2>2. QED BY <1>1, <2>1, RSendType
<1>4. QED BY <1>2, <1>3

LEMMA SentType ==
  ASSUME TypeOK, NEW r \in Rec, Sent(r)
  PROVE  /\ heap' \in [Rec -> {"none", "live", "freed"}]
         /\ owed' \in [Rec -> BOOLEAN]
         /\ heard' \in [Rec -> Data \cup {Empty, Nil, Gone}]
BY DEF TypeOK, RecordTypes, OutsideTypes, Sent, Say

-----------------------------------------------------------------------------
\* Types

\* Groups of variables no action of a kind touches keep their types.
LEMMA RecordFrame == RecordTypes /\ UNCHANGED recordVars => RecordTypes'
BY DEF RecordTypes, recordVars

LEMMA ListFrame == ListTypes /\ UNCHANGED <<list, heads, uanswers>> => ListTypes'
BY DEF ListTypes, heads

LEMMA OutsideFrame == OutsideTypes /\ UNCHANGED <<app, fault, ghosts>> => OutsideTypes'
BY DEF OutsideTypes, app, ghosts

\* The step of each action keeps the types.
LEMMA TypeStep ==
  ASSUME TypeOK, OrderInv, WalkInv, [Next]_vars
  PROVE  TypeOK'
<1> USE DEF recordVars, heads, timers, walk, query, app, ghosts, daemonVars, others
<1>0. RecordTypes /\ ListTypes /\ LoopTypes /\ OutsideTypes
  BY DEF TypeOK
<1>1. ASSUME NEW r \in Rec, NEW k \in Key, MdnsdShared(r, k) PROVE TypeOK'
  <2>1. RecordTypes'
    BY <1>1, <1>0 DEF MdnsdShared, Create, RecordTypes
  <2>2. ListTypes'
    BY <1>1, <1>0, ListFrame DEF MdnsdShared, Create
  <2>3. LoopTypes'
    BY <1>1, <1>0 DEF MdnsdShared, Create, LoopTypes
  <2>4. OutsideTypes'
    BY <1>1, <1>0 DEF MdnsdShared, Create, OutsideTypes
  <2>5. QED BY <2>1, <2>2, <2>3, <2>4 DEF TypeOK
<1>2. ASSUME NEW r \in Rec, NEW k \in Key, MdnsdUnique(r, k) PROVE TypeOK'
  <2>1. list' \in Links /\ probing' \in Rec \cup {Nil}
    BY <1>2, <1>0, PushType DEF MdnsdUnique, Push, ListTypes, Links
  <2>2. RecordTypes'
    BY <1>2, <1>0 DEF MdnsdUnique, Create, RecordTypes
  <2>3. ListTypes'
    BY <1>2, <1>0, <2>1 DEF MdnsdUnique, Create, ListTypes, Links
  <2>4. LoopTypes'
    BY <1>2, <1>0 DEF MdnsdUnique, Create, LoopTypes
  <2>5. OutsideTypes'
    BY <1>2, <1>0 DEF MdnsdUnique, Create, OutsideTypes
  <2>6. QED BY <2>2, <2>3, <2>4, <2>5 DEF TypeOK
<1>3. ASSUME NEW r \in Rec, NEW v \in Data, MdnsdSet(r, v) PROVE TypeOK'
  <2>1. list \in Links /\ RPublish(list, unique[r], r)
    BY <1>3, <1>0 DEF MdnsdSet, ListTypes, Links
  <2>2. /\ list' \in Links /\ a_publish' \in Rec \cup {Nil}
        /\ tries' \in [Rec -> Nat] /\ publish' \in Nat /\ owed' \in [Rec -> BOOLEAN]
    BY <2>1, RPublishType
  <2>3. RecordTypes'
    BY <1>3, <1>0, <2>2 DEF MdnsdSet, RecordTypes
  <2>4. ListTypes'
    BY <1>3, <1>0, <2>2 DEF MdnsdSet, ListTypes, Links
  <2>5. LoopTypes'
    BY <1>3, <1>0, <2>2 DEF MdnsdSet, LoopTypes
  <2>6. OutsideTypes'
    BY <1>3, <1>0, <2>2 DEF MdnsdSet, OutsideTypes
  <2>7. QED BY <2>3, <2>4, <2>5, <2>6 DEF TypeOK
<1>4. ASSUME NEW r \in Rec, MdnsdDone(r) PROVE TypeOK'
  <2>1. /\ list' \in Links /\ heap' \in [Rec -> {"none", "live", "freed"}]
        /\ ttl' \in [Rec -> 0..1] /\ probing' \in Rec \cup {Nil}
        /\ a_now' \in Rec \cup {Nil} /\ a_pause' \in Rec \cup {Nil}
        /\ publish' \in Nat /\ pause' \in Nat /\ owed' \in [Rec -> BOOLEAN]
    BY <1>4, DelistType DEF MdnsdDone
  <2>2. RecordTypes'
    BY <1>4, <1>0, <2>1 DEF MdnsdDone, RecordTypes
  <2>3. ListTypes'
    BY <1>4, <1>0, <2>1 DEF MdnsdDone, ListTypes, Links
  <2>4. LoopTypes'
    BY <1>4, <1>0, <2>1 DEF MdnsdDone, LoopTypes
  <2>5. OutsideTypes'
    BY <1>4, <1>0, <2>1 DEF MdnsdDone, OutsideTypes
  <2>6. QED BY <2>2, <2>3, <2>4, <2>5 DEF TypeOK
<1>5. CASE MdnsdShutdown
  <2>1. RecordTypes'
    BY <1>5, <1>0 DEF MdnsdShutdown, Live, RecordTypes
  <2>2. ListTypes'
    BY <1>5, <1>0 DEF MdnsdShutdown, Live, ListTypes
  <2>3. LoopTypes'
    BY <1>5, <1>0 DEF MdnsdShutdown, Live, LoopTypes
  <2>4. OutsideTypes'
    BY <1>5, <1>0 DEF MdnsdShutdown, Live, OutsideTypes
  <2>5. QED BY <2>1, <2>2, <2>3, <2>4 DEF TypeOK
<1>6. ASSUME NEW k \in Key, NEW v \in Data, InAnswer(k, v) PROVE TypeOK'
  <2> DEFINE r == NextMatch(Matches(k))
  <2>1. r \in Rec
    BY <1>6, NextMatchType DEF InAnswer, Matches, Live
  <2>2. /\ list' \in Links /\ heap' \in [Rec -> {"none", "live", "freed"}]
        /\ ttl' \in [Rec -> 0..1] /\ probing' \in Rec \cup {Nil}
        /\ a_now' \in Rec \cup {Nil} /\ a_pause' \in Rec \cup {Nil}
        /\ publish' \in Nat /\ pause' \in Nat /\ owed' \in [Rec -> BOOLEAN]
    BY <1>6, <2>1, DelistType DEF InAnswer
  <2>3. RecordTypes'
    BY <1>6, <1>0, <2>1, <2>2 DEF InAnswer, RecordTypes
  <2>4. ListTypes'
    BY <1>6, <1>0, <2>1, <2>2 DEF InAnswer, ListTypes, Links
  <2>5. LoopTypes'
    BY <1>6, <1>0, <2>1, <2>2 DEF InAnswer, LoopTypes
  <2>6. OutsideTypes'
    BY <1>6, <1>0, <2>1, <2>2 DEF InAnswer, OutsideTypes
  <2>7. QED BY <2>3, <2>4, <2>5, <2>6 DEF TypeOK
<1>7. ASSUME NEW k \in Key, NEW an \in Section, NEW ns \in Section,
             NEW u \in BOOLEAN, InQuery(k, an, ns, u)
      PROVE  TypeOK'
  <2> DEFINE r == NextMatch(Matches(k))
  <2>1. r \in Rec
    BY <1>7, NextMatchType DEF InQuery, Matches, Live
  <2>2. uanswers' \in Seq(Rec)
    BY <1>7, <1>0, <2>1 DEF InQuery, ListTypes
  <2>3. known' \subseteq Data /\ claims' \subseteq Data
    <3>1. /\ known' = {an[j] : j \in 1..Len(an)} \ {Other}
          /\ claims' = {(an \o ns)[j] : j \in 1..Len(ns)} \ {Other}
      BY <1>7 DEF InQuery
    <3>2. an \in Seq(Data \cup {Other}) /\ ns \in Seq(Data \cup {Other})
      <4>1. ASSUME NEW q \in Section PROVE q \in Seq(Data \cup {Other})
        <5>1. q = <<>> \/ \E v \in Data \cup {Other} : q = <<v>>
          BY DEF Section
        <5>2. \A v \in Data \cup {Other} : <<v>> \in Seq(Data \cup {Other})
          OBVIOUS
        <5>3. <<>> \in Seq(Data \cup {Other})
          OBVIOUS
        <5>4. QED BY <5>1, <5>2, <5>3
      <4>2. QED BY <4>1
    <3>3. \A j \in 1..Len(an) : an[j] \in Data \cup {Other}
      BY <3>2
    <3>4. an \o ns \in Seq(Data \cup {Other}) /\ Len(an \o ns) = Len(an) + Len(ns)
      BY <3>2
    <3>5. \A j \in 1..Len(ns) : (an \o ns)[j] \in Data \cup {Other}
      BY <3>2, <3>4
    <3>6. QED BY <3>1, <3>3, <3>5
  <2>4. RecordTypes'
    BY <1>7, <1>0, RecordFrame DEF InQuery
  <2>5. ListTypes'
    BY <1>7, <1>0, <2>2 DEF InQuery, ListTypes
  <2>6. LoopTypes'
    BY <1>7, <1>0, <2>1, <2>3 DEF InQuery, LoopTypes
  <2>7. OutsideTypes'
    BY <1>7, <1>0 DEF InQuery, OutsideTypes
  <2>8. QED BY <2>4, <2>5, <2>6, <2>7 DEF TypeOK
<1>8. ASSUME pc = "in", Advance
      PROVE  /\ cur' \in Rec \cup {Nil} /\ pc' \in {"recv", "in"}
             /\ known' \subseteq Data /\ claims' \subseteq Data
  <2> DEFINE S == Matches(key[cur]) \cap older[cur]
  <2>1. NextMatch(S) \in S \cup {Nil} /\ S \subseteq Rec
    BY NextMatchType DEF Matches, Live
  <2>2. cur' = NextMatch(S)
    BY <1>8 DEF Advance
  <2>3. QED BY <1>8, <1>0, <2>1, <2>2 DEF Advance, LoopTypes
<1>9. CASE InReply
  <2>1. cur \in Rec
    BY <1>9 DEF InReply, WalkInv
  <2>2. /\ list' \in Links /\ a_now' \in Rec \cup {Nil} /\ a_pause' \in Rec \cup {Nil}
        /\ publish' \in Nat /\ pause' \in Nat /\ owed' \in [Rec -> BOOLEAN]
    <3>1. CASE data[cur] \in known
      BY <1>9, <1>0, <3>1 DEF InReply, ListTypes, LoopTypes, OutsideTypes, Links
    <3>2. CASE data[cur] \notin known
      BY <1>9, <2>1, <3>2, RSendType DEF InReply
    <3>3. QED BY <3>1, <3>2
  <2>3. RecordTypes'
    BY <1>9, <1>0, RecordFrame DEF InReply
  <2>4. ListTypes'
    BY <1>9, <1>0, <2>2 DEF InReply, ListTypes, Links
  <2>5. LoopTypes'
    BY <1>9, <1>0, <1>8, <2>2 DEF InReply, LoopTypes
  <2>6. OutsideTypes'
    BY <1>9, <1>0, <2>2 DEF InReply, OutsideTypes
  <2>7. QED BY <2>3, <2>4, <2>5, <2>6 DEF TypeOK
<1>10. CASE InProbed
  <2>1. RecordTypes'
    BY <1>10, <1>0, RecordFrame DEF InProbed
  <2>2. ListTypes'
    BY <1>10, <1>0, ListFrame DEF InProbed
  <2>3. LoopTypes'
    BY <1>10, <1>0, <1>8 DEF InProbed, LoopTypes
  <2>4. OutsideTypes'
    BY <1>10, <1>0, OutsideFrame DEF InProbed
  <2>5. QED BY <2>1, <2>2, <2>3, <2>4 DEF TypeOK
<1>11. CASE InClash
  <2>1. cur \in Rec
    BY <1>11 DEF InClash, WalkInv
  <2>2. /\ list' \in Links /\ heap' \in [Rec -> {"none", "live", "freed"}]
        /\ ttl' \in [Rec -> 0..1] /\ probing' \in Rec \cup {Nil}
        /\ a_now' \in Rec \cup {Nil} /\ a_pause' \in Rec \cup {Nil}
        /\ publish' \in Nat /\ pause' \in Nat /\ owed' \in [Rec -> BOOLEAN]
    BY <1>11, <2>1, DelistType DEF InClash
  <2>3. RecordTypes'
    BY <1>11, <1>0, <2>1, <2>2 DEF InClash, RecordTypes
  <2>4. ListTypes'
    BY <1>11, <1>0, <2>1, <2>2 DEF InClash, ListTypes, Links
  <2>5. LoopTypes'
    BY <1>11, <1>0, <2>1, <2>2 DEF InClash, LoopTypes
  <2>6. OutsideTypes'
    BY <1>11, <1>0, <2>1, <2>2 DEF InClash, OutsideTypes
  <2>7. QED BY <2>3, <2>4, <2>5, <2>6 DEF TypeOK
<1>12. CASE StartOut
  <2>1. RecordTypes'
    BY <1>12, <1>0, RecordFrame DEF StartOut
  <2>2. ListTypes'
    BY <1>12, <1>0, ListFrame DEF StartOut
  <2>3. LoopTypes'
    BY <1>12, <1>0 DEF StartOut, LoopTypes
  <2>4. OutsideTypes'
    BY <1>12, <1>0, OutsideFrame DEF StartOut
  <2>5. QED BY <2>1, <2>2, <2>3, <2>4 DEF TypeOK
<1>13. CASE OutUnicast
  <2>1. RecordTypes'
    BY <1>13, <1>0, RecordFrame DEF OutUnicast
  <2>2. ListTypes'
    BY <1>13, <1>0 DEF OutUnicast, ListTypes
  <2>3. LoopTypes'
    BY <1>13, <1>0 DEF OutUnicast, LoopTypes
  <2>4. OutsideTypes'
    BY <1>13, <1>0, OutsideFrame DEF OutUnicast
  <2>5. QED BY <2>1, <2>2, <2>3, <2>4 DEF TypeOK
<1>14. CASE OutBegin
  <2>1. RecordTypes'
    BY <1>14, <1>0, RecordFrame DEF OutBegin
  <2>2. ListTypes'
    BY <1>14, <1>0, ListFrame DEF OutBegin
  <2>3. LoopTypes'
    BY <1>14, <1>0, FrameAssumption DEF OutBegin, LoopTypes
  <2>4. OutsideTypes'
    BY <1>14, <1>0, OutsideFrame DEF OutBegin
  <2>5. QED BY <2>1, <2>2, <2>3, <2>4 DEF TypeOK
<1>15. CASE OutNow
  <2>1. a_now \in Rec /\ Sent(a_now)
    BY <1>15, <1>0 DEF OutNow, ROut, ListTypes, LoopTypes
  <2>2. /\ heap' \in [Rec -> {"none", "live", "freed"}] /\ owed' \in [Rec -> BOOLEAN]
        /\ heard' \in [Rec -> Data \cup {Empty, Nil, Gone}]
    BY <2>1, SentType
  <2>3. RecordTypes'
    BY <1>15, <1>0, <2>2 DEF OutNow, ROut, RecordTypes
  <2>4. ListTypes'
    BY <1>15, <1>0, <2>1 DEF OutNow, ROut, ListTypes
  <2>5. LoopTypes'
    BY <1>15, <1>0, <2>1, FrameAssumption DEF OutNow, ROut, LoopTypes
  <2>6. OutsideTypes'
    BY <1>15, <1>0, <2>2 DEF OutNow, ROut, OutsideTypes
  <2>7. QED BY <2>3, <2>4, <2>5, <2>6 DEF TypeOK
<1>16. CASE OutNowEnd
  <2>1. RecordTypes'
    BY <1>16, <1>0, RecordFrame DEF OutNowEnd
  <2>2. ListTypes'
    BY <1>16, <1>0, ListFrame DEF OutNowEnd
  <2>3. LoopTypes'
    BY <1>16, <1>0 DEF OutNowEnd, LoopTypes, ListTypes
  <2>4. OutsideTypes'
    BY <1>16, <1>0, OutsideFrame DEF OutNowEnd
  <2>5. QED BY <2>1, <2>2, <2>3, <2>4 DEF TypeOK
<1>17. CASE OutPublish
  <2>1. cur \in Rec /\ Sent(cur)
    BY <1>17, <1>0 DEF OutPublish, ListTypes, LoopTypes
  <2>2. /\ heap' \in [Rec -> {"none", "live", "freed"}] /\ owed' \in [Rec -> BOOLEAN]
        /\ heard' \in [Rec -> Data \cup {Empty, Nil, Gone}]
    BY <2>1, SentType
  <2>3. RecordTypes'
    BY <1>17, <1>0, <2>1, <2>2 DEF OutPublish, RecordTypes
  <2>4. ListTypes'
    BY <1>17, <1>0, <2>1 DEF OutPublish, ListTypes, Unlink
  <2>5. LoopTypes'
    BY <1>17, <1>0, <2>1, FrameAssumption DEF OutPublish, LoopTypes, Unlink, ListTypes
  <2>6. OutsideTypes'
    BY <1>17, <1>0, <2>2 DEF OutPublish, OutsideTypes
  <2>7. QED BY <2>3, <2>4, <2>5, <2>6 DEF TypeOK
<1>18. CASE OutPublishEnd
  <2>1. RecordTypes'
    BY <1>18, <1>0, RecordFrame DEF OutPublishEnd
  <2>2. ListTypes'
    BY <1>18, <1>0, ListFrame DEF OutPublishEnd
  <2>3. LoopTypes'
    BY <1>18, <1>0, WaitAssumption DEF OutPublishEnd, LoopTypes
  <2>4. OutsideTypes'
    BY <1>18, <1>0, OutsideFrame DEF OutPublishEnd
  <2>5. QED BY <2>1, <2>2, <2>3, <2>4 DEF TypeOK
<1>19. CASE OutPause
  <2>1. a_pause \in Rec /\ Sent(a_pause)
    BY <1>19, <1>0 DEF OutPause, ROut, ListTypes, LoopTypes
  <2>2. /\ heap' \in [Rec -> {"none", "live", "freed"}] /\ owed' \in [Rec -> BOOLEAN]
        /\ heard' \in [Rec -> Data \cup {Empty, Nil, Gone}]
    BY <2>1, SentType
  <2>3. RecordTypes'
    BY <1>19, <1>0, <2>2 DEF OutPause, ROut, RecordTypes
  <2>4. ListTypes'
    BY <1>19, <1>0, <2>1 DEF OutPause, ROut, ListTypes
  <2>5. LoopTypes'
    BY <1>19, <1>0, <2>1, FrameAssumption DEF OutPause, ROut, LoopTypes
  <2>6. OutsideTypes'
    BY <1>19, <1>0, <2>2 DEF OutPause, ROut, OutsideTypes
  <2>7. QED BY <2>3, <2>4, <2>5, <2>6 DEF TypeOK
<1>20. CASE OutReturn
  <2>1. RecordTypes'
    BY <1>20, <1>0, RecordFrame DEF OutReturn
  <2>2. ListTypes'
    BY <1>20, <1>0, ListFrame DEF OutReturn
  <2>3. LoopTypes'
    BY <1>20, <1>0, FrameAssumption DEF OutReturn, LoopTypes, ListTypes
  <2>4. OutsideTypes'
    BY <1>20, <1>0, OutsideFrame DEF OutReturn
  <2>5. QED BY <2>1, <2>2, <2>3, <2>4 DEF TypeOK
<1>21. CASE ProbePromote
  <2> DEFINE skipped == IF probing = cur THEN list ELSE [list EXCEPT ![last] = list[cur]]
  <2>1. cur \in Rec
    BY <1>21, <1>0 DEF ProbePromote, LoopTypes
  <2>2. [skipped EXCEPT ![cur] = Nil] \in Links
    BY <1>0, <2>1 DEF ListTypes, Links
  <2>3. RPublish([skipped EXCEPT ![cur] = Nil], 5, cur)
    BY <1>21 DEF ProbePromote
  <2> HIDE DEF skipped
  <2>4. /\ list' \in Links /\ a_publish' \in Rec \cup {Nil}
        /\ tries' \in [Rec -> Nat] /\ publish' \in Nat /\ owed' \in [Rec -> BOOLEAN]
    BY <2>1, <2>2, <2>3, RPublishType
  <2>5. RecordTypes'
    BY <1>21, <1>0, <2>1, <2>4 DEF ProbePromote, RecordTypes
  <2>6. ListTypes'
    BY <1>21, <1>0, <2>1, <2>4 DEF ProbePromote, ListTypes, Links
  <2>7. LoopTypes'
    BY <1>21, <1>0, <2>1, <2>4 DEF ProbePromote, LoopTypes, ListTypes
  <2>8. OutsideTypes'
    BY <1>21, <1>0, <2>4 DEF ProbePromote, OutsideTypes
  <2>9. QED BY <2>5, <2>6, <2>7, <2>8 DEF TypeOK
<1>22. CASE ProbeAsk
  <2>1. RecordTypes'
    BY <1>22, <1>0, RecordFrame DEF ProbeAsk
  <2>2. ListTypes'
    BY <1>22, <1>0, ListFrame DEF ProbeAsk
  <2>3. LoopTypes'
    BY <1>22, <1>0 DEF ProbeAsk, LoopTypes, ListTypes
  <2>4. OutsideTypes'
    BY <1>22, <1>0, OutsideFrame DEF ProbeAsk
  <2>5. QED BY <2>1, <2>2, <2>3, <2>4 DEF TypeOK
<1>23. CASE ProbeAskEnd
  <2>1. RecordTypes'
    BY <1>23, <1>0, RecordFrame DEF ProbeAskEnd
  <2>2. ListTypes'
    BY <1>23, <1>0, ListFrame DEF ProbeAskEnd
  <2>3. LoopTypes'
    BY <1>23, <1>0 DEF ProbeAskEnd, LoopTypes, ListTypes
  <2>4. OutsideTypes'
    BY <1>23, <1>0, OutsideFrame DEF ProbeAskEnd
  <2>5. QED BY <2>1, <2>2, <2>3, <2>4 DEF TypeOK
<1>24. CASE ProbeClaim
  <2>1. /\ cur \in Rec
        /\ unique' = [unique EXCEPT ![cur] = unique[cur] + 1]
        /\ probes' = [probes EXCEPT ![cur] = IF probes[cur] < 3 THEN probes[cur] + 1 ELSE 3]
    BY <1>24, <1>0 DEF ProbeClaim, Counted, LoopTypes
  <2>2. unique' \in [Rec -> Nat]
    BY <1>0, <2>1 DEF RecordTypes
  <2>3. probes' \in [Rec -> Nat]
    BY <1>0, <2>1 DEF OutsideTypes
  <2>4. RecordTypes'
    BY <1>24, <1>0, <2>2 DEF ProbeClaim, RecordTypes
  <2>5. ListTypes'
    BY <1>24, <1>0, ListFrame DEF ProbeClaim
  <2>6. LoopTypes'
    BY <1>24, <1>0, <2>1 DEF ProbeClaim, LoopTypes, ListTypes
  <2>7. OutsideTypes'
    BY <1>24, <1>0, <2>3 DEF ProbeClaim, OutsideTypes
  <2>8. QED BY <2>4, <2>5, <2>6, <2>7 DEF TypeOK
<1>25. CASE ProbeClaimEnd
  <2>1. RecordTypes'
    BY <1>25, <1>0, RecordFrame DEF ProbeClaimEnd
  <2>2. ListTypes'
    BY <1>25, <1>0, ListFrame DEF ProbeClaimEnd
  <2>3. LoopTypes'
    BY <1>25, <1>0, WaitAssumption DEF ProbeClaimEnd, LoopTypes
  <2>4. OutsideTypes'
    BY <1>25, <1>0, OutsideFrame DEF ProbeClaimEnd
  <2>5. QED BY <2>1, <2>2, <2>3, <2>4 DEF TypeOK
<1>26. CASE Tick
  <2>1. RecordTypes'
    BY <1>26, <1>0, RecordFrame DEF Tick, Less
  <2>2. ListTypes'
    BY <1>26, <1>0, ListFrame DEF Tick, Less
  <2>3. LoopTypes'
    BY <1>26, <1>0 DEF Tick, Less, LoopTypes
  <2>4. OutsideTypes'
    BY <1>26, <1>0, OutsideFrame DEF Tick, Less
  <2>5. QED BY <2>1, <2>2, <2>3, <2>4 DEF TypeOK
<1>27. CASE Crash
  <2>1. RecordTypes'
    BY <1>27, <1>0, RecordFrame DEF Crash, UseAfterFree, Reads
  <2>2. ListTypes'
    BY <1>27, <1>0, ListFrame DEF Crash, UseAfterFree, Reads
  <2>3. LoopTypes'
    BY <1>27, <1>0 DEF Crash, UseAfterFree, Reads, LoopTypes
  <2>4. OutsideTypes'
    BY <1>27, <1>0 DEF Crash, UseAfterFree, Reads, OutsideTypes
  <2>5. QED BY <2>1, <2>2, <2>3, <2>4 DEF TypeOK
<1>28. CASE UNCHANGED vars
  <2>1. RecordTypes'
    BY <1>28, <1>0, RecordFrame DEF vars
  <2>2. ListTypes'
    BY <1>28, <1>0, ListFrame DEF vars
  <2>3. LoopTypes'
    BY <1>28, <1>0 DEF vars, LoopTypes
  <2>4. OutsideTypes'
    BY <1>28, <1>0, OutsideFrame DEF vars
  <2>5. QED BY <2>1, <2>2, <2>3, <2>4 DEF TypeOK
<1>29. QED
  BY <1>1, <1>2, <1>3, <1>4, <1>5, <1>6, <1>7, <1>9, <1>10, <1>11, <1>12, <1>13,
     <1>14, <1>15, <1>16, <1>17, <1>18, <1>19, <1>20, <1>21, <1>22, <1>23, <1>24,
     <1>25, <1>26, <1>27, <1>28
  DEF Next, Application, Network, Daemon, Rest

-----------------------------------------------------------------------------
\* The order of creation

\* Freeing a live record, or nothing at all, leaves the order alone.
LEMMA OrderFrame ==
  ASSUME OrderInv, older' = older, Created' = Created
  PROVE  OrderInv'
BY DEF OrderInv, IsNewest

LEMMA FreeCreated ==
  ASSUME TypeOK, NEW r \in Rec, heap[r] = "live",
         heap' = heap \/ heap' = [heap EXCEPT ![r] = "freed"]
  PROVE  Created' = Created
BY DEF Created, TypeOK, RecordTypes

LEMMA OrderStep ==
  ASSUME TypeOK, OrderInv, WalkInv, [Next]_vars
  PROVE  OrderInv'
<1> USE DEF recordVars, heads, timers, walk, query, app, ghosts, daemonVars, others
<1>1. ASSUME NEW r \in Rec, NEW k \in Key, Create(r, k) PROVE OrderInv'
  <2>1. /\ Created' = Created \cup {r} /\ r \notin Created
        /\ older' = [older EXCEPT ![r] = Created]
    BY <1>1 DEF Create, Created, TypeOK, RecordTypes
  <2>2. \A x \in Rec : older'[x] = IF x = r THEN Created ELSE older[x]
    BY <2>1 DEF TypeOK, RecordTypes
  <2>3. \A x \in Rec : older'[x] \subseteq Created'
    BY <2>1, <2>2 DEF OrderInv
  <2>4. \A x, y \in Rec : x \in older'[y] => y \notin older'[x]
    BY <2>1, <2>2 DEF OrderInv
  <2>5. ASSUME NEW S \in SUBSET Created', S # {}
        PROVE  \E n \in S : S \ {n} \subseteq older'[n]
    <3>1. CASE r \in S
      BY <2>1, <2>2, <3>1
    <3>2. CASE r \notin S
      <4>1. S \in SUBSET Created
        BY <2>1, <3>2
      <4>2. PICK n \in S : S \ {n} \subseteq older[n]
        BY <4>1, <2>5 DEF OrderInv, IsNewest
      <4>3. n \in Rec /\ n # r
        BY <3>2, <4>1 DEF Created
      <4>4. QED BY <4>2, <4>3, <2>2
    <3>3. QED BY <3>1, <3>2
  <2>6. QED BY <2>3, <2>4, <2>5 DEF OrderInv, IsNewest
<1>2. ASSUME older' = older, heap' = heap PROVE OrderInv'
  BY <1>2, OrderFrame DEF Created
<1>3. ASSUME NEW r \in Rec, heap[r] = "live", older' = older,
             heap' = heap \/ heap' = [heap EXCEPT ![r] = "freed"]
      PROVE  OrderInv'
  BY <1>3, FreeCreated, OrderFrame
<1>4. ASSUME NEW r \in Rec, Delist(r)
      PROVE  heap' = heap \/ heap' = [heap EXCEPT ![r] = "freed"]
  BY <1>4 DEF Delist
<1>5. ASSUME NEW r \in Rec, NEW k \in Key, MdnsdShared(r, k) \/ MdnsdUnique(r, k)
      PROVE  OrderInv'
  BY <1>1, <1>5 DEF MdnsdShared, MdnsdUnique
<1>6. ASSUME NEW r \in Rec, MdnsdDone(r) PROVE OrderInv'
  BY <1>3, <1>4, <1>6 DEF MdnsdDone, Holds
<1>7. ASSUME NEW k \in Key, NEW v \in Data, InAnswer(k, v) PROVE OrderInv'
  <2> DEFINE r == NextMatch(Matches(k))
  <2>1. r \in Rec /\ heap[r] = "live"
    BY <1>7, NextMatchType DEF InAnswer, Matches, Live
  <2>2. Delist(r) /\ older' = older
    BY <1>7 DEF InAnswer
  <2>3. QED BY <2>1, <2>2, <1>3, <1>4
<1>8. ASSUME ~UseAfterFree, InClash PROVE OrderInv'
  <2>1. cur \in Rec /\ heap[cur] = "live" /\ Delist(cur) /\ older' = older
    BY <1>8, NilAssumption DEF InClash, WalkInv, UseAfterFree, Reads
  <2>2. QED BY <2>1, <1>3, <1>4
<1>9. ASSUME NEW r \in Rec, heap[r] = "live", Sent(r), older' = older PROVE OrderInv'
  BY <1>3, <1>9 DEF Sent
<1>10. ASSUME ~UseAfterFree, OutNow PROVE OrderInv'
  <2>1. a_now \in Rec /\ heap[a_now] = "live" /\ Sent(a_now) /\ older' = older
    BY <1>10 DEF OutNow, ROut, UseAfterFree, Reads, TypeOK, ListTypes
  <2>2. QED BY <2>1, <1>9
<1>11. ASSUME ~UseAfterFree, OutPause PROVE OrderInv'
  <2>1. a_pause \in Rec /\ heap[a_pause] = "live" /\ Sent(a_pause) /\ older' = older
    BY <1>11 DEF OutPause, ROut, UseAfterFree, Reads, TypeOK, ListTypes
  <2>2. QED BY <2>1, <1>9
<1>12. ASSUME ~UseAfterFree, OutPublish PROVE OrderInv'
  <2>1. cur \in Rec /\ heap[cur] = "live" /\ Sent(cur) /\ older' = older
    BY <1>12 DEF OutPublish, UseAfterFree, Reads, TypeOK, LoopTypes
  <2>2. QED BY <2>1, <1>9
<1>13. ASSUME NEW r \in Rec, NEW v \in Data, MdnsdSet(r, v) PROVE OrderInv'
  BY <1>2, <1>13 DEF MdnsdSet
<1>14. ASSUME NEW k \in Key, NEW an \in Section, NEW ns \in Section,
              NEW u \in BOOLEAN, InQuery(k, an, ns, u)
       PROVE  OrderInv'
  BY <1>2, <1>14 DEF InQuery
<1>15. ASSUME \/ MdnsdShutdown \/ InReply \/ InProbed \/ StartOut \/ OutUnicast
              \/ OutBegin \/ OutNowEnd \/ OutPublishEnd \/ OutReturn
              \/ ProbePromote \/ ProbeAsk \/ ProbeAskEnd \/ ProbeClaim
              \/ ProbeClaimEnd \/ Tick \/ Crash \/ UNCHANGED vars
       PROVE  OrderInv'
  <2>1. older' = older /\ heap' = heap
    BY <1>15 DEF MdnsdShutdown, InReply, InProbed, StartOut, OutUnicast, OutBegin,
       OutNowEnd, OutPublishEnd, OutReturn, ProbePromote, ProbeAsk, ProbeAskEnd,
       ProbeClaim, ProbeClaimEnd, Tick, Crash, vars
  <2>2. QED BY <2>1, <1>2
<1>16. QED
  BY <1>5, <1>6, <1>7, <1>8, <1>10, <1>11, <1>12, <1>13, <1>14, <1>15
  DEF Next, Application, Network, Daemon, Rest

-----------------------------------------------------------------------------
\* The shared link stays acyclic

LEMMA PushKeepsAcyclic ==
  ASSUME NEW l \in Links, Acyclic(l), NEW h \in Rec \cup {Nil}, NEW r \in Rec,
         NEW k, IF OnList(l, h, r) THEN k = l ELSE k = [l EXCEPT ![r] = h]
  PROVE  Acyclic(k)
<1>1. CASE OnList(l, h, r)
  <2>1. k = l
    BY <1>1
  <2>2. QED BY <2>1
<1>2. CASE ~OnList(l, h, r)
  <2>1. k = [l EXCEPT ![r] = h]
    BY <1>2
  <2>2. QED BY <1>2, <2>1, PushAcyclic
<1>3. QED BY <1>1, <1>2

LEMMA RPublishAcyclic ==
  ASSUME TypeOK, NEW l \in Links, Acyclic(l), NEW u, NEW r \in Rec, RPublish(l, u, r)
  PROVE  Acyclic(list')
<1>1. a_publish \in Rec \cup {Nil}
  BY DEF TypeOK, ListTypes
<1>2. CASE list' = l
  BY <1>2
<1>3. CASE Push(l, a_publish, r)
  <2>1. IF OnList(l, a_publish, r) THEN list' = l ELSE list' = [l EXCEPT ![r] = a_publish]
    BY <1>3 DEF Push
  <2>2. QED BY <1>1, <2>1, PushKeepsAcyclic
<1>4. QED BY <1>2, <1>3 DEF RPublish

LEMMA RSendAcyclic ==
  ASSUME TypeOK, LinksAcyclic, NEW r \in Rec, RSend(r)
  PROVE  Acyclic(list')
<1>1. /\ list \in Links /\ Acyclic(list)
      /\ a_now \in Rec \cup {Nil} /\ a_pause \in Rec \cup {Nil}
  BY DEF TypeOK, ListTypes, Links, LinksAcyclic
<1>2. CASE list' = list
  BY <1>1, <1>2
<1>3. CASE Push(list, a_now, r)
  <2>1. IF OnList(list, a_now, r) THEN list' = list ELSE list' = [list EXCEPT ![r] = a_now]
    BY <1>3 DEF Push
  <2>2. QED BY <1>1, <2>1, PushKeepsAcyclic
<1>4. CASE Push(list, a_pause, r)
  <2>1. IF OnList(list, a_pause, r) THEN list' = list ELSE list' = [list EXCEPT ![r] = a_pause]
    BY <1>4 DEF Push
  <2>2. QED BY <1>1, <2>1, PushKeepsAcyclic
<1>5. QED BY <1>2, <1>3, <1>4 DEF RSend

LEMMA DelistAcyclic ==
  ASSUME TypeOK, LinksAcyclic, NEW r \in Rec, Delist(r)
  PROVE  Acyclic(list')
<1>1. list \in Links /\ Acyclic(list)
  BY DEF TypeOK, ListTypes, Links, LinksAcyclic
<1>2. CASE Probing(r)
  <2>1. ZapProbing(r)
    BY <1>2 DEF Delist
  <2>2. CASE list' = list
    BY <1>1, <2>2
  <2>3. ASSUME NEW p \in Rec, list[p] = r, list' = [list EXCEPT ![p] = list[r]]
        PROVE  Acyclic(list')
    BY <1>1, <2>3, SkipAcyclic
  <2>4. QED BY <2>1, <2>2, <2>3 DEF ZapProbing
<1>3. CASE ~Probing(r)
  <2>1. RSend(r)
    BY <1>3 DEF Delist
  <2>2. QED BY <2>1, RSendAcyclic
<1>4. QED BY <1>2, <1>3

\* mdnsd_shutdown links every live record to the next newer one.
LEMMA ShutdownAcyclic ==
  ASSUME TypeOK, OrderInv, LinksAcyclic, MdnsdShutdown
  PROVE  Acyclic(list')
<1>1. /\ \A r \in Rec \ Live : list'[r] = list[r]
      /\ \A r \in Live : list'[r] # Nil => list'[r] \in Live /\ r \in older[list'[r]]
  BY DEF MdnsdShutdown
<1> SUFFICES ASSUME NEW S \in SUBSET Rec, S # {}, \A x \in S : list'[x] \in S
             PROVE  FALSE
  BY DEF Acyclic
<1>2. CASE S \cap Live = {}
  <2>1. \A x \in S : list[x] \in S
    BY <1>1, <1>2
  <2>2. QED BY <2>1 DEF LinksAcyclic, Acyclic
<1>3. CASE S \cap Live # {}
  <2>1. S \cap Live \in SUBSET Created
    BY DEF Live, Created
  <2>2. PICK n \in S \cap Live : (S \cap Live) \ {n} \subseteq older[n]
    BY <1>3, <2>1 DEF OrderInv, IsNewest
  <2>3. list'[n] \in S \cap Live /\ n \in older[list'[n]]
    BY <1>1, <2>2, NilAssumption
  <2>4. n \in Rec /\ list'[n] \in Rec
    BY <2>2, <2>3
  <2>5. list'[n] \notin older[n] /\ list'[n] # n
    BY <2>3, <2>4 DEF OrderInv
  <2>6. QED BY <2>2, <2>3, <2>5
<1>4. QED BY <1>2, <1>3

\* The links ProbePromote hands to _r_publish.
LEMMA PromoteLinks ==
  ASSUME TypeOK, WalkInv, LinksAcyclic, ProbePromote,
         NEW k, k = [(IF probing = cur THEN list ELSE [list EXCEPT ![last] = list[cur]])
                      EXCEPT ![cur] = Nil]
  PROVE  k \in Links /\ Acyclic(k) /\ cur \in Rec /\ RPublish(k, 5, cur)
<1> DEFINE skipped == IF probing = cur THEN list ELSE [list EXCEPT ![last] = list[cur]]
<1>1. cur \in Rec /\ list \in Links /\ Acyclic(list) /\ last \in Rec \cup {Nil}
  BY DEF ProbePromote, TypeOK, ListTypes, LoopTypes, Links, LinksAcyclic
<1>2. RPublish(k, 5, cur)
  BY DEF ProbePromote
<1>3. skipped \in Links /\ Acyclic(skipped)
  <2>1. CASE probing = cur
    BY <1>1, <2>1
  <2>2. CASE probing # cur
    <3>1. last \in Rec /\ list[last] = cur
      BY <1>1, <2>2 DEF WalkInv, ProbePromote
    <3>2. skipped = [list EXCEPT ![last] = list[cur]]
      BY <2>2
    <3>3. Acyclic(skipped)
      BY <1>1, <3>1, <3>2, SkipAcyclic
    <3>4. skipped \in Links
      BY <1>1, <3>1, <3>2 DEF Links
    <3>5. QED BY <3>3, <3>4
  <2>3. QED BY <2>1, <2>2
<1>4. k = [skipped EXCEPT ![cur] = Nil]
  OBVIOUS
<1> HIDE DEF skipped
<1>5. Acyclic(k)
  <2>1. Acyclic([skipped EXCEPT ![cur] = Nil])
    BY <1>1, <1>3, ClearAcyclic
  <2>2. QED BY ONLY <1>4, <2>1
<1>6. k \in Links
  BY <1>1, <1>3, <1>4 DEF Links
<1>7. QED BY <1>1, <1>2, <1>5, <1>6

LEMMA AcyclicStep ==
  ASSUME TypeOK, OrderInv, LinksAcyclic, WalkInv, [Next]_vars
  PROVE  LinksAcyclic'
<1> USE DEF recordVars, heads, timers, walk, query, app, ghosts, daemonVars, others
<1> SUFFICES Acyclic(list')
  BY DEF LinksAcyclic, Acyclic
<1>0. list \in Links /\ Acyclic(list)
  BY DEF TypeOK, ListTypes, Links, LinksAcyclic
<1>1. CASE list' = list
  BY <1>0, <1>1
<1>2. ASSUME NEW r \in Rec, NEW k \in Key, MdnsdUnique(r, k) PROVE Acyclic(list')
  <2>1. IF OnList(list, probing, r) THEN list' = list ELSE list' = [list EXCEPT ![r] = probing]
    BY <1>2 DEF MdnsdUnique, Push
  <2>2. probing \in Rec \cup {Nil}
    BY DEF TypeOK, ListTypes
  <2>3. QED BY <1>0, <2>1, <2>2, PushKeepsAcyclic
<1>3. ASSUME NEW r \in Rec, NEW v \in Data, MdnsdSet(r, v) PROVE Acyclic(list')
  BY <1>0, <1>3, RPublishAcyclic DEF MdnsdSet
<1>4. ASSUME NEW r \in Rec, MdnsdDone(r) PROVE Acyclic(list')
  BY <1>4, DelistAcyclic DEF MdnsdDone
<1>5. CASE MdnsdShutdown
  BY <1>5, ShutdownAcyclic
<1>6. ASSUME NEW k \in Key, NEW v \in Data, InAnswer(k, v) PROVE Acyclic(list')
  <2> DEFINE r == NextMatch(Matches(k))
  <2>1. r \in Rec
    BY <1>6, NextMatchType DEF InAnswer, Matches, Live
  <2>2. Delist(r)
    BY <1>6 DEF InAnswer
  <2>3. QED BY <2>1, <2>2, DelistAcyclic
<1>7. CASE InReply
  <2>1. cur \in Rec
    BY <1>7 DEF InReply, WalkInv
  <2>2. QED BY <1>1, <1>7, <2>1, RSendAcyclic DEF InReply
<1>8. CASE InClash
  <2>1. cur \in Rec
    BY <1>8 DEF InClash, WalkInv
  <2>2. QED BY <1>8, <2>1, DelistAcyclic DEF InClash
<1>9. CASE OutPublish
  <2>1. CASE last # Nil
    <3>1. last \in Rec /\ list[last] = cur /\ cur \in Rec
      BY <1>9, <2>1 DEF OutPublish, WalkInv, TypeOK, LoopTypes
    <3>2. list' = list \/ list' = [list EXCEPT ![last] = list[cur]]
      BY <1>9 DEF OutPublish, Unlink
    <3>3. QED BY <1>0, <3>1, <3>2, SkipAcyclic
  <2>2. CASE last = Nil
    BY <1>1, <1>9, <2>2 DEF OutPublish, Unlink
  <2>3. QED BY <2>1, <2>2
<1>10. CASE ProbePromote
  <2> DEFINE k == [(IF probing = cur THEN list ELSE [list EXCEPT ![last] = list[cur]])
                     EXCEPT ![cur] = Nil]
  <2>1. k \in Links /\ Acyclic(k) /\ cur \in Rec /\ RPublish(k, 5, cur)
    BY <1>10, PromoteLinks
  <2> HIDE DEF k
  <2>2. QED BY <2>1, RPublishAcyclic
<1>11. ASSUME \/ \E r \in Rec, k \in Key : MdnsdShared(r, k)
              \/ \E k \in Key, an \in Section, ns \in Section, u \in BOOLEAN :
                   InQuery(k, an, ns, u)
              \/ InProbed \/ StartOut \/ OutUnicast \/ OutBegin \/ OutNow
              \/ OutNowEnd \/ OutPublishEnd \/ OutPause \/ OutReturn
              \/ ProbeAsk \/ ProbeAskEnd \/ ProbeClaim \/ ProbeClaimEnd
              \/ Tick \/ Crash \/ UNCHANGED vars
       PROVE  list' = list
  BY <1>11 DEF MdnsdShared, InQuery, InProbed, StartOut, OutUnicast, OutBegin, OutNow,
     ROut, OutNowEnd, OutPublishEnd, OutPause, OutReturn, ProbeAsk, ProbeAskEnd,
     ProbeClaim, ProbeClaimEnd, Tick, Crash, vars
<1>12. QED
  BY <1>1, <1>2, <1>3, <1>4, <1>5, <1>6, <1>7, <1>8, <1>9, <1>10, <1>11
  DEF Next, Application, Network, Daemon, Rest

-----------------------------------------------------------------------------
\* The walking pointers

\* A record keeps its place behind the head when only it and the record it links
\* to get new links: the way to it does not lead through what comes after it.
LEMMA SkipReach ==
  ASSUME NEW l \in Links, Acyclic(l), NEW h \in Rec \cup {Nil},
         NEW p \in Rec, NEW c \in Rec, OnList(l, h, p), l[p] = c,
         NEW k \in Links, \A x \in Rec \ {p, c} : k[x] = l[x]
  PROVE  OnList(k, h, p)
<1> SUFFICES ASSUME NEW C \in SUBSET Rec, h \in C,
                    \A x \in C : k[x] \in C \cup {Nil}, p \notin C
             PROVE  FALSE
  BY DEF OnList
<1> DEFINE D == C \cup {y \in Rec : OnList(l, c, y)}
<1>1. ASSUME NEW x \in D PROVE l[x] \in D \cup {Nil}
  <2>1. CASE x \in Rec /\ OnList(l, c, x)
    <3>1. l[x] = Nil \/ (l[x] \in Rec /\ OnList(l, c, l[x]))
      BY <2>1, OnListStep DEF Links
    <3>2. QED BY <3>1
  <2>2. CASE x = c
    <3>1. OnList(l, c, c)
      BY OnListHead
    <3>2. QED BY <2>1, <2>2, <3>1
  <2>3. CASE x \in C /\ x # c
    <3>1. x \in Rec \ {p, c}
      BY <2>3
    <3>2. k[x] = l[x] /\ k[x] \in C \cup {Nil}
      BY <2>3, <3>1
    <3>3. QED BY <3>2
  <2>4. QED BY <2>1, <2>2, <2>3
<1>2. p \in D
  <2>1. D \in SUBSET Rec /\ h \in D
    OBVIOUS
  <2>2. QED BY <1>1, <2>1 DEF OnList
<1>3. OnList(l, c, p)
  BY <1>2
<1>4. QED BY <1>3, NoReturn

LEMMA WalkStep ==
  ASSUME TypeOK, OrderInv, LinksAcyclic, WalkInv, [Next]_vars
  PROVE  WalkInv'
<1> USE DEF recordVars, heads, timers, walk, query, app, ghosts, daemonVars, others
<1>0. /\ list \in Links /\ Acyclic(list)
      /\ cur \in Rec \cup {Nil} /\ last \in Rec \cup {Nil} /\ probing \in Rec \cup {Nil}
  BY DEF TypeOK, ListTypes, LoopTypes, Links, LinksAcyclic
<1>1. ASSUME pc' \notin {"in", "out_publish", "probe_ask"} PROVE WalkInv'
  BY <1>1 DEF WalkInv
<1>2. ASSUME \/ \E r \in Rec, k \in Key : MdnsdShared(r, k) \/ MdnsdUnique(r, k)
             \/ \E r \in Rec, v \in Data : MdnsdSet(r, v)
             \/ \E r \in Rec : MdnsdDone(r)
             \/ MdnsdShutdown
             \/ \E k \in Key, v \in Data : InAnswer(k, v)
             \/ StartOut \/ OutUnicast \/ OutBegin \/ OutNow \/ OutPublishEnd
             \/ OutPause \/ ProbeAskEnd \/ ProbeClaim \/ ProbeClaimEnd \/ Tick
      PROVE  WalkInv'
  <2>1. pc' \notin {"in", "out_publish", "probe_ask"}
    BY <1>2 DEF MdnsdShared, MdnsdUnique, Create, AppMayCall, MdnsdSet, MdnsdDone,
       MdnsdShutdown, InAnswer, StartOut, OutUnicast, OutBegin, OutNow, ROut,
       OutPublishEnd, OutPause, ProbeAskEnd, ProbeClaim, ProbeClaimEnd, Tick
  <2>2. QED BY <1>1, <2>1
<1>3. ASSUME NEW k \in Key, NEW an \in Section, NEW ns \in Section,
             NEW u \in BOOLEAN, InQuery(k, an, ns, u)
      PROVE  WalkInv'
  <2> DEFINE r == NextMatch(Matches(k))
  <2>1. r \in Rec
    BY <1>3, NextMatchType DEF InQuery, Matches, Live
  <2>2. cur' = r /\ pc' = "in"
    BY <1>3 DEF InQuery
  <2>3. QED BY <2>1, <2>2 DEF WalkInv
<1>4. ASSUME pc = "in", Advance PROVE WalkInv'
  <2> DEFINE S == Matches(key[cur]) \cap older[cur]
  <2>1. NextMatch(S) \in Rec \cup {Nil}
    BY NextMatchType DEF Matches, Live
  <2>2. cur' = NextMatch(S) /\ pc' = IF cur' = Nil THEN "recv" ELSE "in"
    BY <1>4 DEF Advance
  <2>3. QED BY <2>1, <2>2 DEF WalkInv
<1>5. CASE InReply \/ InProbed
  BY <1>4, <1>5 DEF InReply, InProbed
<1>6. CASE InClash
  BY <1>6 DEF InClash, WalkInv
<1>7. CASE OutNowEnd
  BY <1>7 DEF OutNowEnd, WalkInv
<1>8. CASE OutPublish
  <2>1. pc' = "out_publish" /\ cur \in Rec /\ cur' = list[cur]
    BY <1>0, <1>8 DEF OutPublish
  <2>2. CASE Stays(cur)
    <3>1. last' = cur /\ list' = list
      BY <1>8, <2>2 DEF OutPublish
    <3>2. QED BY <2>1, <3>1 DEF WalkInv
  <2>3. CASE ~Stays(cur)
    <3>1. last' = last /\ (last # Nil => list' = [list EXCEPT ![last] = list[cur]])
      BY <1>8, <2>3 DEF OutPublish, Unlink
    <3>2. last # Nil => list'[last] = list[cur]
      BY <1>0, <3>1 DEF Links
    <3>3. QED BY <2>1, <3>1, <3>2 DEF WalkInv
  <2>4. QED BY <2>2, <2>3
<1>9. CASE OutReturn
  BY <1>9 DEF OutReturn, WalkInv
<1>10. CASE ProbeAsk
  <2>1. /\ pc' = "probe_ask" /\ cur \in Rec
        /\ last' = cur /\ cur' = list[cur] /\ list' = list /\ probing' = probing
    BY <1>0, <1>10 DEF ProbeAsk
  <2>2. OnList(list, probing, cur)
    <3>1. CASE last = Nil
      <4>1. cur = probing
        BY <1>10, <3>1 DEF ProbeAsk, WalkInv
      <4>2. QED BY <1>0, <2>1, <4>1, OnListHead
    <3>2. CASE last # Nil
      <4>1. OnList(list, probing, last) /\ list[last] = cur /\ last \in Rec
        BY <1>0, <1>10, <3>2 DEF ProbeAsk, WalkInv
      <4>2. QED BY <1>0, <2>1, <4>1, NilAssumption, OnListStep
    <3>3. QED BY <3>1, <3>2
  <2>3. OnList(list', probing', last') /\ list'[last'] = cur' /\ last' # Nil
    BY <2>1, <2>2, NilAssumption
  <2>4. QED BY <2>1, <2>3 DEF WalkInv
<1>11. CASE ProbePromote
  <2> DEFINE k == [(IF probing = cur THEN list ELSE [list EXCEPT ![last] = list[cur]])
                     EXCEPT ![cur] = Nil]
  <2>1. k \in Links /\ Acyclic(k) /\ cur \in Rec /\ RPublish(k, 5, cur)
    BY <1>11, PromoteLinks
  <2>2. /\ pc' = "probe_ask" /\ pc = "probe_ask" /\ cur' = list[cur] /\ last' = last
        /\ probing' = IF probing = cur THEN list[cur] ELSE probing
    BY <1>11 DEF ProbePromote
  <2>3. CASE last = Nil
    <3>1. cur = probing
      BY <2>2, <2>3 DEF WalkInv
    <3>2. QED BY <2>2, <2>3, <3>1 DEF WalkInv
  <2>4. CASE last # Nil
    <3>1. last \in Rec /\ list[last] = cur /\ OnList(list, probing, last)
      BY <1>0, <2>2, <2>4 DEF WalkInv
    <3>2. probing # cur
      BY <1>0, <2>1, <3>1, NoReturn
    <3>3. last # cur
      BY <1>0, <2>1, <3>1, OnListHead, NoReturn
    <3>4. k = [[list EXCEPT ![last] = list[cur]] EXCEPT ![cur] = Nil]
      BY <3>2
    <3>5. k[last] = list[cur] /\ \A x \in Rec \ {last, cur} : k[x] = list[x]
      BY <1>0, <2>1, <3>1, <3>3, <3>4 DEF Links
    <3> HIDE DEF k
    <3>6. list' \in Links
      BY <2>1, RPublishType
    <3>7. list' = k \/ \E h : list' = [k EXCEPT ![cur] = h]
      BY <2>1 DEF RPublish, Push
    <3>8. list'[last] = list[cur] /\ \A x \in Rec \ {last, cur} : list'[x] = list[x]
      BY <2>1, <3>1, <3>3, <3>5, <3>7 DEF Links
    <3>9. OnList(list', probing, last)
      BY <1>0, <2>1, <3>1, <3>6, <3>8, SkipReach
    <3>10. probing' = probing
      BY <2>2, <3>2
    <3>11. QED BY <2>2, <2>4, <3>8, <3>9, <3>10 DEF WalkInv
  <2>5. QED BY <2>3, <2>4
<1>12. CASE Crash \/ UNCHANGED vars
  <2>1. UNCHANGED <<pc, cur, last, list, probing>>
    BY <1>12 DEF Crash, vars
  <2>2. OnList(list', probing', last') <=> OnList(list, probing, last)
    BY <2>1
  <2>3. list'[last'] = cur' <=> list[last] = cur
    BY <2>1
  <2>4. (pc = "in" => cur \in Rec) => (pc' = "in" => cur' \in Rec)
    BY <2>1
  <2>5. QED BY <2>1, <2>2, <2>3, <2>4 DEF WalkInv
<1>13. QED
  BY <1>2, <1>3, <1>5, <1>6, <1>7, <1>8, <1>9, <1>10, <1>11, <1>12
  DEF Next, Application, Network, Daemon, Rest

-----------------------------------------------------------------------------
\* The theorems

LEMMA InitIInv == Init => IInv
<1> SUFFICES ASSUME Init PROVE IInv
  OBVIOUS
<1>1. TypeOK
  <2>1. (CHOOSE k \in Key : TRUE) \in Key
    BY KeyAssumption
  <2>2. RecordTypes
    BY <2>1 DEF Init, RecordTypes
  <2>3. uanswers \in Seq(Rec)
    BY DEF Init
  <2>4. ListTypes
    BY <2>3 DEF Init, ListTypes
  <2>5. 0 \in 0..Frame
    BY FrameAssumption
  <2>6. LoopTypes
    BY <2>5 DEF Init, LoopTypes
  <2>7. OutsideTypes
    BY DEF Init, OutsideTypes
  <2>8. QED BY <2>2, <2>4, <2>6, <2>7 DEF TypeOK
<1>2. OrderInv
  <2>1. Created = {} /\ \A x \in Rec : older[x] = {}
    BY DEF Init, Created
  <2>2. QED BY <2>1 DEF OrderInv
<1>3. LinksAcyclic
  BY NilAssumption DEF Init, LinksAcyclic, Acyclic
<1>4. WalkInv
  BY DEF Init, WalkInv
<1>5. QED BY <1>1, <1>2, <1>3, <1>4 DEF IInv

\* The inductive invariant holds in every reachable state.
THEOREM Inductive == Spec => []IInv
<1>1. IInv /\ [Next]_vars => IInv'
  BY TypeStep, OrderStep, AcyclicStep, WalkStep DEF IInv
<1>2. QED BY InitIInv, <1>1, PTL DEF Spec

\* Every variable of the publishing half keeps its type, whatever the
\* application, the peers and the moment of the shutdown.
THEOREM TypeCorrect == Spec => []TypeOK
<1>1. IInv => TypeOK
  BY DEF IInv
<1>2. QED BY Inductive, <1>1, PTL

\* The one link that the four lists of mdnsd.c share never closes into a cycle,
\* not even when a record is put on a second list, is freed while it is on one,
\* or is moved by mdnsd_shutdown: every walk of a list ends.
THEOREM WalksEnd == Spec => []LinksAcyclic
<1>1. IInv => LinksAcyclic
  BY DEF IInv
<1>2. QED BY Inductive, <1>1, PTL

=============================================================================
