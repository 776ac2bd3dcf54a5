------------------------- MODULE MdnsdQueriesProofs -------------------------
(***************************************************************************)
(* Proofs about MdnsdQueries, for every set of keys, data and ttls, every  *)
(* assignment of keys to the chains of the cache and any number of inputs. *)
(* Three need no assumption about the peers: the types, the links between  *)
(* answers and queries, and the wake-up time of the daemon.  The theorems  *)
(* about what the application is told state in their hypotheses which of   *)
(* the hard inputs of Env must not happen.                                 *)
(*                                                                         *)
(* AskInv carries them.  CachedIsTold rests on OneCopy besides, the        *)
(* timing of the retries on SoonInv and TimelyInv.  That each query is     *)
(* MdnsdAnswers is shown from what one sweep of the cache, and one answer, *)
(* are for a single key (EndsOne).                                         *)
(***************************************************************************)
EXTENDS MdnsdQueries, Numbers

\* What an answer is linked to depends on its fields alone.
CacheInv == cache \subseteq Cached
LinkInv == CacheInv /\ LinkedToLive

\* Linked(C, S): the answers in C point to the queries in S, and only those.
Linked(C, S) == \A c \in C : c \in Cached /\ (c.q <=> c.key \in S)

LEMMA LinkedAll == LinkInv <=> Linked(cache, queries)
  BY DEF LinkInv, CacheInv, LinkedToLive, Linked

\* Setting or clearing c->q.
LEMMA Relinked ==
  ASSUME NEW c \in Cached, NEW b \in BOOLEAN
  PROVE  /\ Relink(c, b) \in Cached /\ Relink(c, b).q = b /\ Relink(c, b).key = c.key
         /\ Relink(c, b).data = c.data /\ Relink(c, b).left = c.left
  BY DEF Cached, Relink

\* _q_done: when some queries are gone, their answers no longer point to them.
LEMMA UnlinkLinked ==
  ASSUME NEW C, NEW S, NEW gone, Linked(C, S)
  PROVE  Linked(Unlink(C, gone), S \ gone)
<1> SUFFICES ASSUME NEW c \in C
             PROVE  LET d == Relink(c, c.q /\ c.key \notin gone)
                    IN d \in Cached /\ (d.q <=> d.key \in S \ gone)
  BY DEF Linked, Unlink
<1>1. c \in Cached /\ (c.q <=> c.key \in S)
  BY DEF Linked
<1> DEFINE b == c.q /\ c.key \notin gone
<1>2. b <=> c.key \in S \ gone
  BY <1>1
<1>3. b \in BOOLEAN
  OBVIOUS
<1>4. Relink(c, b) \in Cached /\ Relink(c, b).q = b /\ Relink(c, b).key = c.key
  <2> HIDE DEF b
  <2> QED BY <1>1, <1>3, Relinked
<1>5. QED BY <1>2, <1>4

LEMMA LinkedSubset ==
  ASSUME NEW C, NEW D, NEW S, Linked(C, S), D \subseteq C
  PROVE  Linked(D, S)
  BY DEF Linked

LEMMA QueryLinks ==
  ASSUME LinkInv, NEW k \in Key, MdnsdQuery(k)
  PROVE  LinkInv'
<1>1. Linked(cache, queries)
  BY LinkedAll
<1>2. queries' = queries \cup {k}
      /\ cache' = {Relink(c, c.q \/ c.key = k) : c \in cache}
  BY DEF MdnsdQuery
<1>3. Linked(cache', queries')
  <2> SUFFICES ASSUME NEW c \in cache
               PROVE  LET d == Relink(c, c.q \/ c.key = k)
                      IN d \in Cached /\ (d.q <=> d.key \in queries \cup {k})
    BY <1>2 DEF Linked
  <2>1. c \in Cached /\ (c.q <=> c.key \in queries)
    BY <1>1 DEF Linked
  <2> DEFINE b == c.q \/ c.key = k
  <2>2. b <=> c.key \in queries \cup {k}
    BY <2>1
  <2>3. b \in BOOLEAN
    OBVIOUS
  <2>4. Relink(c, b) \in Cached /\ Relink(c, b).q = b /\ Relink(c, b).key = c.key
    <3> HIDE DEF b
    <3> QED BY <2>1, <2>3, Relinked
  <2>5. QED BY <2>2, <2>4
<1>4. QED BY <1>3 DEF LinkInv, CacheInv, LinkedToLive, Linked

LEMMA ForgetLinks ==
  ASSUME LinkInv, NEW k \in Key, MdnsdForget(k)
  PROVE  LinkInv'
<1>1. Linked(Unlink(cache, {k}), queries \ {k})
  BY LinkedAll, UnlinkLinked
<1>2. QED BY <1>1 DEF MdnsdForget, LinkInv, CacheInv, LinkedToLive, Linked

LEMMA CacheLinks ==
  ASSUME LinkInv, NEW k \in Key, NEW v \in Data, NEW t \in Ttl \cup {0},
         Cache(k, v, t)
  PROVE  LinkInv'
<1> DEFINE swept == Swept(k, v, t)
           q(refuse) == k \in queries \ refuse
           new(refuse) ==
             IF t = 0 THEN {}
             ELSE {[key |-> k, data |-> v, left |-> Lasts(t), q |-> q(refuse)]}
<1>1. PICK refuse \in SUBSET Hears(swept), enough \in BOOLEAN :
        LET gone == refuse \cup IF enough /\ q(refuse) /\ t > 0 THEN {k} ELSE {} IN
        /\ queries' = queries \ gone
        /\ cache' = Unlink((cache \ swept) \cup new(refuse), gone)
  BY DEF Cache
<1> DEFINE gone == refuse \cup IF enough /\ q(refuse) /\ t > 0 THEN {k} ELSE {}
           C == (cache \ swept) \cup new(refuse)
<1>2. t \in Nat
  BY TimeAssumption
<1>3. Lasts(t) \in Int
  BY <1>2 DEF Lasts
<1>4. Linked(Unlink(C, gone), queries \ gone)
  \* Before the unlinking, the new answer points to a query only if its key
  \* still had one after the expiry; the queries refused there are in gone.
  <2> SUFFICES ASSUME NEW c \in C
               PROVE  LET d == Relink(c, c.q /\ c.key \notin gone)
                      IN d \in Cached /\ (d.q <=> d.key \in queries \ gone)
    BY DEF Linked, Unlink
  <2> DEFINE b == c.q /\ c.key \notin gone
  <2>1. c \in Cached /\ (b <=> c.key \in queries \ gone)
    <3>1. CASE c \in cache
      BY <3>1 DEF LinkInv, CacheInv, LinkedToLive
    <3>2. CASE c \in new(refuse)
      <4>1. t # 0 /\ c = [key |-> k, data |-> v, left |-> Lasts(t), q |-> q(refuse)]
        BY <3>2
      <4>2. c \in Cached
        BY <1>3, <4>1 DEF Cached
      <4>3. c.key = k /\ (c.q <=> k \in queries /\ k \notin refuse)
        BY <4>1
      <4>4. refuse \subseteq gone
        OBVIOUS
      <4> HIDE DEF gone, q
      <4>5. QED BY <4>2, <4>3, <4>4
    <3>3. QED BY <3>1, <3>2
  <2>2. b \in BOOLEAN
    OBVIOUS
  <2>3. Relink(c, b) \in Cached /\ Relink(c, b).q = b /\ Relink(c, b).key = c.key
    <3> HIDE DEF b
    <3> QED BY <2>1, <2>2, Relinked
  <2>4. QED BY <2>1, <2>3
<1>5. QED BY <1>1, <1>4 DEF LinkInv, CacheInv, LinkedToLive, Linked

LEMMA OutLinks == ASSUME LinkInv, MdnsdOut PROVE LinkInv'
<1>1. PICK gone \in SUBSET Hears(OutSwept) :
        queries' = queries \ gone /\ cache' = Unlink(cache \ OutSwept, gone)
  BY DEF MdnsdOut
<1>2. Linked(cache \ OutSwept, queries)
  BY LinkedAll, LinkedSubset
<1>3. Linked(Unlink(cache \ OutSwept, gone), queries \ gone)
  BY <1>2, UnlinkLinked
<1>4. QED BY <1>1, <1>3 DEF LinkInv, CacheInv, LinkedToLive, Linked

LEMMA TickLinks == ASSUME LinkInv, Tick PROVE LinkInv'
<1>1. queries' = queries
      /\ cache' = {[c EXCEPT !.left = AtLeast(Floor, @ - 1)] : c \in cache}
  BY DEF Tick
<1>2. Linked(cache', queries')
  <2> SUFFICES ASSUME NEW c \in cache
               PROVE  LET d == [c EXCEPT !.left = AtLeast(Floor, c.left - 1)]
                      IN d \in Cached /\ (d.q <=> d.key \in queries)
    BY <1>1 DEF Linked
  <2>1. c \in Cached /\ (c.q <=> c.key \in queries)
    BY DEF LinkInv, CacheInv, LinkedToLive
  <2>2. AtLeast(Floor, c.left - 1) \in Int
    BY <2>1 DEF Cached, AtLeast, Floor
  <2>3. QED BY <2>1, <2>2 DEF Cached
<1>3. QED BY <1>2 DEF LinkInv, CacheInv, LinkedToLive, Linked

LEMMA LinkStep ==
  ASSUME LinkInv, [Next]_vars
  PROVE  LinkInv'
<1>1. CASE UNCHANGED vars
  BY <1>1 DEF vars, asking, LinkInv, CacheInv, LinkedToLive
<1>2. CASE Next
  BY <1>1, <1>2, QueryLinks, ForgetLinks, CacheLinks, OutLinks, TickLinks
  DEF Next
<1>3. QED BY <1>1, <1>2

-----------------------------------------------------------------------------
\* The fields of the steps, key by key

\* c and d are the same answer, but for the query they point to.
Same(c, d) == c.key = d.key /\ c.data = d.data /\ c.left = d.left

\* Unlinking loses no answer and makes none up.
LEMMA Unlinked ==
  ASSUME NEW C \in SUBSET Cached, NEW gone
  PROVE  /\ \A d \in Unlink(C, gone) : \E c \in C : Same(c, d)
         /\ \A c \in C : \E d \in Unlink(C, gone) : Same(c, d)
<1>1. ASSUME NEW c \in C PROVE Same(c, Relink(c, c.q /\ c.key \notin gone))
  <2> DEFINE b == c.q /\ c.key \notin gone
  <2>1. b \in BOOLEAN
    OBVIOUS
  <2> HIDE DEF b
  <2>2. Same(c, Relink(c, b))
    BY <2>1, Relinked DEF Same
  <2>3. QED BY <2>2 DEF b
<1>2. QED BY <1>1 DEF Unlink

\* The least of a set of times, or none.
LEMMA SoonestLeast ==
  ASSUME NEW S \in SUBSET Nat
  PROVE  /\ S = {} => Soonest(S) = Never
         /\ S # {} => Soonest(S) \in S /\ Soonest(S) # Never
         /\ \A x \in S : Soonest(S) <= x
<1>1. CASE S = {}
  BY <1>1 DEF Soonest
<1>2. CASE S # {}
  <2>1. \E x \in S : \A y \in S : x <= y
    BY <1>2, LeastNatural
  <2>2. MinOf(S) \in S /\ \A y \in S : MinOf(S) <= y
    BY <2>1 DEF MinOf
  <2>3. QED BY <1>2, <2>2, TimeAssumption DEF Soonest
<1>3. QED BY <1>1, <1>2

\* _q_reset: 7 seconds before the first answer ends, or at once.
LEMMA RetryTimes ==
  ASSUME NEW k \in Key, NEW C \in SUBSET Cached
  PROVE  /\ Retry(k, C) \in Nat \cup {Never}
         /\ \A c \in C : c.key = k => /\ Retry(k, C) \in Nat
                                      /\ Retry(k, C) <= AtLeast(0, c.left - 7)
<1> DEFINE S == {AtLeast(0, c.left - 7) : c \in {x \in C : x.key = k}}
<1>1. \A c \in C : AtLeast(0, c.left - 7) \in Nat
  BY DEF AtLeast, Cached
<1>2. S \in SUBSET Nat /\ \A c \in C : c.key = k => AtLeast(0, c.left - 7) \in S
  BY <1>1
<1>3. Retry(k, C) = Soonest(S)
  BY DEF Retry
<1> HIDE DEF S
<1>4. Soonest(S) \in Nat \cup {Never} /\ \A x \in S : Soonest(S) \in Nat /\ Soonest(S) <= x
  BY <1>2, SoonestLeast
<1>5. QED BY <1>2, <1>3, <1>4

\* mdnsd_out, key by key: gone are the queries that refused an expired answer,
\* walked those that were asked and were still there for it.
OutChanges(gone, walked) ==
  /\ gone \subseteq Hears(OutSwept) /\ Asked \ gone \subseteq walked /\ walked \subseteq Asked
  /\ queries' = queries \ gone
  /\ cache' = Unlink(cache \ OutSwept, gone)
  /\ Tells(OutSwept, {}, gone)
  /\ \A k \in Key :
       /\ k \in gone => tries'[k] = 0 /\ nexttry'[k] = Never
       /\ k \in Asked \ gone => tries'[k] = tries[k] + 1 /\ nexttry'[k] = tries[k] + 1
       /\ k \in Spent \ gone => tries'[k] = 0 /\ nexttry'[k] = Retry(k, cache \ OutSwept)
       /\ k \notin gone \cup Asked \cup Spent => tries'[k] = tries[k] /\ nexttry'[k] = nexttry[k]
  /\ tries' = [k \in Key |-> tries'[k]] /\ nexttry' = [k \in Key |-> nexttry'[k]]
  /\ checkqlist' = IF checkqlist = 0 THEN NextBest(walked) ELSE checkqlist
  /\ expireall' = IF expireall = 0 THEN NextSweep ELSE expireall

LEMMA OutIs ==
  ASSUME MdnsdOut
  PROVE  \E gone, walked : OutChanges(gone, walked)
<1>1. PICK gone, missed :
        /\ gone \subseteq Hears(OutSwept) /\ missed \subseteq Asked \cap gone
        /\ queries' = queries \ gone
        /\ cache' = Unlink(cache \ OutSwept, gone)
        /\ Tells(OutSwept, {}, gone)
        /\ tries' = [k \in Key |-> IF k \in gone THEN 0 ELSE
                       IF k \in Asked THEN tries[k] + 1
                       ELSE IF k \in Spent THEN 0 ELSE tries[k]]
        /\ nexttry' = [k \in Key |-> IF k \in gone THEN Never ELSE
                         IF k \in Asked THEN tries[k] + 1
                         ELSE IF k \in Spent THEN Retry(k, cache \ OutSwept) ELSE nexttry[k]]
        /\ checkqlist' = IF checkqlist = 0 THEN NextBest(Asked \ missed) ELSE checkqlist
        /\ expireall' = IF expireall = 0 THEN NextSweep ELSE expireall
  BY DEF MdnsdOut, Kept
<1>2. \A k \in Spent : k \notin Asked
  BY DEF Spent
<1>3. OutChanges(gone, Asked \ missed)
  BY <1>1, <1>2 DEF OutChanges
<1>4. QED BY <1>3

\* One resource of a response: what was swept is over, new is the answer cached.
CacheChanges(k, v, t, new, gone) ==
  /\ new = {} \/ \E c \in Cached : new = {c} /\ c.key = k /\ c.data = v /\ c.left = Lasts(t)
  /\ new = {} <=> t = 0
  /\ gone \subseteq Hears(Swept(k, v, t)) \cup {c.key : c \in new}
  /\ queries' = queries \ gone
  /\ cache' = Unlink((cache \ Swept(k, v, t)) \cup new, gone)
  /\ Tells(Swept(k, v, t), new, gone)
  /\ tries' = [x \in Key |-> IF x \in gone THEN 0 ELSE tries[x]]
  /\ nexttry' = [x \in Key |-> IF x \in gone THEN Never ELSE nexttry[x]]
  /\ UNCHANGED <<checkqlist, expireall>>
  /\ t > 0 /\ k \in Shared /\ Copies(k, v) # {} => "repeat" \in Env
  /\ t > 0 /\ k \in queries /\ nexttry[k] = Never => "late" \in Env
  /\ t > 0 /\ k \in queries /\ nexttry[k] # Never /\ nexttry[k] >= Lasts(t) => "short" \in Env

LEMMA CacheIs ==
  ASSUME NEW k \in Key, NEW v \in Data, NEW t \in Ttl \cup {0}, Cache(k, v, t)
  PROVE  \E new, gone : CacheChanges(k, v, t, new, gone)
<1> DEFINE swept == Swept(k, v, t)
           q(refuse) == k \in queries \ refuse
           new(refuse) == IF t = 0 THEN {}
                          ELSE {[key |-> k, data |-> v, left |-> Lasts(t), q |-> q(refuse)]}
           gone(refuse, enough) == refuse \cup IF enough /\ q(refuse) /\ t > 0 THEN {k} ELSE {}
<1>1. PICK refuse \in SUBSET Hears(swept), enough \in BOOLEAN :
        /\ queries' = queries \ gone(refuse, enough)
        /\ cache' = Unlink((cache \ swept) \cup new(refuse), gone(refuse, enough))
        /\ Tells(swept, new(refuse), gone(refuse, enough))
        /\ tries' = Kept(tries, 0, gone(refuse, enough))
        /\ nexttry' = Kept(nexttry, Never, gone(refuse, enough))
  BY DEF Cache
<1>2. /\ UNCHANGED <<checkqlist, expireall>>
      /\ t > 0 /\ k \in Shared /\ Copies(k, v) # {} => "repeat" \in Env
      /\ t > 0 /\ k \in queries /\ nexttry[k] = Never => "late" \in Env
      /\ t > 0 /\ k \in queries /\ nexttry[k] # Never /\ nexttry[k] >= Lasts(t) => "short" \in Env
  BY DEF Cache
<1>3. new(refuse) = {} \/ \E c \in Cached : new(refuse) = {c} /\ c.key = k /\ c.data = v /\ c.left = Lasts(t)
  <2>1. CASE t = 0
    BY <2>1
  <2>2. CASE t # 0
    <3> DEFINE b == q(refuse)
    <3>1. b \in BOOLEAN /\ Lasts(t) \in Int
      BY TimeAssumption DEF Lasts
    <3> HIDE DEF b
    <3> DEFINE c == [key |-> k, data |-> v, left |-> Lasts(t), q |-> b]
    <3>2. c \in Cached /\ c.key = k /\ c.data = v /\ c.left = Lasts(t)
      BY <3>1 DEF Cached
    <3>3. new(refuse) = {c}
      BY <2>2 DEF b
    <3>4. QED BY <3>2, <3>3
  <2>3. QED BY <2>1, <2>2
<1>4. new(refuse) = {} <=> t = 0
  OBVIOUS
<1>5. gone(refuse, enough) \subseteq Hears(swept) \cup {c.key : c \in new(refuse)}
  <2>1. t > 0 => k \in {c.key : c \in new(refuse)}
    <3>1. t > 0 => \E c \in new(refuse) : c.key = k
      BY <1>3, <1>4, TimeAssumption
    <3> HIDE DEF new
    <3>2. QED BY <3>1
  <2> HIDE DEF new
  <2>2. QED BY <1>1, <2>1
<1> HIDE DEF new, gone
<1>6. CacheChanges(k, v, t, new(refuse), gone(refuse, enough))
  BY <1>1, <1>2, <1>3, <1>4, <1>5 DEF CacheChanges, Kept
<1>7. QED BY <1>6

\* A second: every answer is that much nearer to its end.
LEMMA TickIs ==
  ASSUME cache \subseteq Cached, Tick
  PROVE  /\ \A d \in cache' : \E c \in cache : /\ c.key = d.key /\ c.data = d.data
                                               /\ d.left = AtLeast(Floor, c.left - 1)
         /\ \A c \in cache : \E d \in cache' : /\ c.key = d.key /\ c.data = d.data
                                               /\ d.left = AtLeast(Floor, c.left - 1)
<1>1. cache' = {[c EXCEPT !.left = AtLeast(Floor, c.left - 1)] : c \in cache}
  BY DEF Tick
<1>2. ASSUME NEW c \in cache
      PROVE  LET d == [c EXCEPT !.left = AtLeast(Floor, c.left - 1)] IN
             c.key = d.key /\ c.data = d.data /\ d.left = AtLeast(Floor, c.left - 1)
  BY DEF Cached
<1>3. ASSUME NEW c \in cache
      PROVE  \E d \in cache' : /\ c.key = d.key /\ c.data = d.data
                               /\ d.left = AtLeast(Floor, c.left - 1)
  BY <1>1, <1>2
<1>4. ASSUME NEW d \in cache'
      PROVE  \E c \in cache : /\ c.key = d.key /\ c.data = d.data
                              /\ d.left = AtLeast(Floor, c.left - 1)
  <2>1. PICK c \in cache : d = [c EXCEPT !.left = AtLeast(Floor, c.left - 1)]
    BY <1>1
  <2>2. QED BY <1>2, <2>1
<1>5. QED BY <1>3, <1>4

-----------------------------------------------------------------------------
\* Types, and the time the daemon wakes at

LEMMA TellsTypes ==
  ASSUME told \in [Key -> SUBSET Data], NEW E, NEW new, NEW gone,
         \A c \in new : c.data \in Data, Tells(E, new, gone)
  PROVE  told' \in [Key -> SUBSET Data]
BY DEF Tells

LEMMA TypesStep ==
  ASSUME TypeOK, LinkInv, [Next]_vars
  PROVE  TypeOK'
<1>0. cache' \subseteq Cached
  BY LinkStep DEF LinkInv, CacheInv
<1>1. ASSUME NEW k \in Key, MdnsdQuery(k) PROVE TypeOK'
  <2>1. told' \in [Key -> SUBSET Data]
    BY <1>1 DEF MdnsdQuery, TypeOK, Cached, OfKey
  <2>2. tries' \in [Key -> 0..3] /\ nexttry' \in [Key -> Nat \cup {Never}]
    BY <1>1 DEF MdnsdQuery, TypeOK
  <2>3. QED BY <1>0, <1>1, <2>1, <2>2 DEF MdnsdQuery, TypeOK, Event
<1>2. ASSUME NEW k \in Key, MdnsdForget(k) PROVE TypeOK'
  <2>1. fault' \in {"none", "stale", "slot"}
    BY <1>2 DEF MdnsdForget, Outcome
  <2>2. tries' \in [Key -> 0..3]
    BY <1>2 DEF MdnsdForget, TypeOK, Kept
  <2>3. nexttry' \in [Key -> Nat \cup {Never}]
    BY <1>2 DEF MdnsdForget, TypeOK, Kept
  <2>4. told' \in [Key -> SUBSET Data]
    BY <1>2 DEF MdnsdForget, TypeOK
  <2>5. queries' \subseteq Key /\ checkqlist' \in Nat \cup {Never} /\ expireall' \in Nat
        /\ events' \in Nat
    BY <1>2 DEF MdnsdForget, TypeOK, Kept
  <2>6. QED BY <1>0, <2>1, <2>2, <2>3, <2>4, <2>5 DEF TypeOK
<1>3. ASSUME NEW k \in Key, NEW v \in Data, NEW t \in Ttl \cup {0}, Cache(k, v, t)
      PROVE  TypeOK'
  <2>1. PICK new, gone : CacheChanges(k, v, t, new, gone)
    BY <1>3, CacheIs
  <2>2. told' \in [Key -> SUBSET Data]
    BY <2>1, TellsTypes DEF CacheChanges, TypeOK
  <2>3. events' \in Nat /\ fault' \in {"none", "stale", "slot"}
    BY <1>3 DEF Cache, Event, Outcome, TypeOK
  <2>4. queries' \subseteq Key /\ checkqlist' \in Nat \cup {Never} /\ expireall' \in Nat
    BY <2>1 DEF CacheChanges, TypeOK
  <2>5. tries' \in [Key -> 0..3]
    BY <2>1 DEF CacheChanges, TypeOK
  <2>6. nexttry' \in [Key -> Nat \cup {Never}]
    BY <2>1 DEF CacheChanges, TypeOK
  <2>7. QED BY <1>0, <2>2, <2>3, <2>4, <2>5, <2>6 DEF TypeOK
<1>4. ASSUME MdnsdOut PROVE TypeOK'
  <2>1. PICK gone, walked : OutChanges(gone, walked)
    BY <1>4, OutIs
  <2>2. told' \in [Key -> SUBSET Data]
    BY <2>1, TellsTypes DEF OutChanges, TypeOK
  <2>3. events' \in Nat /\ fault' \in {"none", "stale", "slot"}
    BY <1>4 DEF MdnsdOut, Outcome, TypeOK
  <2>4. Asked \subseteq queries /\ \A k \in Asked : tries[k] < 3
    BY DEF Asked, Due, MoreTries
  <2>5. \A k \in Key : Retry(k, cache \ OutSwept) \in Nat \cup {Never}
    BY RetryTimes DEF TypeOK
  <2>6. \A k \in Key : tries'[k] \in 0..3 /\ nexttry'[k] \in Nat \cup {Never}
    <3> TAKE k \in Key
    <3>1. tries[k] \in 0..3 /\ nexttry[k] \in Nat \cup {Never}
      BY DEF TypeOK
    <3>2. QED BY <2>1, <2>4, <2>5, <3>1 DEF OutChanges
  <2>7. NextBest(walked) \in Nat \cup {Never}
    <3> DEFINE S == {nexttry[k] : k \in {x \in queries \ Asked : nexttry[x] # Never}}
                      \cup {tries[k] + 1 : k \in walked}
    <3>1. S \in SUBSET Nat
      BY <2>1, <2>4 DEF OutChanges, TypeOK
    <3>2. NextBest(walked) = Soonest(S)
      BY DEF NextBest
    <3> HIDE DEF S
    <3>3. QED BY <3>1, <3>2, SoonestLeast
  <2>8. expireall' \in Nat /\ checkqlist' \in Nat \cup {Never}
    BY <2>1, <2>7, TimeAssumption DEF OutChanges, NextSweep, TypeOK
  <2>9. tries' \in [Key -> 0..3] /\ nexttry' \in [Key -> Nat \cup {Never}]
    BY <2>1, <2>6 DEF OutChanges
  <2>10. QED BY <1>0, <2>1, <2>2, <2>3, <2>8, <2>9 DEF OutChanges, TypeOK
<1>5. ASSUME Tick PROVE TypeOK'
  <2>1. \A t \in Nat \cup {Never} : Less(t) \in Nat \cup {Never}
    BY DEF Less, AtLeast
  <2>2. \A t \in Nat : Less(t) \in Nat
    BY TimeAssumption DEF Less, AtLeast
  <2>3. QED BY <1>0, <1>5, <2>1, <2>2 DEF Tick, TypeOK
<1>6. ASSUME UNCHANGED vars PROVE TypeOK'
  BY <1>6 DEF vars, asking, TypeOK
<1>7. QED BY <1>1, <1>2, <1>3, <1>4, <1>5, <1>6 DEF Next

LEMMA CoversStep ==
  ASSUME TypeOK, CheckqlistCovers, [Next]_vars
  PROVE  CheckqlistCovers'
<1>0. /\ nexttry \in [Key -> Nat \cup {Never}] /\ tries \in [Key -> 0..3]
      /\ checkqlist \in Nat \cup {Never} /\ queries \subseteq Key
  BY DEF TypeOK
<1>1. ASSUME NEW k \in Key, MdnsdQuery(k) PROVE CheckqlistCovers'
  <2>1. checkqlist' = 0 /\ queries' \subseteq Key /\ nexttry' \in [Key -> Nat \cup {Never}]
    BY <1>0, <1>1 DEF MdnsdQuery
  <2>2. QED BY <2>1, TimeAssumption DEF CheckqlistCovers
<1>2. ASSUME NEW gone, queries' = queries \ gone, checkqlist' = checkqlist,
             \A k \in Key \ gone : nexttry'[k] = nexttry[k]
      PROVE  CheckqlistCovers'
  BY <1>0, <1>2 DEF CheckqlistCovers
<1>3. ASSUME NEW k \in Key, MdnsdForget(k) PROVE CheckqlistCovers'
  BY <1>2, <1>3 DEF MdnsdForget, Kept
<1>4. ASSUME NEW k \in Key, NEW v \in Data, NEW t \in Ttl \cup {0}, Cache(k, v, t)
      PROVE  CheckqlistCovers'
  <2>1. PICK new, gone : CacheChanges(k, v, t, new, gone)
    BY <1>4, CacheIs
  <2>2. QED BY <1>2, <2>1 DEF CacheChanges
<1>5. ASSUME MdnsdOut PROVE CheckqlistCovers'
  <2>1. PICK gone, walked : OutChanges(gone, walked)
    BY <1>5, OutIs
  <2>2. CASE checkqlist # 0
    <3>1. Asked = {} /\ Spent = {}
      BY <2>2 DEF Asked, Spent
    <3>2. \A k \in Key \ gone : nexttry'[k] = nexttry[k]
      BY <2>1, <3>1 DEF OutChanges
    <3>3. QED BY <1>2, <2>1, <2>2, <3>2 DEF OutChanges
  <2>3. CASE checkqlist = 0
    <3> DEFINE S == {nexttry[k] : k \in {x \in queries \ Asked : nexttry[x] # Never}}
                      \cup {tries[k] + 1 : k \in walked}
    <3>0. Asked \subseteq Due /\ Spent = Due \ Asked /\ Due \subseteq queries
          /\ \A k \in Due : nexttry[k] = 0
      BY <2>3 DEF Asked, Spent, Due
    <3>1. S \in SUBSET Nat
      BY <1>0, <2>1, <3>0 DEF OutChanges
    <3>2. checkqlist' = Soonest(S)
      BY <2>1, <2>3 DEF OutChanges, NextBest
    <3>3. \A x \in S : checkqlist' # Never /\ checkqlist' <= x
      <4> HIDE DEF S
      <4> QED BY <3>1, <3>2, SoonestLeast
    <3>4. SUFFICES ASSUME NEW k \in queries \ gone, nexttry'[k] # Never
                   PROVE  checkqlist' # Never /\ checkqlist' <= nexttry'[k]
      BY <2>1 DEF OutChanges, CheckqlistCovers
    <3>5. k \in Key /\ k \in queries
      BY <1>0
    <3>6. CASE k \in Asked
      <4>1. k \in walked /\ nexttry'[k] = tries[k] + 1
        BY <2>1, <3>4, <3>5, <3>6 DEF OutChanges
      <4>2. QED BY <3>3, <4>1
    <3>7. CASE k \in Spent
      <4>1. nexttry[k] = 0 /\ k \notin Asked
        BY <3>0, <3>7
      <4>2. 0 \in S
        BY <3>5, <4>1, TimeAssumption
      <4>3. checkqlist' # Never /\ checkqlist' <= 0
        BY <3>3, <4>2
      <4>4. checkqlist' \in Nat
        BY <3>1, <3>2, <4>2, SoonestLeast
      <4>5. nexttry'[k] \in Nat
        <5>1. nexttry'[k] = Retry(k, cache \ OutSwept)
          BY <2>1, <3>4, <3>5, <3>7 DEF OutChanges
        <5>2. nexttry'[k] \in Nat \cup {Never}
          BY <3>5, <5>1, RetryTimes DEF TypeOK
        <5>3. QED BY <3>4, <5>2
      <4>6. QED BY <4>3, <4>4, <4>5
    <3>8. CASE k \notin Asked \cup Spent
      <4>1. nexttry'[k] = nexttry[k]
        BY <2>1, <3>4, <3>5, <3>8 DEF OutChanges
      <4>2. nexttry[k] \in S
        BY <3>4, <3>5, <3>8, <4>1
      <4>3. QED BY <3>3, <4>1, <4>2
    <3>9. QED BY <3>6, <3>7, <3>8
  <2>4. QED BY <2>2, <2>3
<1>6. ASSUME Tick PROVE CheckqlistCovers'
  <2>1. /\ queries' = queries /\ checkqlist' = Less(checkqlist)
        /\ \A k \in Key : nexttry'[k] = Less(nexttry[k])
    BY <1>6 DEF Tick
  <2>2. ASSUME NEW s \in Nat \cup {Never}, NEW t \in Nat \cup {Never}, Less(t) # Never,
               t # Never => s # Never /\ s <= t
        PROVE  Less(s) # Never /\ Less(s) <= Less(t)
    BY <2>2, TimeAssumption DEF Less, AtLeast
  <2>3. ASSUME NEW k \in queries', nexttry'[k] # Never
        PROVE  checkqlist' # Never /\ checkqlist' <= nexttry'[k]
    <3>1. /\ k \in Key /\ nexttry[k] \in Nat \cup {Never} /\ checkqlist \in Nat \cup {Never}
          /\ nexttry'[k] = Less(nexttry[k]) /\ k \in queries
      BY <1>0, <2>1
    <3>2. nexttry[k] # Never
      BY <2>3, <3>1 DEF Less
    <3>3. checkqlist # Never /\ checkqlist <= nexttry[k]
      BY <3>1, <3>2 DEF CheckqlistCovers
    <3>4. QED BY <2>1, <2>2, <2>3, <3>1, <3>2, <3>3
  <2>4. QED BY <2>3 DEF CheckqlistCovers
<1>7. ASSUME UNCHANGED vars PROVE CheckqlistCovers'
  BY <1>7 DEF vars, asking, CheckqlistCovers
<1>8. QED BY <1>1, <1>3, <1>4, <1>5, <1>6, <1>7 DEF Next

-----------------------------------------------------------------------------
\* What the application was told is in the cache, and the other way round

\* One answer for each key and data.
OneCopy == \A c, d \in cache : c.key = d.key /\ c.data = d.data => c = d

\* mdnsd.h:56 "answer(record, arg) is called whenever one is
\* found/changes/expires": while an answer is cached and not over, the
\* application believes in it.
CachedIsTold ==
  \A c \in cache : c.key \in queries /\ c.left > 0 => c.data \in told[c.key]

\* A step that leaves the answers C, and unlinks some, keeps them apart.
LEMMA OneUnlinked ==
  ASSUME NEW C \in SUBSET Cached, NEW gone,
         \A c, d \in C : c.key = d.key /\ c.data = d.data => c = d
  PROVE  \A c, d \in Unlink(C, gone) : c.key = d.key /\ c.data = d.data => c = d
<1>1. \A c \in C : Same(c, Relink(c, c.q /\ c.key \notin gone))
  <2> TAKE c \in C
  <2> DEFINE b == c.q /\ c.key \notin gone
  <2>1. b \in BOOLEAN
    OBVIOUS
  <2> HIDE DEF b
  <2>2. Same(c, Relink(c, b))
    BY <2>1, Relinked DEF Same
  <2>3. QED BY <2>2 DEF b
<1>2. QED BY <1>1 DEF Unlink, Same

\* An answer that an expiry leaves is in the cache, and none like it was expired.
LEMMA ToldStays ==
  ASSUME TypeOK, LinkInv, OneCopy, CachedIsTold, NEW E \in SUBSET cache, NEW new, NEW gone,
         Tells(E, new, gone), NEW c \in cache \ E, c.left > 0, c.key \in queries \ gone
  PROVE  c.data \in told'[c.key]
<1>1. c \in cache /\ c.key \in Key /\ c.key \in queries /\ c.data \in told[c.key]
  BY DEF TypeOK, Cached, CachedIsTold
<1>2. ~\E x \in E : x.key = c.key /\ x.data = c.data
  BY <1>1 DEF OneCopy
<1>3. told'[c.key] = (told[c.key] \ {x.data : x \in {y \in E : y.q /\ y.key = c.key}})
                       \cup {x.data : x \in {y \in new : y.key = c.key}}
  BY <1>1 DEF Tells
<1>4. QED BY <1>1, <1>2, <1>3

LEMMA ToldStep ==
  ASSUME "repeat" \notin Env, TypeOK, LinkInv, OneCopy, CachedIsTold, [Next]_vars
  PROVE  OneCopy' /\ CachedIsTold'
<1>0. cache \in SUBSET Cached
  BY DEF TypeOK
<1>1. ASSUME NEW k \in Key, MdnsdQuery(k) PROVE OneCopy' /\ CachedIsTold'
  <2>1. /\ queries' = queries \cup {k}
        /\ cache' = {Relink(c, c.q \/ c.key = k) : c \in cache}
        /\ told' = [told EXCEPT ![k] = {c.data : c \in {x \in OfKey(k) : x.left > 0}}]
    BY <1>1 DEF MdnsdQuery
  <2>2. \A c \in cache : Same(c, Relink(c, c.q \/ c.key = k))
    <3> TAKE c \in cache
    <3> DEFINE b == c.q \/ c.key = k
    <3>1. b \in BOOLEAN
      OBVIOUS
    <3> HIDE DEF b
    <3>2. Same(c, Relink(c, b))
      BY <1>0, <3>1, Relinked DEF Same
    <3>3. QED BY <3>2 DEF b
  <2>3. OneCopy'
    BY <2>1, <2>2 DEF OneCopy, Same
  <2>4. CachedIsTold'
    <3>1. SUFFICES ASSUME NEW c \in cache, c.key \in queries \cup {k}, c.left > 0
                   PROVE  c.data \in told'[c.key]
      BY <2>1, <2>2 DEF CachedIsTold, Same
    <3>2. CASE c.key = k
      BY <2>1, <3>1, <3>2 DEF TypeOK, OfKey
    <3>3. CASE c.key # k
      BY <2>1, <3>1, <3>3 DEF TypeOK, CachedIsTold
    <3>4. QED BY <3>2, <3>3
  <2>5. QED BY <2>3, <2>4
<1>2. ASSUME NEW k \in Key, MdnsdForget(k) PROVE OneCopy' /\ CachedIsTold'
  <2>1. /\ queries' = queries \ {k} /\ cache' = Unlink(cache, {k})
        /\ told' = [told EXCEPT ![k] = {}]
    BY <1>2 DEF MdnsdForget
  <2>2. OneCopy'
    BY <1>0, <2>1, OneUnlinked DEF OneCopy
  <2>3. \A d \in cache' : \E c \in cache : Same(c, d)
    BY <1>0, <2>1, Unlinked
  <2>4. CachedIsTold'
    BY <2>1, <2>3 DEF CachedIsTold, Same, TypeOK
  <2>5. QED BY <2>2, <2>4
<1>3. ASSUME NEW k \in Key, NEW v \in Data, NEW t \in Ttl \cup {0}, Cache(k, v, t)
      PROVE  OneCopy' /\ CachedIsTold'
  <2>1. PICK new, gone : CacheChanges(k, v, t, new, gone)
    BY <1>3, CacheIs
  <2> DEFINE E == Swept(k, v, t)
             C == (cache \ E) \cup new
  <2>2. /\ queries' = queries \ gone /\ cache' = Unlink(C, gone) /\ Tells(E, new, gone)
        /\ new = {} \/ \E c \in Cached : new = {c} /\ c.key = k /\ c.data = v
        /\ new = {} <=> t = 0
        /\ t > 0 /\ k \in Shared => Copies(k, v) = {}
    BY <2>1 DEF CacheChanges
  <2>3. E \in SUBSET cache /\ C \in SUBSET Cached
    BY <1>0, <2>2 DEF Swept, OfKey, Copies, Expired
  <2>4. \A c \in cache \ E, d \in new : ~(c.key = d.key /\ c.data = d.data)
    <3>1. SUFFICES ASSUME NEW c \in cache \ E, c.key = k, c.data = v, t # 0 PROVE FALSE
      BY <2>2
    <3>2. t > 0
      BY <3>1, TimeAssumption
    <3>3. CASE k \in Shared
      BY <2>2, <3>1, <3>2, <3>3 DEF Copies, OfKey
    <3>4. CASE k \notin Shared
      BY <3>1, <3>4 DEF Swept, OfKey
    <3>5. QED BY <3>3, <3>4
  <2> HIDE DEF E
  <2>5. \A c, d \in C : c.key = d.key /\ c.data = d.data => c = d
    BY <2>2, <2>4 DEF OneCopy
  <2>6. \A d \in cache' : \E c \in C : Same(c, d)
    <3> HIDE DEF C
    <3> QED BY <2>2, <2>3, Unlinked
  <2>7. OneCopy'
    <3> HIDE DEF C
    <3> QED BY <2>2, <2>3, <2>5, OneUnlinked DEF OneCopy
  <2>8. \A c \in C : c.key \in queries \ gone /\ c.left > 0 => c.data \in told'[c.key]
    <3> TAKE c \in C
    <3>1. SUFFICES ASSUME c.key \in queries \ gone, c.left > 0 PROVE c.data \in told'[c.key]
      OBVIOUS
    <3>2. CASE c \in cache \ E
      BY <2>2, <2>3, <3>1, <3>2, ToldStays
    <3>3. CASE c \in new
      <4>1. c.key \in Key
        BY <2>2, <3>3
      <4>2. QED BY <2>2, <3>1, <3>3, <4>1 DEF Tells
    <3>4. QED BY <3>2, <3>3
  <2>9. CachedIsTold'
    BY <2>2, <2>6, <2>8 DEF CachedIsTold, Same
  <2>10. QED BY <2>7, <2>9
<1>4. ASSUME MdnsdOut PROVE OneCopy' /\ CachedIsTold'
  <2>1. PICK gone, walked : OutChanges(gone, walked)
    BY <1>4, OutIs
  <2>2. /\ queries' = queries \ gone /\ cache' = Unlink(cache \ OutSwept, gone)
        /\ Tells(OutSwept, {}, gone)
    BY <2>1 DEF OutChanges
  <2>3. OutSwept \in SUBSET cache
    BY DEF OutSwept, Expired
  <2>4. OneCopy'
    BY <1>0, <2>2, OneUnlinked DEF OneCopy
  <2>5. \A d \in cache' : \E c \in cache \ OutSwept : Same(c, d)
    BY <1>0, <2>2, Unlinked
  <2>6. \A c \in cache \ OutSwept :
          c.key \in queries \ gone /\ c.left > 0 => c.data \in told'[c.key]
    BY <2>2, <2>3, ToldStays
  <2>7. CachedIsTold'
    BY <2>2, <2>5, <2>6 DEF CachedIsTold, Same
  <2>8. QED BY <2>4, <2>7
<1>5. ASSUME Tick PROVE OneCopy' /\ CachedIsTold'
  <2> DEFINE aged(c) == [c EXCEPT !.left = AtLeast(Floor, c.left - 1)]
  <2>1. queries' = queries /\ told' = told /\ cache' = {aged(c) : c \in cache}
    BY <1>5 DEF Tick
  <2>2. \A c \in cache : c.key = aged(c).key /\ c.data = aged(c).data
    BY <1>0 DEF Cached
  <2>3. OneCopy'
    <3> HIDE DEF aged
    <3>1. ASSUME NEW c \in cache, NEW d \in cache,
                 aged(c).key = aged(d).key, aged(c).data = aged(d).data
          PROVE  aged(c) = aged(d)
      BY <2>2, <3>1 DEF OneCopy
    <3>2. QED BY <2>1, <3>1 DEF OneCopy
  <2>4. ASSUME NEW d \in cache', d.left > 0
        PROVE  \E c \in cache : c.key = d.key /\ c.data = d.data /\ c.left > 0
    <3>1. PICK c \in cache : /\ c.key = d.key /\ c.data = d.data
                             /\ d.left = AtLeast(Floor, c.left - 1)
      BY <1>0, <1>5, TickIs
    <3>2. c.left \in Int
      BY <1>0 DEF Cached
    <3>3. QED BY <2>4, <3>1, <3>2 DEF AtLeast, Floor
  <2>5. CachedIsTold'
    BY <2>1, <2>4 DEF CachedIsTold
  <2>6. QED BY <2>3, <2>5
<1>6. ASSUME UNCHANGED vars PROVE OneCopy' /\ CachedIsTold'
  BY <1>6 DEF vars, asking, OneCopy, CachedIsTold
<1>7. QED BY <1>1, <1>2, <1>3, <1>4, <1>5, <1>6 DEF Next

-----------------------------------------------------------------------------
\* The timing of the retries

\* The seconds the tries that are left take, the last wait included: 1 + 2 + 3.
Rounds(n) == IF n = 0 THEN 6 ELSE IF n = 1 THEN 5 ELSE IF n = 2 THEN 3 ELSE 0

\* Between two tries the query waits for as many seconds as it was tried.
SoonInv == \A k \in Key : nexttry[k] # Never /\ tries[k] > 0 => nexttry[k] <= tries[k]

\* What the application believes in is cached and has a query, whose tries are
\* over, and expire it, at most 5 seconds after its end.
TimelyInv ==
  \A k \in Key : \A v \in told[k] :
    /\ k \in queries /\ nexttry[k] # Never
    /\ \E c \in cache : /\ c.key = k /\ c.data = v
                        /\ nexttry[k] + Rounds(tries[k]) <= c.left + 5

LEMMA SoonStep ==
  ASSUME TypeOK, SoonInv, [Next]_vars
  PROVE  SoonInv'
<1>0. nexttry \in [Key -> Nat \cup {Never}] /\ tries \in [Key -> 0..3]
  BY DEF TypeOK
<1>1. ASSUME NEW k \in Key, MdnsdQuery(k) PROVE SoonInv'
  BY <1>0, <1>1 DEF MdnsdQuery, SoonInv
<1>2. ASSUME NEW k \in Key, MdnsdForget(k) PROVE SoonInv'
  BY <1>0, <1>2 DEF MdnsdForget, Kept, SoonInv
<1>3. ASSUME NEW k \in Key, NEW v \in Data, NEW t \in Ttl \cup {0}, Cache(k, v, t)
      PROVE  SoonInv'
  <2>1. PICK new, gone : CacheChanges(k, v, t, new, gone)
    BY <1>3, CacheIs
  <2>2. ASSUME NEW x \in Key PROVE nexttry'[x] # Never /\ tries'[x] > 0 => nexttry'[x] <= tries'[x]
    <3>1. /\ tries'[x] = IF x \in gone THEN 0 ELSE tries[x]
          /\ nexttry'[x] = IF x \in gone THEN Never ELSE nexttry[x]
      BY <2>1 DEF CacheChanges
    <3>2. nexttry[x] # Never /\ tries[x] > 0 => nexttry[x] <= tries[x]
      BY DEF SoonInv
    <3>3. QED BY <3>1, <3>2
  <2>3. QED BY <2>2 DEF SoonInv
<1>4. ASSUME MdnsdOut PROVE SoonInv'
  <2>1. PICK gone, walked : OutChanges(gone, walked)
    BY <1>4, OutIs
  <2>2. ASSUME NEW k \in Key PROVE nexttry'[k] # Never /\ tries'[k] > 0 => nexttry'[k] <= tries'[k]
    <3>1. tries[k] \in 0..3 /\ (nexttry[k] # Never /\ tries[k] > 0 => nexttry[k] <= tries[k])
      BY <1>0 DEF SoonInv
    <3>2. QED BY <2>1, <3>1 DEF OutChanges
  <2>3. QED BY <2>2 DEF SoonInv
<1>5. ASSUME Tick PROVE SoonInv'
  <2>1. tries' = tries /\ \A k \in Key : nexttry'[k] = Less(nexttry[k])
    BY <1>5 DEF Tick
  <2>2. \A n \in Nat \cup {Never} : Less(n) # Never => n # Never /\ Less(n) <= n
    BY TimeAssumption DEF Less, AtLeast
  <2>3. \A n \in Nat \cup {Never} : Less(n) \in Nat \cup {Never}
    BY DEF Less, AtLeast
  <2>4. ASSUME NEW k \in Key, Less(nexttry[k]) # Never, tries[k] > 0
        PROVE  Less(nexttry[k]) <= tries[k]
    <3>1. nexttry[k] \in Nat /\ Less(nexttry[k]) \in Nat /\ Less(nexttry[k]) <= nexttry[k]
      BY <1>0, <2>2, <2>3, <2>4
    <3>2. tries[k] \in Nat
      BY <1>0
    <3>3. nexttry[k] # Never
      BY <3>1, TimeAssumption
    <3>4. nexttry[k] <= tries[k]
      BY <2>4, <3>3 DEF SoonInv
    <3>5. QED BY <3>1, <3>2, <3>4
  <2>5. QED BY <2>1, <2>4 DEF SoonInv
<1>6. ASSUME UNCHANGED vars PROVE SoonInv'
  BY <1>6 DEF vars, asking, SoonInv
<1>7. QED BY <1>1, <1>2, <1>3, <1>4, <1>5, <1>6 DEF Next

\* What an answer that stays requires of its query, for both properties.
LEMMA NewInTime ==
  ASSUME "late" \notin Env, "short" \notin Env, TypeOK, SoonInv, NEW k \in queries,
         NEW v, NEW t \in Ttl \cup {0}, t # 0, NEW new, NEW gone,
         CacheChanges(k, v, t, new, gone)
  PROVE  /\ nexttry[k] # Never
         /\ nexttry[k] <= Lasts(t) /\ nexttry[k] + Rounds(tries[k]) <= Lasts(t) + 5
<1>1. t \in Nat /\ t > 0 /\ Lasts(t) \in Nat /\ Lasts(t) >= 8
  BY TimeAssumption DEF Lasts
<1>2. nexttry[k] # Never /\ ~(nexttry[k] >= Lasts(t))
  BY <1>1 DEF CacheChanges
<1>3. k \in Key /\ nexttry[k] \in Nat /\ tries[k] \in 0..3
  BY <1>2 DEF TypeOK
<1>4. tries[k] > 0 => nexttry[k] <= tries[k]
  BY <1>2, <1>3 DEF SoonInv
<1>5. QED BY <1>1, <1>2, <1>3, <1>4 DEF Rounds

\* What mdnsd_out leaves in the cache of a query it gives up is not over.
LEMMA SpentSwept ==
  ASSUME TypeOK, NEW k \in Spent, NEW c \in cache \ OutSwept, c.key = k
  PROVE  c.left > 0
<1>1. k \in Key
  BY DEF Spent, Due, TypeOK
<1>2. c \notin Expired(Bucket[k])
  BY <1>1 DEF OutSwept
<1>3. c.left \in Int
  BY DEF TypeOK, Cached
<1>4. QED BY <1>2, <1>3 DEF Expired

\* The next try of a query after mdnsd_out, for an answer that stays.
LEMMA OutInTime ==
  ASSUME TypeOK, NEW gone, NEW walked, OutChanges(gone, walked),
         NEW c \in cache \ OutSwept, NEW k \in queries \ gone, c.key = k
  PROVE  /\ nexttry[k] # Never => nexttry'[k] # Never
         /\ c.left > 0 /\ nexttry[k] # Never /\ (tries[k] > 0 \/ nexttry[k] <= c.left) =>
              tries'[k] > 0 \/ nexttry'[k] <= c.left
         /\ nexttry[k] # Never /\ nexttry[k] + Rounds(tries[k]) <= c.left + 5 =>
              nexttry'[k] + Rounds(tries'[k]) <= c.left + 5
<1>1. /\ k \in Key /\ k \in queries /\ k \notin gone /\ c.left \in Int /\ tries[k] \in 0..3
      /\ nexttry[k] \in Nat \cup {Never} /\ cache \ OutSwept \in SUBSET Cached
  BY DEF TypeOK, Cached
<1>2. CASE k \in Asked
  <2>1. nexttry[k] = 0 /\ tries[k] < 3
    BY <1>2 DEF Asked, Due, MoreTries
  <2>2. tries'[k] = tries[k] + 1 /\ nexttry'[k] = tries[k] + 1
    BY <1>1, <1>2 DEF OutChanges
  <2>3. tries'[k] + Rounds(tries'[k]) = Rounds(tries[k])
    BY <1>1, <2>1, <2>2 DEF Rounds
  <2>4. nexttry'[k] \in Nat /\ nexttry'[k] # Never /\ tries'[k] > 0
    BY <1>1, <2>1, <2>2, TimeAssumption
  <2>5. Rounds(tries[k]) \in Nat /\ Rounds(tries'[k]) \in Nat
    BY <1>1, <2>2 DEF Rounds
  <2>6. nexttry'[k] + Rounds(tries'[k]) = nexttry[k] + Rounds(tries[k])
    BY <1>1, <2>1, <2>2, <2>3, <2>5
  <2>7. QED BY <2>4, <2>6
<1>3. CASE k \in Spent
  <2>1. c.left > 0
    BY <1>3, SpentSwept
  <2>2. tries'[k] = 0 /\ nexttry'[k] = Retry(k, cache \ OutSwept)
    BY <1>1, <1>3 DEF OutChanges
  <2>3. Retry(k, cache \ OutSwept) \in Nat /\ Retry(k, cache \ OutSwept) <= AtLeast(0, c.left - 7)
    BY <1>1, RetryTimes
  <2>4. nexttry'[k] \in Nat /\ nexttry'[k] <= c.left
    BY <1>1, <2>1, <2>2, <2>3 DEF AtLeast
  <2>5. nexttry'[k] + Rounds(tries'[k]) <= c.left + 5
    BY <1>1, <2>1, <2>2, <2>3 DEF AtLeast, Rounds
  <2>6. QED BY <2>4, <2>5, TimeAssumption
<1>4. CASE k \notin Asked \cup Spent
  <2>1. tries'[k] = tries[k] /\ nexttry'[k] = nexttry[k]
    BY <1>1, <1>4 DEF OutChanges
  <2>2. QED BY <2>1
<1>5. QED BY <1>2, <1>3, <1>4

LEMMA RetriedStep ==
  ASSUME "late" \notin Env, "short" \notin Env, TypeOK, LinkInv, SoonInv,
         RetriedBeforeEnd, [Next]_vars
  PROVE  RetriedBeforeEnd'
<1>0. /\ cache \in SUBSET Cached /\ queries \subseteq Key
      /\ nexttry \in [Key -> Nat \cup {Never}] /\ tries \in [Key -> 0..3]
  BY DEF TypeOK
<1>1. ASSUME NEW k \in Key, MdnsdQuery(k) PROVE RetriedBeforeEnd'
  <2>1. /\ queries' = queries \cup {k}
        /\ cache' = {Relink(c, c.q \/ c.key = k) : c \in cache}
        /\ tries' = [tries EXCEPT ![k] = 0] /\ nexttry' = [nexttry EXCEPT ![k] = 0]
    BY <1>1 DEF MdnsdQuery
  <2>2. \A c \in cache : Same(c, Relink(c, c.q \/ c.key = k))
    <3> TAKE c \in cache
    <3> DEFINE b == c.q \/ c.key = k
    <3>1. b \in BOOLEAN
      OBVIOUS
    <3> HIDE DEF b
    <3>2. Same(c, Relink(c, b))
      BY <1>0, <3>1, Relinked DEF Same
    <3>3. QED BY <3>2 DEF b
  <2>3. SUFFICES ASSUME NEW c \in cache, c.key \in queries \cup {k}, c.left > 0
                 PROVE  /\ nexttry'[c.key] # Never
                        /\ tries'[c.key] > 0 \/ nexttry'[c.key] <= c.left
    BY <2>1, <2>2 DEF RetriedBeforeEnd, Same
  <2>4. c.left \in Int
    BY <1>0 DEF Cached
  <2>5. CASE c.key = k
    BY <1>0, <2>1, <2>3, <2>4, <2>5, TimeAssumption
  <2>6. CASE c.key # k
    BY <1>0, <2>1, <2>3, <2>6 DEF RetriedBeforeEnd
  <2>7. QED BY <2>5, <2>6
<1>2. ASSUME NEW k \in Key, MdnsdForget(k) PROVE RetriedBeforeEnd'
  <2>1. /\ queries' = queries \ {k} /\ cache' = Unlink(cache, {k})
        /\ \A x \in Key \ {k} : tries'[x] = tries[x] /\ nexttry'[x] = nexttry[x]
    BY <1>2 DEF MdnsdForget, Kept
  <2>2. \A d \in cache' : \E c \in cache : Same(c, d)
    BY <1>0, <2>1, Unlinked
  <2>3. ASSUME NEW d \in cache', d.key \in queries', d.left > 0
        PROVE  nexttry'[d.key] # Never /\ (tries'[d.key] > 0 \/ nexttry'[d.key] <= d.left)
    <3>1. PICK c \in cache : Same(c, d)
      BY <2>2
    <3>2. c.key \in Key \ {k} /\ c.key = d.key /\ c.left = d.left /\ c.key \in queries
      BY <1>0, <2>1, <2>3, <3>1 DEF Same
    <3>3. nexttry[c.key] # Never /\ (tries[c.key] > 0 \/ nexttry[c.key] <= c.left)
      BY <2>3, <3>2 DEF RetriedBeforeEnd
    <3>4. QED BY <2>1, <3>2, <3>3
  <2>4. QED BY <2>3 DEF RetriedBeforeEnd
<1>3. ASSUME NEW k \in Key, NEW v \in Data, NEW t \in Ttl \cup {0}, Cache(k, v, t)
      PROVE  RetriedBeforeEnd'
  <2>1. PICK new, gone : CacheChanges(k, v, t, new, gone)
    BY <1>3, CacheIs
  <2> DEFINE C == (cache \ Swept(k, v, t)) \cup new
  <2>2. /\ queries' = queries \ gone /\ cache' = Unlink(C, gone)
        /\ new = {} \/ \E c \in Cached : new = {c} /\ c.key = k /\ c.left = Lasts(t)
        /\ new = {} <=> t = 0
        /\ \A x \in Key \ gone : tries'[x] = tries[x] /\ nexttry'[x] = nexttry[x]
    BY <2>1 DEF CacheChanges
  <2>3. C \in SUBSET Cached
    BY <1>0, <2>2
  <2>4. \A d \in cache' : \E c \in C : Same(c, d)
    <3> HIDE DEF C
    <3> QED BY <2>2, <2>3, Unlinked
  <2>5. SUFFICES ASSUME NEW c \in C, c.key \in queries \ gone, c.left > 0
                 PROVE  /\ nexttry'[c.key] # Never
                        /\ tries'[c.key] > 0 \/ nexttry'[c.key] <= c.left
    <3> HIDE DEF C
    <3>1. ASSUME NEW d \in cache', d.key \in queries', d.left > 0
          PROVE  \E c \in C : c.key = d.key /\ c.left = d.left /\ c.key \in queries \ gone
      BY <2>2, <2>4, <3>1 DEF Same
    <3>2. QED BY <3>1 DEF RetriedBeforeEnd
  <2>6. c.key \in Key \ gone
    BY <1>0, <2>5
  <2>7. CASE c \in cache
    BY <2>2, <2>5, <2>6, <2>7 DEF RetriedBeforeEnd
  <2>8. CASE c \in new
    <3>1. c.key = k /\ c.left = Lasts(t) /\ t # 0 /\ k \in queries
      BY <2>2, <2>5, <2>8
    <3>2. nexttry[k] # Never /\ nexttry[k] <= Lasts(t)
      BY <2>1, <3>1, NewInTime
    <3>3. QED BY <2>2, <2>6, <3>1, <3>2
  <2>9. QED BY <2>5, <2>7, <2>8
<1>4. ASSUME MdnsdOut PROVE RetriedBeforeEnd'
  <2>1. PICK gone, walked : OutChanges(gone, walked)
    BY <1>4, OutIs
  <2>2. queries' = queries \ gone /\ cache' = Unlink(cache \ OutSwept, gone)
    BY <2>1 DEF OutChanges
  <2>3. \A d \in cache' : \E c \in cache \ OutSwept : Same(c, d)
    BY <1>0, <2>2, Unlinked
  <2>4. \A c \in cache \ OutSwept : c.key \in queries \ gone /\ c.left > 0 =>
          nexttry'[c.key] # Never /\ (tries'[c.key] > 0 \/ nexttry'[c.key] <= c.left)
    BY <2>1, OutInTime DEF RetriedBeforeEnd
  <2>5. QED BY <2>2, <2>3, <2>4 DEF RetriedBeforeEnd, Same
<1>5. ASSUME Tick PROVE RetriedBeforeEnd'
  <2>1. queries' = queries /\ tries' = tries /\ \A k \in Key : nexttry'[k] = Less(nexttry[k])
    BY <1>5 DEF Tick
  <2>2. SUFFICES ASSUME NEW d \in cache', d.key \in queries, d.left > 0
                 PROVE  nexttry'[d.key] # Never /\ (tries[d.key] > 0 \/ nexttry'[d.key] <= d.left)
    BY <2>1 DEF RetriedBeforeEnd
  <2>3. PICK c \in cache : c.key = d.key /\ d.left = AtLeast(Floor, c.left - 1)
    BY <1>0, <1>5, TickIs
  <2>4. c.left \in Int /\ c.left > 0 /\ d.left = c.left - 1
    BY <1>0, <2>2, <2>3 DEF Cached, AtLeast, Floor
  <2>5. /\ nexttry[d.key] # Never /\ nexttry[d.key] \in Nat /\ d.key \in Key
        /\ tries[d.key] > 0 \/ nexttry[d.key] <= c.left
    BY <1>0, <2>2, <2>3, <2>4 DEF RetriedBeforeEnd
  <2>6. nexttry'[d.key] = AtLeast(0, nexttry[d.key] - 1)
    BY <2>1, <2>5 DEF Less
  <2>7. QED BY <2>2, <2>4, <2>5, <2>6, TimeAssumption DEF AtLeast
<1>6. ASSUME UNCHANGED vars PROVE RetriedBeforeEnd'
  BY <1>6 DEF vars, asking, RetriedBeforeEnd
<1>7. QED BY <1>1, <1>2, <1>3, <1>4, <1>5, <1>6 DEF Next

\* An answer the application believes in is not among those an expiry told it of.
LEMMA BelievedStays ==
  ASSUME TypeOK, LinkInv, NEW E, NEW new, NEW gone, Tells(E, new, gone),
         NEW k \in Key, NEW v \in told'[k],
         ~\E c \in new : c.key = k /\ c.data = v
  PROVE  /\ k \in queries \ gone /\ v \in told[k]
         /\ \A c \in cache : c.key = k /\ c.data = v => c \notin E
<1>1. k \in queries \ gone
  BY DEF Tells
<1>2. told'[k] = (told[k] \ {x.data : x \in {y \in E : y.q /\ y.key = k}})
                   \cup {x.data : x \in {y \in new : y.key = k}}
  BY <1>1 DEF Tells
<1>3. v \in told[k] /\ ~\E x \in E : x.q /\ x.key = k /\ x.data = v
  BY <1>2
<1>4. \A c \in cache : c.key = k => c.q
  BY <1>1 DEF LinkInv, LinkedToLive
<1>5. QED BY <1>1, <1>3, <1>4

LEMMA TimelyStep ==
  ASSUME "late" \notin Env, "short" \notin Env, TypeOK, LinkInv, CheckqlistCovers, SoonInv,
         TimelyInv, [Next]_vars
  PROVE  TimelyInv'
<1>0. /\ cache \in SUBSET Cached /\ queries \subseteq Key /\ told \in [Key -> SUBSET Data]
      /\ nexttry \in [Key -> Nat \cup {Never}] /\ tries \in [Key -> 0..3]
  BY DEF TypeOK
<1>1. ASSUME NEW k \in Key, MdnsdQuery(k) PROVE TimelyInv'
  <2>1. /\ queries' = queries \cup {k}
        /\ cache' = {Relink(c, c.q \/ c.key = k) : c \in cache}
        /\ tries' = [tries EXCEPT ![k] = 0] /\ nexttry' = [nexttry EXCEPT ![k] = 0]
        /\ told' = [told EXCEPT ![k] = {c.data : c \in {x \in OfKey(k) : x.left > 0}}]
    BY <1>1 DEF MdnsdQuery
  <2>2. \A c \in cache : \E d \in cache' : Same(c, d)
    <3> TAKE c \in cache
    <3> DEFINE b == c.q \/ c.key = k
    <3>1. b \in BOOLEAN
      OBVIOUS
    <3> HIDE DEF b
    <3>2. Same(c, Relink(c, b))
      BY <1>0, <3>1, Relinked DEF Same
    <3>3. QED BY <2>1, <3>2 DEF b
  <2>3. SUFFICES ASSUME NEW x \in Key, NEW v \in told'[x]
                 PROVE  /\ x \in queries' /\ nexttry'[x] # Never
                        /\ \E c \in cache : /\ c.key = x /\ c.data = v
                                            /\ nexttry'[x] + Rounds(tries'[x]) <= c.left + 5
    BY <2>2 DEF TimelyInv, Same
  <2>4. CASE x = k
    <3>1. PICK c \in cache : c.key = k /\ c.left > 0 /\ c.data = v
      BY <1>0, <2>1, <2>3, <2>4 DEF OfKey
    <3>2. nexttry'[x] = 0 /\ tries'[x] = 0 /\ c.left \in Int
      BY <1>0, <2>1, <2>4 DEF Cached
    <3>3. QED BY <2>1, <2>4, <3>1, <3>2, TimeAssumption DEF Rounds
  <2>5. CASE x # k
    <3>1. nexttry'[x] = nexttry[x] /\ tries'[x] = tries[x] /\ v \in told[x]
      BY <1>0, <2>1, <2>3, <2>5
    <3>2. QED BY <2>1, <3>1 DEF TimelyInv
  <2>6. QED BY <2>4, <2>5
<1>2. ASSUME NEW k \in Key, MdnsdForget(k) PROVE TimelyInv'
  <2>1. /\ queries' = queries \ {k} /\ cache' = Unlink(cache, {k})
        /\ told' = [told EXCEPT ![k] = {}]
        /\ \A x \in Key \ {k} : tries'[x] = tries[x] /\ nexttry'[x] = nexttry[x]
    BY <1>2 DEF MdnsdForget, Kept
  <2>2. \A c \in cache : \E d \in cache' : Same(c, d)
    BY <1>0, <2>1, Unlinked
  <2>3. ASSUME NEW x \in Key, NEW v \in told'[x] PROVE x # k /\ v \in told[x]
    BY <1>0, <2>1, <2>3
  <2>4. ASSUME NEW x \in Key, NEW v \in told'[x]
        PROVE  /\ x \in queries' /\ nexttry'[x] # Never
               /\ \E d \in cache' : /\ d.key = x /\ d.data = v
                                     /\ nexttry'[x] + Rounds(tries'[x]) <= d.left + 5
    <3>1. x \in Key \ {k} /\ v \in told[x]
      BY <2>3
    <3>2. PICK c \in cache : c.key = x /\ c.data = v /\ nexttry[x] + Rounds(tries[x]) <= c.left + 5
      BY <3>1 DEF TimelyInv
    <3>3. x \in queries /\ nexttry[x] # Never
      BY <3>1 DEF TimelyInv
    <3>4. PICK d \in cache' : Same(c, d)
      BY <2>2
    <3>5. QED BY <2>1, <3>1, <3>2, <3>3, <3>4 DEF Same
  <2>5. QED BY <2>4 DEF TimelyInv
<1>3. ASSUME NEW k \in Key, NEW v \in Data, NEW t \in Ttl \cup {0}, Cache(k, v, t)
      PROVE  TimelyInv'
  <2>1. PICK new, gone : CacheChanges(k, v, t, new, gone)
    BY <1>3, CacheIs
  <2> DEFINE E == Swept(k, v, t)
             C == (cache \ E) \cup new
  <2>2. /\ queries' = queries \ gone /\ cache' = Unlink(C, gone) /\ Tells(E, new, gone)
        /\ new = {} \/ \E c \in Cached : new = {c} /\ c.key = k /\ c.left = Lasts(t)
        /\ new = {} <=> t = 0
        /\ \A x \in Key \ gone : tries'[x] = tries[x] /\ nexttry'[x] = nexttry[x]
    BY <2>1 DEF CacheChanges
  <2>3. E \in SUBSET cache /\ C \in SUBSET Cached
    BY <1>0, <2>2 DEF Swept, OfKey, Copies, Expired
  <2> HIDE DEF E
  <2>4. \A c \in C : \E d \in cache' : Same(c, d)
    <3> HIDE DEF C
    <3> QED BY <2>2, <2>3, Unlinked
  <2>5. SUFFICES ASSUME NEW x \in Key, NEW w \in told'[x]
                 PROVE  /\ x \in queries \ gone /\ nexttry[x] # Never
                        /\ \E c \in C : /\ c.key = x /\ c.data = w
                                        /\ nexttry[x] + Rounds(tries[x]) <= c.left + 5
    <3> HIDE DEF C
    <3>1. ASSUME NEW x \in Key \ gone, NEW w, NEW c \in C, c.key = x, c.data = w,
                 nexttry[x] + Rounds(tries[x]) <= c.left + 5
          PROVE  \E d \in cache' : /\ d.key = x /\ d.data = w
                                   /\ nexttry'[x] + Rounds(tries'[x]) <= d.left + 5
      <4>1. PICK d \in cache' : Same(c, d)
        BY <2>4
      <4>2. QED BY <2>2, <3>1, <4>1 DEF Same
    <3>2. \A x \in Key \ gone : nexttry'[x] = nexttry[x]
      BY <2>2
    <3>3. QED BY <2>2, <3>1, <3>2 DEF TimelyInv
  <2>6. CASE \E c \in new : c.key = x /\ c.data = w
    <3>1. PICK c \in new : c.key = x /\ c.data = w
      BY <2>6
    <3>2. x = k /\ c.left = Lasts(t) /\ t # 0
      BY <2>2, <3>1
    <3>3. x \in queries \ gone
      BY <2>2, <2>5 DEF Tells
    <3>4. nexttry[k] # Never /\ nexttry[k] + Rounds(tries[k]) <= Lasts(t) + 5
      BY <2>1, <3>2, <3>3, NewInTime
    <3>5. QED BY <3>1, <3>2, <3>3, <3>4
  <2>7. CASE ~\E c \in new : c.key = x /\ c.data = w
    <3>1. /\ x \in queries \ gone /\ w \in told[x]
          /\ \A c \in cache : c.key = x /\ c.data = w => c \notin E
      BY <2>2, <2>3, <2>7, BelievedStays
    <3>2. QED BY <3>1 DEF TimelyInv
  <2>8. QED BY <2>6, <2>7
<1>4. ASSUME MdnsdOut PROVE TimelyInv'
  <2>1. PICK gone, walked : OutChanges(gone, walked)
    BY <1>4, OutIs
  <2>2. /\ queries' = queries \ gone /\ cache' = Unlink(cache \ OutSwept, gone)
        /\ Tells(OutSwept, {}, gone)
    BY <2>1 DEF OutChanges
  <2>3. OutSwept \in SUBSET cache
    BY DEF OutSwept, Expired
  <2>4. \A c \in cache \ OutSwept : \E d \in cache' : Same(c, d)
    BY <1>0, <2>2, Unlinked
  <2>5. SUFFICES ASSUME NEW x \in Key, NEW w \in told'[x]
                 PROVE  /\ x \in queries \ gone /\ nexttry'[x] # Never
                        /\ \E c \in cache \ OutSwept :
                             /\ c.key = x /\ c.data = w
                             /\ nexttry'[x] + Rounds(tries'[x]) <= c.left + 5
    <3>1. ASSUME NEW x \in Key, NEW w, NEW c \in cache \ OutSwept, c.key = x, c.data = w,
                 nexttry'[x] + Rounds(tries'[x]) <= c.left + 5
          PROVE  \E d \in cache' : /\ d.key = x /\ d.data = w
                                   /\ nexttry'[x] + Rounds(tries'[x]) <= d.left + 5
      <4>1. PICK d \in cache' : Same(c, d)
        BY <2>4
      <4>2. QED BY <3>1, <4>1 DEF Same
    <3>2. SUFFICES ASSUME NEW x \in Key, NEW w \in told'[x]
                   PROVE  /\ x \in queries' /\ nexttry'[x] # Never
                          /\ \E d \in cache' : /\ d.key = x /\ d.data = w
                                                /\ nexttry'[x] + Rounds(tries'[x]) <= d.left + 5
      BY DEF TimelyInv
    <3>3. /\ x \in queries \ gone /\ nexttry'[x] # Never
          /\ \E c \in cache \ OutSwept : /\ c.key = x /\ c.data = w
                                          /\ nexttry'[x] + Rounds(tries'[x]) <= c.left + 5
      BY <2>5
    <3>4. PICK c \in cache \ OutSwept : /\ c.key = x /\ c.data = w
                                         /\ nexttry'[x] + Rounds(tries'[x]) <= c.left + 5
      BY <3>3
    <3>5. \E d \in cache' : d.key = x /\ d.data = w /\ nexttry'[x] + Rounds(tries'[x]) <= d.left + 5
      BY <3>1, <3>4
    <3>6. QED BY <2>2, <3>3, <3>5
  <2>6. /\ x \in queries \ gone /\ w \in told[x]
        /\ \A c \in cache : c.key = x /\ c.data = w => c \notin OutSwept
    BY <2>2, <2>3, BelievedStays
  <2>7. PICK c \in cache : /\ c.key = x /\ c.data = w /\ nexttry[x] # Never
                           /\ nexttry[x] + Rounds(tries[x]) <= c.left + 5
    BY <2>6 DEF TimelyInv
  <2>8. nexttry'[x] # Never /\ nexttry'[x] + Rounds(tries'[x]) <= c.left + 5
    BY <2>1, <2>6, <2>7, OutInTime
  <2>9. QED BY <2>6, <2>7, <2>8
<1>5. ASSUME Tick PROVE TimelyInv'
  <2>1. /\ queries' = queries /\ tries' = tries /\ told' = told
        /\ \A k \in Key : nexttry'[k] = Less(nexttry[k])
        /\ MdnsdSleep > 0 \/ (checkqlist = Never /\ expireall = 1)
    BY <1>5 DEF Tick
  <2>2. SUFFICES ASSUME NEW k \in Key, NEW v \in told[k]
                 PROVE  /\ k \in queries /\ nexttry'[k] # Never
                        /\ \E d \in cache' : /\ d.key = k /\ d.data = v
                                             /\ nexttry'[k] + Rounds(tries[k]) <= d.left + 5
    BY <2>1 DEF TimelyInv
  <2>3. k \in queries /\ nexttry[k] # Never
    BY <2>2 DEF TimelyInv
  <2>4. PICK c \in cache : /\ c.key = k /\ c.data = v
                           /\ nexttry[k] + Rounds(tries[k]) <= c.left + 5
    BY <2>2 DEF TimelyInv
  <2>5. PICK d \in cache' : d.key = k /\ d.data = v /\ d.left = AtLeast(Floor, c.left - 1)
    BY <1>0, <1>5, <2>4, TickIs
  <2>6. nexttry[k] \in Nat /\ nexttry[k] > 0
    <3>1. checkqlist # Never /\ checkqlist \in Nat /\ checkqlist <= nexttry[k]
      BY <2>3 DEF CheckqlistCovers, TypeOK
    <3>2. checkqlist > 0
      BY <2>1, <3>1 DEF MdnsdSleep
    <3>3. QED BY <1>0, <2>3, <3>1, <3>2
  <2>7. nexttry'[k] = nexttry[k] - 1
    BY <2>1, <2>3, <2>6 DEF Less, AtLeast
  <2>8. Rounds(tries[k]) \in Nat /\ c.left \in Int
    BY <1>0 DEF Rounds, Cached
  <2>9. d.left = c.left - 1
    BY <2>4, <2>5, <2>6, <2>8 DEF AtLeast, Floor
  <2>10. QED BY <2>3, <2>4, <2>5, <2>6, <2>7, <2>8, <2>9, TimeAssumption
<1>6. ASSUME UNCHANGED vars PROVE TimelyInv'
  BY <1>6 DEF vars, asking, TimelyInv
<1>7. QED BY <1>1, <1>2, <1>3, <1>4, <1>5, <1>6 DEF Next

-----------------------------------------------------------------------------
\* Each query as though it were the only one

\* The data of the answers for k in C, and of those that are over.
DataOf(k, C) == {c.data : c \in {x \in C : x.key = k}}
OverOf(k, C) == {c.data : c \in {x \in C : x.key = k /\ x.left <= 0}}

\* The application believes in nothing it does not ask for.
NothingUnasked == \A k \in Key : k \notin queries => told[k] = {}

LEMMA UnaskedStep ==
  ASSUME TypeOK, NothingUnasked, [Next]_vars
  PROVE  NothingUnasked'
<1>0. told \in [Key -> SUBSET Data]
  BY DEF TypeOK
<1>1. ASSUME NEW k \in Key, MdnsdQuery(k) PROVE NothingUnasked'
  BY <1>0, <1>1 DEF MdnsdQuery, NothingUnasked
<1>2. ASSUME NEW k \in Key, MdnsdForget(k) PROVE NothingUnasked'
  BY <1>0, <1>2 DEF MdnsdForget, NothingUnasked
<1>3. ASSUME NEW k \in Key, NEW v \in Data, NEW t \in Ttl \cup {0}, Cache(k, v, t)
      PROVE  NothingUnasked'
  <2>1. PICK new, gone : CacheChanges(k, v, t, new, gone)
    BY <1>3, CacheIs
  <2>2. QED BY <2>1 DEF CacheChanges, Tells, NothingUnasked
<1>4. ASSUME MdnsdOut PROVE NothingUnasked'
  <2>1. PICK gone, walked : OutChanges(gone, walked)
    BY <1>4, OutIs
  <2>2. QED BY <2>1 DEF OutChanges, Tells, NothingUnasked
<1>5. ASSUME Tick PROVE NothingUnasked'
  BY <1>5 DEF Tick, NothingUnasked
<1>6. ASSUME UNCHANGED vars PROVE NothingUnasked'
  BY <1>6 DEF vars, asking, NothingUnasked
<1>7. QED BY <1>1, <1>2, <1>3, <1>4, <1>5, <1>6 DEF Next

\* Linking answers and unlinking them leaves their data.
LEMMA SameData ==
  ASSUME NEW k, NEW C, NEW D,
         \A d \in D : \E c \in C : Same(c, d), \A c \in C : \E d \in D : Same(c, d)
  PROVE  DataOf(k, D) = DataOf(k, C) /\ OverOf(k, D) = OverOf(k, C)
  BY DEF Same, DataOf, OverOf

\* With one answer for each key and data, sweeping answers sweeps their data.
LEMMA SweptData ==
  ASSUME OneCopy, NEW k, NEW E \in SUBSET cache
  PROVE  /\ DataOf(k, cache \ E) = DataOf(k, cache) \ DataOf(k, E)
         /\ OverOf(k, cache \ E) = OverOf(k, cache) \ DataOf(k, E)
  BY DEF OneCopy, DataOf, OverOf

\* A step that ends the answers of E and caches those of new.
Ends(E, new, gone) ==
  /\ queries' = queries \ gone
  /\ cache' = Unlink((cache \ E) \cup new, gone)
  /\ Tells(E, new, gone)
  /\ gone \subseteq Hears(E) \cup {c.key : c \in new}

\* What such a step is for the query of one key.
LEMMA EndsOne ==
  ASSUME LinkInv, OneCopy, NEW k \in Key,
         NEW E \in SUBSET cache, NEW new \in SUBSET Cached, NEW gone,
         \A c \in new : c.left > 0, Ends(E, new, gone)
  PROVE  Answers(k)!End(DataOf(k, E), DataOf(k, new))
<1>0. cache \in SUBSET Cached /\ LinkedToLive
  BY DEF LinkInv, CacheInv
<1> DEFINE C == (cache \ E) \cup new
           ended == DataOf(k, E)
           found == DataOf(k, new)
<1>1. C \in SUBSET Cached
  BY <1>0
<1>2. DataOf(k, cache') = DataOf(k, C) /\ OverOf(k, cache') = OverOf(k, C)
  <2> HIDE DEF C
  <2>1. cache' = Unlink(C, gone)
    BY DEF Ends, C
  <2>2. QED BY <1>1, <2>1, Unlinked, SameData
<1>3. DataOf(k, C) = DataOf(k, cache \ E) \cup found
  BY DEF DataOf
<1>4. OverOf(k, C) = OverOf(k, cache \ E)
  BY DEF OverOf, Cached
<1>5. k \notin queries => told'[k] = {}
  BY DEF Ends, Tells
<1>6. k \in gone => told'[k] = {} /\ k \notin queries'
  BY DEF Ends, Tells
<1>7. k \in queries /\ k \notin gone => told'[k] = (told[k] \ ended) \cup found
  BY <1>0 DEF Ends, Tells, LinkedToLive, DataOf
<1>8. k \in gone => ended \cup found # {}
  BY DEF Ends, Hears, DataOf
<1>9. k \notin gone => (k \in queries' <=> k \in queries)
  BY DEF Ends
<1>10. k \notin queries => k \notin queries'
  BY DEF Ends
<1>11. DataOf(k, cache') = (DataOf(k, cache) \ ended) \cup found
  BY <1>2, <1>3, SweptData
<1>12. OverOf(k, cache') = OverOf(k, cache) \ ended
  BY <1>2, <1>4, SweptData
<1> HIDE DEF ended, found
<1>13. Answers(k)!Calls(ended, found)
  <2>1. CASE k \in gone /\ k \in queries
    BY <2>1, <1>6, <1>8 DEF Answers!Calls
  <2>2. CASE k \notin queries
    BY <2>2, <1>5, <1>10 DEF Answers!Calls
  <2>3. CASE k \in queries /\ k \notin gone
    BY <2>3, <1>7, <1>9 DEF Answers!Calls
  <2>4. QED BY <2>1, <2>2, <2>3
<1>14. QED BY <1>11, <1>12, <1>13 DEF Answers!End, OfKey, DataOf, OverOf, ended, found

\* A step that is none for the query of k.
LEMMA StutterOne ==
  ASSUME NothingUnasked, NEW k \in Key, Answers(k)!End({}, {})
  PROVE  UNCHANGED Answers(k)!vars
<1>1. /\ {c.data : c \in OfKey(k)}' = {c.data : c \in OfKey(k)}
      /\ {c.data : c \in {x \in OfKey(k) : x.left <= 0}}'
           = {c.data : c \in {x \in OfKey(k) : x.left <= 0}}
  BY DEF Answers!End
<1>2. (k \in queries)' = (k \in queries) /\ told'[k] = told[k]
  BY DEF Answers!End, Answers!Calls, NothingUnasked
<1>3. QED BY <1>1, <1>2 DEF Answers!vars

\* What _c_expire took, as one key sees it: nothing, or all that was over.
LEMMA SweepOne ==
  ASSUME LinkInv, OneCopy, NothingUnasked, NEW k \in Key, NEW E \in SUBSET cache, NEW gone,
         Ends(E, {}, gone), DataOf(k, E) \in {{}, OverOf(k, cache)}
  PROVE  [Answers(k)!Next]_(Answers(k)!vars)
<1>1. Answers(k)!End(DataOf(k, E), {})
  <2>1. DataOf(k, {}) = {}
    BY DEF DataOf
  <2>2. Answers(k)!End(DataOf(k, E), DataOf(k, {}))
    BY EndsOne
  <2>3. QED BY <2>1, <2>2
<1>2. CASE DataOf(k, E) = {}
  BY <1>1, <1>2, StutterOne
<1>3. CASE DataOf(k, E) = OverOf(k, cache) /\ OverOf(k, cache) # {}
  <2>1. OverOf(k, cache) = {c.data : c \in {x \in OfKey(k) : x.left <= 0}}
    BY DEF OverOf, OfKey
  <2>2. Answers(k)!Expire
    BY <1>1, <1>3, <2>1 DEF Answers!Expire
  <2>3. QED BY <2>2 DEF Answers!Next
<1>4. QED BY <1>2, <1>3

\* A chain is swept of all of its answers that are over.
LEMMA ChainSwept ==
  ASSUME CacheInv, NEW k \in Key, NEW S \in SUBSET Key
  PROVE  DataOf(k, UNION {Expired(Bucket[x]) : x \in S}) \in {{}, OverOf(k, cache)}
<1> DEFINE E == UNION {Expired(Bucket[x]) : x \in S}
<1>1. \A c : c \in E <=> c \in cache /\ c.left <= 0 /\ \E x \in S : Bucket[c.key] = Bucket[x]
  BY DEF Expired
<1> HIDE DEF E
<1>2. CASE \E x \in S : Bucket[k] = Bucket[x]
  <2>1. \A c : c \in E /\ c.key = k <=> c \in cache /\ c.key = k /\ c.left <= 0
    BY <1>1, <1>2
  <2>2. DataOf(k, E) = OverOf(k, cache)
    BY <2>1 DEF DataOf, OverOf
  <2>3. QED BY <2>2 DEF E
<1>3. CASE ~\E x \in S : Bucket[k] = Bucket[x]
  <2>1. \A c : ~(c \in E /\ c.key = k)
    BY <1>1, <1>3
  <2>2. DataOf(k, E) = {}
    BY <2>1 DEF DataOf
  <2>3. QED BY <2>2 DEF E
<1>4. QED BY <1>2, <1>3

\* mdnsd_query and its end, for one key.
LEMMA QueryOne ==
  ASSUME TypeOK, OneCopy, NEW j \in Key, MdnsdQuery(j), NEW k \in Key
  PROVE  [Answers(k)!Next]_(Answers(k)!vars)
<1>1. /\ j \notin queries /\ queries' = queries \cup {j}
      /\ cache' = {Relink(c, c.q \/ c.key = j) : c \in cache}
      /\ told' = [told EXCEPT ![j] = {c.data : c \in {x \in OfKey(j) : x.left > 0}}]
  BY DEF MdnsdQuery
<1>2. \A c \in cache : Same(c, Relink(c, c.q \/ c.key = j))
  <2> TAKE c \in cache
  <2> DEFINE b == c.q \/ c.key = j
  <2>1. b \in BOOLEAN
    OBVIOUS
  <2> HIDE DEF b
  <2>2. Same(c, Relink(c, b))
    BY <2>1, Relinked DEF Same, TypeOK
  <2>3. QED BY <2>2 DEF b
<1>3. DataOf(k, cache') = DataOf(k, cache) /\ OverOf(k, cache') = OverOf(k, cache)
  <2>1. \A d \in cache' : \E c \in cache : Same(c, d)
    BY <1>1, <1>2
  <2>2. \A c \in cache : \E d \in cache' : Same(c, d)
    BY <1>1, <1>2
  <2>3. QED BY <2>1, <2>2, SameData
<1>4. /\ {c.data : c \in OfKey(k)}' = {c.data : c \in OfKey(k)}
      /\ {c.data : c \in {x \in OfKey(k) : x.left <= 0}}'
           = {c.data : c \in {x \in OfKey(k) : x.left <= 0}}
  BY <1>3 DEF DataOf, OverOf, OfKey
<1>5. CASE k = j
  <2>1. {c.data : c \in {x \in OfKey(k) : x.left > 0}}
          = {c.data : c \in OfKey(k)} \ {c.data : c \in {x \in OfKey(k) : x.left <= 0}}
    <3>1. \A c \in cache : c.left > 0 <=> ~(c.left <= 0)
      BY DEF TypeOK, Cached
    <3>2. QED BY <3>1 DEF OneCopy, OfKey
  <2>2. told'[k] = {c.data : c \in {x \in OfKey(k) : x.left > 0}}
    BY <1>1, <1>5 DEF TypeOK
  <2>3. Answers(k)!Query
    BY <1>1, <1>4, <1>5, <2>1, <2>2 DEF Answers!Query
  <2>4. QED BY <2>3 DEF Answers!Next
<1>6. CASE k # j
  <2>1. (k \in queries)' = (k \in queries) /\ told'[k] = told[k]
    BY <1>1, <1>6 DEF TypeOK
  <2>2. QED BY <1>4, <2>1 DEF Answers!vars
<1>7. QED BY <1>5, <1>6

LEMMA ForgetOne ==
  ASSUME TypeOK, NEW j \in Key, MdnsdForget(j), NEW k \in Key
  PROVE  [Answers(k)!Next]_(Answers(k)!vars)
<1>1. /\ j \in queries /\ queries' = queries \ {j} /\ cache' = Unlink(cache, {j})
      /\ told' = [told EXCEPT ![j] = {}]
  BY DEF MdnsdForget
<1>2. DataOf(k, cache') = DataOf(k, cache) /\ OverOf(k, cache') = OverOf(k, cache)
  BY <1>1, Unlinked, SameData DEF TypeOK
<1>3. /\ {c.data : c \in OfKey(k)}' = {c.data : c \in OfKey(k)}
      /\ {c.data : c \in {x \in OfKey(k) : x.left <= 0}}'
           = {c.data : c \in {x \in OfKey(k) : x.left <= 0}}
  BY <1>2 DEF DataOf, OverOf, OfKey
<1>4. CASE k = j
  <2>1. Answers(k)!Forget
    BY <1>1, <1>3, <1>4 DEF Answers!Forget, TypeOK
  <2>2. QED BY <2>1 DEF Answers!Next
<1>5. CASE k # j
  <2>1. (k \in queries)' = (k \in queries) /\ told'[k] = told[k]
    BY <1>1, <1>5 DEF TypeOK
  <2>2. QED BY <1>3, <2>1 DEF Answers!vars
<1>6. QED BY <1>4, <1>5

\* One resource of a response, for one key.
LEMMA CacheOne ==
  ASSUME "repeat" \notin Env, TypeOK, LinkInv, OneCopy, NothingUnasked,
         NEW j \in Key, NEW v \in Data, NEW t \in Ttl \cup {0}, Cache(j, v, t), NEW k \in Key
  PROVE  [Answers(k)!Next]_(Answers(k)!vars)
<1>1. PICK new, gone : CacheChanges(j, v, t, new, gone)
  BY CacheIs
<1> DEFINE E == Swept(j, v, t)
<1>2. /\ Ends(E, new, gone)
      /\ new = {} <=> t = 0
      /\ t > 0 /\ j \in Shared => Copies(j, v) = {}
  BY <1>1 DEF CacheChanges, Ends
<1>3. E \in SUBSET cache
  BY DEF Swept, OfKey, Copies, Expired
<1>4. new \in SUBSET Cached /\ \A c \in new : c.key = j /\ c.data = v /\ c.left > 0
  <2>1. t \in Nat /\ Lasts(t) > 0
    BY TimeAssumption DEF Lasts
  <2>2. QED BY <1>1, <2>1 DEF CacheChanges
<1>5. DataOf(k, cache) = {c.data : c \in OfKey(k)}
  BY DEF DataOf, OfKey
<1>6. OverOf(k, cache) = {c.data : c \in {x \in OfKey(k) : x.left <= 0}}
  BY DEF OverOf, OfKey
<1>7. DataOf(k, Expired(Bucket[j])) \in {{}, OverOf(k, cache)}
  <2>1. DataOf(k, UNION {Expired(Bucket[x]) : x \in {j}}) \in {{}, OverOf(k, cache)}
    BY ChainSwept DEF LinkInv
  <2>2. UNION {Expired(Bucket[x]) : x \in {j}} = Expired(Bucket[j])
    OBVIOUS
  <2>3. QED BY <2>1, <2>2
<1>8. CASE k # j
  <2>1. DataOf(k, E) \in {{}, OverOf(k, cache)}
    <3>1. DataOf(k, E) \in {{}, DataOf(k, Expired(Bucket[j]))}
      BY <1>8 DEF Swept, DataOf, OfKey, Copies
    <3>2. QED BY <1>7, <3>1
  <2>2. DataOf(k, new) = {}
    BY <1>4, <1>8 DEF DataOf
  <2>3. Answers(k)!End(DataOf(k, E), {})
    <3> HIDE DEF E
    <3>1. Answers(k)!End(DataOf(k, E), DataOf(k, new))
      BY <1>2, <1>3, <1>4, EndsOne
    <3>2. QED BY <2>2, <3>1
  <2>4. CASE DataOf(k, E) = {}
    BY <2>3, <2>4, StutterOne
  <2>5. CASE DataOf(k, E) = OverOf(k, cache) /\ OverOf(k, cache) # {}
    <3>1. Answers(k)!Expire
      BY <1>6, <2>3, <2>5 DEF Answers!Expire
    <3>2. QED BY <3>1 DEF Answers!Next
  <2>6. QED BY <2>1, <2>4, <2>5
<1>9. CASE k = j
  <2>1. Answers(k)!End(DataOf(k, E), DataOf(k, new))
    <3> HIDE DEF E
    <3>1. QED BY <1>2, <1>3, <1>4, EndsOne
  <2>2. v \in DataOf(k, cache) <=> Copies(k, v) # {}
    BY <1>5 DEF Copies
  <2>3. CASE t # 0
    <3>1. t > 0 /\ new # {}
      BY <1>2, <2>3, TimeAssumption
    <3>2. DataOf(k, new) = {v}
      BY <1>4, <1>9, <3>1 DEF DataOf
    <3>3. CASE k \in Shared
      <4>1. E = {}
        BY <1>9, <2>3, <3>3 DEF Swept
      <4>2. DataOf(k, E) = {}
        BY <4>1 DEF DataOf
      <4>3. v \notin {c.data : c \in OfKey(k)}
        BY <1>2, <1>5, <1>9, <2>2, <3>1, <3>3
      <4>4. Answers(k)!Answer(v)
        BY <2>1, <3>2, <3>3, <4>2, <4>3 DEF Answers!Answer
      <4>5. QED BY <4>4 DEF Answers!Next
    <3>4. CASE k \notin Shared
      <4>1. DataOf(k, E) = {c.data : c \in OfKey(k)}
        BY <1>9, <3>4 DEF Swept, DataOf, OfKey, Expired
      <4>2. Answers(k)!Answer(v)
        BY <2>1, <3>2, <3>4, <4>1 DEF Answers!Answer
      <4>3. QED BY <4>2 DEF Answers!Next
    <3>5. QED BY <3>3, <3>4
  <2>4. CASE t = 0
    <3>1. DataOf(k, new) = {}
      BY <1>2, <2>4 DEF DataOf
    <3>2. CASE k \in Shared /\ Copies(k, v) = {}
      <4>1. E = {}
        BY <1>9, <3>2 DEF Swept
      <4>2. DataOf(k, E) = {}
        BY <4>1 DEF DataOf
      <4>3. QED BY <2>1, <3>1, <4>2, StutterOne
    <3>3. CASE k \in Shared /\ Copies(k, v) # {}
      <4>1. E = Copies(k, v) \cup Expired(Bucket[k])
        BY <1>9, <2>4, <3>3 DEF Swept
      <4>2. DataOf(k, E) = {c.data : c \in {x \in OfKey(k) : x.left <= 0}} \cup {v}
        BY <3>3, <4>1 DEF DataOf, Copies, Expired, OfKey
      <4>3. v \in {c.data : c \in OfKey(k)}
        BY <1>5, <2>2, <3>3
      <4>4. Answers(k)!Goodbye(v)
        BY <2>1, <3>1, <3>3, <4>2, <4>3 DEF Answers!Goodbye
      <4>5. QED BY <4>4 DEF Answers!Next
    <3>4. CASE k \notin Shared
      <4>1. DataOf(k, E) = {c.data : c \in OfKey(k)}
        BY <1>9, <3>4 DEF Swept, DataOf, OfKey, Expired
      <4>2. CASE OfKey(k) = {}
        <5>1. DataOf(k, E) = {}
          BY <4>1, <4>2
        <5>2. QED BY <2>1, <3>1, <5>1, StutterOne
      <4>3. CASE OfKey(k) # {}
        <5>1. PICK c \in OfKey(k) : c.data \in Data
          BY <4>3 DEF OfKey, TypeOK, Cached
        <5>2. Answers(k)!Goodbye(c.data)
          BY <2>1, <3>1, <3>4, <4>1, <5>1 DEF Answers!Goodbye
        <5>3. QED BY <5>1, <5>2 DEF Answers!Next
      <4>4. QED BY <4>2, <4>3
    <3>5. QED BY <3>2, <3>3, <3>4
  <2>5. QED BY <2>3, <2>4
<1>10. QED BY <1>8, <1>9

\* mdnsd_out, for one key: its answers leave when they are over, whichever
\* query on the chain has spent its tries.
LEMMA OutOne ==
  ASSUME TypeOK, LinkInv, OneCopy, NothingUnasked, MdnsdOut, NEW k \in Key
  PROVE  [Answers(k)!Next]_(Answers(k)!vars)
<1>1. PICK gone, walked : OutChanges(gone, walked)
  BY OutIs
<1>2. Ends(OutSwept, {}, gone)
  BY <1>1 DEF OutChanges, Ends
<1>3. OutSwept \in SUBSET cache
  BY DEF OutSwept, Expired
<1>4. DataOf(k, OutSwept) \in {{}, OverOf(k, cache)}
  <2> DEFINE S == IF expireall = 0 THEN Key ELSE Spent
  <2>1. S \in SUBSET Key
    BY DEF TypeOK, Spent, Due
  <2> HIDE DEF S
  <2>2. DataOf(k, UNION {Expired(Bucket[x]) : x \in S}) \in {{}, OverOf(k, cache)}
    BY <2>1, ChainSwept DEF LinkInv
  <2>3. QED BY <2>2 DEF OutSwept, S
<1>5. QED BY <1>2, <1>3, <1>4, SweepOne

\* A second, for one key: its answers stay, and what is over stays over.
LEMMA TickOne ==
  ASSUME TypeOK, Tick, NEW k \in Key
  PROVE  [Answers(k)!Next]_(Answers(k)!vars)
<1>1. queries' = queries /\ told' = told
  BY DEF Tick
<1>2. /\ \A d \in cache' : \E c \in cache : /\ c.key = d.key /\ c.data = d.data
                                            /\ d.left = AtLeast(Floor, c.left - 1)
      /\ \A c \in cache : \E d \in cache' : /\ c.key = d.key /\ c.data = d.data
                                            /\ d.left = AtLeast(Floor, c.left - 1)
  BY TickIs DEF TypeOK
<1>3. DataOf(k, cache') = DataOf(k, cache)
  BY <1>2 DEF DataOf
<1>4. \A c \in cache : c.left <= 0 => AtLeast(Floor, c.left - 1) <= 0
  BY DEF TypeOK, Cached, AtLeast, Floor
<1>5. OverOf(k, cache) \subseteq OverOf(k, cache')
  <2>1. ASSUME NEW c \in cache, c.key = k, c.left <= 0 PROVE c.data \in OverOf(k, cache')
    <3>1. PICK d \in cache' : /\ c.key = d.key /\ c.data = d.data
                              /\ d.left = AtLeast(Floor, c.left - 1)
      BY <1>2
    <3>2. d.left <= 0
      BY <1>4, <2>1, <3>1
    <3>3. QED BY <2>1, <3>1, <3>2 DEF OverOf
  <2>2. QED BY <2>1 DEF OverOf
<1>6. OverOf(k, cache') \subseteq DataOf(k, cache')
  BY DEF OverOf, DataOf
<1>7. /\ DataOf(k, cache) = {c.data : c \in OfKey(k)}
      /\ OverOf(k, cache) = {c.data : c \in {x \in OfKey(k) : x.left <= 0}}
      /\ DataOf(k, cache') = {c.data : c \in OfKey(k)}'
      /\ OverOf(k, cache') = {c.data : c \in {x \in OfKey(k) : x.left <= 0}}'
  BY DEF DataOf, OverOf, OfKey
<1>8. Answers(k)!Age
  BY <1>1, <1>3, <1>5, <1>6, <1>7 DEF Answers!Age
<1>9. QED BY <1>8 DEF Answers!Next

LEMMA AloneStep ==
  ASSUME "repeat" \notin Env, TypeOK, LinkInv, OneCopy, NothingUnasked, [Next]_vars,
         NEW k \in Key
  PROVE  [Answers(k)!Next]_(Answers(k)!vars)
<1>1. ASSUME NEW j \in Key, MdnsdQuery(j) PROVE [Answers(k)!Next]_(Answers(k)!vars)
  BY <1>1, QueryOne
<1>2. ASSUME NEW j \in Key, MdnsdForget(j) PROVE [Answers(k)!Next]_(Answers(k)!vars)
  BY <1>2, ForgetOne
<1>3. ASSUME NEW j \in Key, NEW v \in Data, NEW t \in Ttl \cup {0}, Cache(j, v, t)
      PROVE  [Answers(k)!Next]_(Answers(k)!vars)
  BY <1>3, CacheOne
<1>4. CASE MdnsdOut
  BY <1>4, OutOne
<1>5. CASE Tick
  BY <1>5, TickOne
<1>6. CASE UNCHANGED vars
  BY <1>6 DEF vars, asking, OfKey, Answers!vars
<1>7. QED BY <1>1, <1>2, <1>3, <1>4, <1>5, <1>6 DEF Next

-----------------------------------------------------------------------------
\* The theorems

\* A cached answer points to its query exactly while its key has one, whatever
\* a callback removes in the middle of an expiry: no answer is reported to a
\* freed query, and none goes unreported.
THEOREM LinksStayLive == Spec => []LinkedToLive
<1>1. Init => LinkInv
  BY DEF Init, LinkInv, CacheInv, LinkedToLive
<1>2. LinkInv /\ [Next]_vars => LinkInv'
  BY LinkStep
<1>3. LinkInv => LinkedToLive
  BY DEF LinkInv
<1>4. QED BY <1>1, <1>2, <1>3, PTL DEF Spec

\* Every variable of the asking half keeps its type.
THEOREM QueriesTyped == Spec => []TypeOK
<1>1. Init => TypeOK /\ LinkInv
  BY TimeAssumption DEF Init, TypeOK, LinkInv, CacheInv, LinkedToLive
<1>2. TypeOK /\ LinkInv /\ [Next]_vars => TypeOK' /\ LinkInv'
  BY TypesStep, LinkStep
<1>3. QED BY <1>1, <1>2, PTL DEF Spec

\* The invariant the others rest on.
AskInv == TypeOK /\ LinkInv /\ CheckqlistCovers

LEMMA AskInductive == Spec => []AskInv
<1>1. Init => AskInv
  BY TimeAssumption DEF Init, AskInv, TypeOK, LinkInv, CacheInv, LinkedToLive, CheckqlistCovers
<1>2. AskInv /\ [Next]_vars => AskInv'
  BY TypesStep, LinkStep, CoversStep DEF AskInv
<1>3. QED BY <1>1, <1>2, PTL DEF Spec

\* mdnsd_sleep never sleeps past the next try of a query, although mdnsd_out
\* overwrites checkqlist with what it collected before it reset some of them.
THEOREM WakesForEvery == Spec => []CheckqlistCovers
<1>1. AskInv => CheckqlistCovers
  BY DEF AskInv
<1>2. QED BY AskInductive, <1>1, PTL

\* While no peer repeats a shared record that is still cached, the application
\* believes in every answer that is cached and not over.
THEOREM CachedStaysTold ==
  ASSUME "repeat" \notin Env
  PROVE  Spec => []CachedIsTold
<1>1. Init => OneCopy /\ CachedIsTold
  BY DEF Init, OneCopy, CachedIsTold
<1>2. AskInv /\ OneCopy /\ CachedIsTold /\ [Next]_vars => OneCopy' /\ CachedIsTold'
  BY ToldStep DEF AskInv
<1>3. QED BY AskInductive, <1>1, <1>2, PTL DEF Spec

\* While every answer comes before its query gave up, and does not end by the
\* next try, the retries of a query begin before the first of its answers ends.
THEOREM RetriedInTime ==
  ASSUME "late" \notin Env, "short" \notin Env
  PROVE  Spec => []RetriedBeforeEnd
<1>1. Init => SoonInv /\ RetriedBeforeEnd
  BY DEF Init, SoonInv, RetriedBeforeEnd
<1>2. AskInv /\ SoonInv /\ RetriedBeforeEnd /\ [Next]_vars => SoonInv' /\ RetriedBeforeEnd'
  BY SoonStep, RetriedStep DEF AskInv
<1>3. QED BY AskInductive, <1>1, <1>2, PTL DEF Spec

\* Under the same two conditions the application believes in no answer that is
\* not cached, or that was over more than 5 seconds ago: the three tries of the
\* second round end by then, and what follows them expires it.
THEOREM ToldStaysFresh ==
  ASSUME "late" \notin Env, "short" \notin Env
  PROVE  Spec => []ToldIsFresh
<1>1. Init => SoonInv /\ TimelyInv
  BY DEF Init, SoonInv, TimelyInv
<1>2. AskInv /\ SoonInv /\ TimelyInv /\ [Next]_vars => SoonInv' /\ TimelyInv'
  BY SoonStep, TimelyStep DEF AskInv
<1>3. AskInv /\ TimelyInv => ToldIsFresh
  <2> SUFFICES ASSUME AskInv, TimelyInv, NEW k \in Key, NEW v \in told[k]
               PROVE  \E c \in Copies(k, v) : c.left > Floor
    BY DEF ToldIsFresh
  <2>1. nexttry[k] # Never
    BY DEF TimelyInv
  <2>2. PICK c \in cache : /\ c.key = k /\ c.data = v
                           /\ nexttry[k] + Rounds(tries[k]) <= c.left + 5
    BY DEF TimelyInv
  <2>3. nexttry[k] \in Nat /\ Rounds(tries[k]) \in Nat /\ c.left \in Int
    BY <2>1 DEF AskInv, TypeOK, Cached, Rounds
  <2>4. c \in Copies(k, v) /\ c.left > Floor
    BY <2>2, <2>3 DEF Copies, OfKey, Floor
  <2>5. QED BY <2>4
<1>4. QED BY AskInductive, <1>1, <1>2, <1>3, PTL DEF Spec

\* While no peer repeats a shared record that is still cached, every query is
\* MdnsdAnswers: what the daemon hears, asks, expires and removes for the other
\* queries, on the same chain of the cache or not, is to this one at most the
\* end, told of, of answers whose ttl was over.
THEOREM QueriesApart ==
  ASSUME "repeat" \notin Env
  PROVE  Spec => EachAsIfAlone
<1> DEFINE Each == \A k \in Key : [Answers(k)!Next]_(Answers(k)!vars)
           Start == \A k \in Key : Answers(k)!Init
<1>1. Init => Start
  BY DEF Init, OfKey, Answers!Init
<1>2. Init => OneCopy /\ CachedIsTold /\ NothingUnasked
  BY DEF Init, OneCopy, CachedIsTold, NothingUnasked
<1>3. AskInv /\ OneCopy /\ CachedIsTold /\ NothingUnasked /\ [Next]_vars
        => OneCopy' /\ CachedIsTold' /\ NothingUnasked'
  BY ToldStep, UnaskedStep DEF AskInv
<1>4. AskInv /\ OneCopy /\ CachedIsTold /\ NothingUnasked /\ [Next]_vars => [Each]_vars
  BY AloneStep DEF AskInv
<1> HIDE DEF Each, Start
<1>5. Spec => Start /\ [][Each]_vars
  BY AskInductive, <1>1, <1>2, <1>3, <1>4, PTL DEF Spec
<1>6. QED BY <1>5 DEF EachAsIfAlone, Each, Start

\* The same, for the query of one key: it implements MdnsdAnswers.
THEOREM QueryImplements ==
  ASSUME "repeat" \notin Env, NEW k \in Key
  PROVE  Spec => Answers(k)!Spec
<1>1. Init => Answers(k)!Init
  BY DEF Init, OfKey, Answers!Init
<1>2. Init => OneCopy /\ CachedIsTold /\ NothingUnasked
  BY DEF Init, OneCopy, CachedIsTold, NothingUnasked
<1>3. AskInv /\ OneCopy /\ CachedIsTold /\ NothingUnasked /\ [Next]_vars
        => OneCopy' /\ CachedIsTold' /\ NothingUnasked'
  BY ToldStep, UnaskedStep DEF AskInv
<1>4. AskInv /\ OneCopy /\ NothingUnasked /\ [Next]_vars
        => [Answers(k)!Next]_(Answers(k)!vars)
  BY AloneStep DEF AskInv
<1>5. QED BY AskInductive, <1>1, <1>2, <1>3, <1>4, PTL DEF Spec, Answers!Spec
=============================================================================
