---------------------------- MODULE MdnsdQueries ----------------------------
(***************************************************************************)
(* The asking half of the multicast DNS daemon of src/dns/mdnsd.c: the     *)
(* queries an application registers, the questions sent for them and their *)
(* retries, the cache of answers heard, its expiry, and the answer         *)
(* callbacks that tell the application of both.                            *)
(*                                                                         *)
(* The daemon is single-threaded and a call runs to its end, so each call  *)
(* is one step.  What a callback returns is the application's choice: -1   *)
(* removes the query in the middle of the daemon's walk.                   *)
(*                                                                         *)
(* Times are kept relative to now, in seconds: left is rr.ttl - now,       *)
(* nexttry and checkqlist are the seconds until then, 0 when that is now   *)
(* or in the past, Never when the field is 0.                              *)
(***************************************************************************)
EXTENDS Integers, FiniteSets

CONSTANTS
  Key,       \* the <<name, type>> pairs in use
  Data,      \* the rdata values in use
  Ttl,       \* the ttls peers give their records, apart from 0
  Bucket,    \* the hash chain of the cache a key is on (by its name alone)
  Shared,    \* keys of shared records: their answers come without flush bit
  SameSlot,  \* keys whose name hashes to one value modulo SPRIME and LPRIME
  Never,     \* no time: the field is 0
  GC,        \* seconds between two sweeps of the whole cache (86400)
  Env,       \* the hard inputs the environment may give, see EnvKinds
  MaxEvents  \* bound on messages and registrations

\* What peers may do beyond the everyday traffic:
\*   "repeat"  say a shared record again that is still cached;
\*   "late"    answer a query that gave up after its three tries;
\*   "short"   answer a query with a ttl that is over by its next try.
EnvKinds == {"repeat", "late", "short"}

ASSUME TimeAssumption == /\ Ttl \subseteq Nat \ {0}
                         /\ GC \in Nat
                         /\ Never \notin Nat
ASSUME KeyAssumption == /\ Shared \subseteq Key /\ SameSlot \subseteq Key
                        /\ Bucket \in [Key -> Nat]
ASSUME EnvAssumption == Env \subseteq EnvKinds /\ MaxEvents \in Nat

VARIABLES
  queries,    \* the registered keys: queries[] and qlist
  nexttry, tries,
  cache,      \* the cached answers; q tells whether c->q is set
  checkqlist,
  expireall,  \* seconds until now > expireall, 0 when it is
  told,       \* what the application believes present
  events,     \* inputs so far, for MaxEvents
  fault       \* "none", or why the process crashed

asking == <<queries, nexttry, tries, checkqlist>>
vars == <<asking, cache, expireall, told, events, fault>>

\* Bound on how long past its end an answer is still counted down.
Floor == -6
Cached == [key : Key, data : Data, left : Int, q : BOOLEAN]

-----------------------------------------------------------------------------
\* Helpers

MinOf(S) == CHOOSE x \in S : \A y \in S : x <= y
Soonest(S) == IF S = {} THEN Never ELSE MinOf(S)
AtLeast(n, x) == IF x < n THEN n ELSE x

OfKey(k) == {c \in cache : c.key = k}

\* Mutant: the sweep of a chain does not look at the ttl.
ExpiredOrNot(b) == {c \in cache : Bucket[c.key] = b}
\* What _c_expire finds on the chain b.
Expired(b) == {c \in cache : Bucket[c.key] = b /\ c.left <= 0}

\* Mutant: the query sleeps until the last answer ends, not the first.
RetryByLast(k, C) ==
  LET ends == {AtLeast(0, c.left - 7) : c \in {x \in C : x.key = k}} IN
  IF ends = {} THEN Never ELSE CHOOSE x \in ends : \A y \in ends : x >= y
\* _q_reset: 7 seconds before the first of the answers in C ends.
Retry(k, C) == Soonest({AtLeast(0, c.left - 7) : c \in {x \in C : x.key = k}})

\* The queries whose callback an expiry of the answers in E calls.
Hears(E) == {c.key : c \in {x \in E : x.q}}

\* c->q is set or cleared.
Relink(c, b) == [c EXCEPT !.q = b]

\* Mutant: its answers keep pointing to the removed query.
UnlinkNone(C, gone) == C
\* _q_done: the answers of a removed query no longer point to it.
Unlink(C, gone) ==
  {Relink(c, c.q /\ c.key \notin gone) : c \in C}

\* _q_done takes the query out of queries[] at the index it has in the larger
\* table: unless the two coincide, the walk runs off the chain it is not on.
\* Reading a freed block either still finds its fields or crashes.
Outcome(gone, stale) ==
  \/ gone \subseteq SameSlot /\ fault' = "none"
  \/ gone \subseteq SameSlot /\ stale /\ fault' = "stale"
  \/ ~(gone \subseteq SameSlot) /\ fault' = "slot"

\* Mutant: an expiry calls nobody.
TellsNothing(E, new, gone) ==
  told' = [k \in Key |->
    IF k \notin queries \ gone THEN {}
    ELSE told[k] \cup {c.data : c \in {x \in new : x.key = k}}]
\* The callbacks: first the expired answers of E, then the new one; gone are
\* the queries whose callback returned -1.
Tells(E, new, gone) ==
  told' = [k \in Key |->
    IF k \notin queries \ gone THEN {}
    ELSE (told[k] \ {c.data : c \in {x \in E : x.q /\ x.key = k}})
           \cup {c.data : c \in {x \in new : x.key = k}}]

\* Without the fields of the queries that are gone.
Kept(f, none, gone) == [k \in Key |-> IF k \in gone THEN none ELSE f[k]]

Running == fault = "none"
Event == events < MaxEvents /\ events' = events + 1

-----------------------------------------------------------------------------
\* The application's calls

\* mdnsd_query for a key without one: the question is sent at once, whatever
\* _q_reset found for the answers cached already.  The application also looks
\* at what is cached already (mdnsd_list): it is not called back for that.
MdnsdQuery(k) ==
  /\ Event /\ k \notin queries
  /\ queries' = queries \cup {k}
  /\ cache' = {Relink(c, c.q \/ c.key = k) : c \in cache}
  /\ tries' = [tries EXCEPT ![k] = 0]
  /\ nexttry' = [nexttry EXCEPT ![k] = 0]
  /\ checkqlist' = 0
  /\ told' = [told EXCEPT ![k] = {c.data : c \in {x \in OfKey(k) : x.left > 0}}]
  /\ UNCHANGED <<expireall, fault>>

\* mdnsd_query with a NULL answer.
MdnsdForget(k) ==
  /\ k \in queries
  /\ queries' = queries \ {k}
  /\ cache' = Unlink(cache, {k})
  /\ tries' = Kept(tries, 0, {k}) /\ nexttry' = Kept(nexttry, Never, {k})
  /\ told' = [told EXCEPT ![k] = {}]
  /\ Outcome({k}, FALSE)
  /\ UNCHANGED <<checkqlist, expireall, events>>

-----------------------------------------------------------------------------
\* mdnsd_in and _cache: one resource of a response

Lasts(t) == (t \div 2) + 8
Copies(k, v) == {c \in OfKey(k) : c.data = v}

\* The flush bit sweeps every answer of the key, a ttl of 0 those with the same
\* data; either way _c_expire then takes whatever else is over on the chain.
Swept(k, v, t) ==
  IF k \notin Shared THEN OfKey(k) \cup Expired(Bucket[k])
  ELSE IF t = 0 /\ Copies(k, v) # {} THEN Copies(k, v) \cup Expired(Bucket[k])
  ELSE {}

\* A resource with a ttl is cached whether or not an equal one is already.
\* A delete reads c->next of the answer it has just freed.
Cache(k, v, t) ==
  LET swept == Swept(k, v, t) IN
  /\ Event
  /\ t > 0 /\ k \in Shared /\ Copies(k, v) # {} => "repeat" \in Env
  /\ t > 0 /\ k \in queries /\ nexttry[k] = Never => "late" \in Env
  /\ t > 0 /\ k \in queries /\ nexttry[k] # Never /\ nexttry[k] >= Lasts(t)
       => "short" \in Env
  /\ \E refuse \in SUBSET Hears(swept), enough \in BOOLEAN :
       LET q == k \in queries \ refuse
           new == IF t = 0 THEN {}
                  ELSE {[key |-> k, data |-> v, left |-> Lasts(t), q |-> q]}
           gone == refuse \cup IF enough /\ q /\ t > 0 THEN {k} ELSE {} IN
       /\ queries' = queries \ gone
       /\ cache' = Unlink((cache \ swept) \cup new, gone)
       /\ Tells(swept, new, gone)
       /\ tries' = Kept(tries, 0, gone)
       /\ nexttry' = Kept(nexttry, Never, gone)
       /\ Outcome(gone, t = 0 /\ k \in Shared /\ swept # {})
  /\ UNCHANGED <<checkqlist, expireall>>

-----------------------------------------------------------------------------
\* mdnsd_out: the questions and the sweep of the cache

Due == {k \in queries : nexttry[k] = 0}

\* Mutant: the retries never end.
TriesForever(k) == TRUE
\* Asked again unless its three tries are over.
MoreTries(k) == tries[k] < 3

Asked == IF checkqlist = 0 THEN {k \in Due : MoreTries(k)} ELSE {}
Spent == IF checkqlist = 0 THEN Due \ Asked ELSE {}

\* Mutant: the queries that wait are not looked at.
NextBestOfAsked(passed) == Soonest({tries[k] + 1 : k \in passed})
\* nextbest: over the queries not asked, as they were before the walk, and over
\* those the walk asked.
NextBest(passed) ==
  Soonest({nexttry[k] : k \in {x \in queries \ Asked : nexttry[x] # Never}}
            \cup {tries[k] + 1 : k \in passed})

\* Mutant: the sweep does not set its next time.
SweepAgain == 0
\* One second after expireall.
NextSweep == GC + 1

\* What the walk expires, for each query whose tries are over, and the sweep
\* of every chain once a day.
OutSwept == UNION {Expired(Bucket[k]) : k \in IF expireall = 0 THEN Key ELSE Spent}

\* The walk over qlist counts the tries of the queries asked and resets the
\* ones whose tries are over.  missed are those an expiry took from the list
\* before the walk came to them.  A query whose own expiry removed it is reset
\* after it was freed.
MdnsdOut ==
  \E gone \in SUBSET Hears(OutSwept) :
  \E missed \in SUBSET {k \in Asked \cap gone :
                          \E j \in Spent : Bucket[j] = Bucket[k]} :
    /\ queries' = queries \ gone
    /\ cache' = Unlink(cache \ OutSwept, gone)
    /\ Tells(OutSwept, {}, gone)
    /\ tries' = Kept([k \in Key |-> IF k \in Asked THEN tries[k] + 1
                                    ELSE IF k \in Spent THEN 0 ELSE tries[k]],
                     0, gone)
    /\ nexttry' = Kept([k \in Key |->
                          IF k \in Asked THEN tries[k] + 1
                          ELSE IF k \in Spent THEN Retry(k, cache \ OutSwept)
                          ELSE nexttry[k]],
                       Never, gone)
    /\ checkqlist' = IF checkqlist = 0 THEN NextBest(Asked \ missed)
                                       ELSE checkqlist
    /\ expireall' = IF expireall = 0 THEN NextSweep ELSE expireall
    /\ Outcome(gone, Spent \cap gone # {})
    /\ UNCHANGED events

-----------------------------------------------------------------------------
\* mdnsd_sleep, the main loop and the passing of time

\* The next try, or without one the next sweep.
MdnsdSleep == IF checkqlist # Never THEN checkqlist ELSE AtLeast(0, expireall - 1)

\* select() timed out.
Woken == MdnsdSleep = 0 /\ MdnsdOut

Less(t) == IF t = Never THEN Never ELSE AtLeast(0, t - 1)

\* A second passes while the process sleeps, or while the main loop spins
\* through the last second before the sweep.
Tick ==
  /\ MdnsdSleep > 0 \/ (checkqlist = Never /\ expireall = 1)
  /\ cache' = {[c EXCEPT !.left = AtLeast(Floor, @ - 1)] : c \in cache}
  /\ nexttry' = [k \in Key |-> Less(nexttry[k])]
  /\ checkqlist' = Less(checkqlist)
  /\ expireall' = Less(expireall)
  /\ UNCHANGED <<queries, tries, told, events, fault>>

-----------------------------------------------------------------------------
\* MdnsdOut also runs early, whenever a packet wakes the main loop.
Next ==
  \/ Running /\ \E k \in Key : MdnsdQuery(k) \/ MdnsdForget(k)
  \/ Running /\ \E k \in Key, v \in Data, t \in Ttl \cup {0} : Cache(k, v, t)
  \/ Running /\ MdnsdOut
  \/ Running /\ Tick
  \/ ~Running /\ UNCHANGED vars

Init ==
  /\ queries = {} /\ cache = {}
  /\ nexttry = [k \in Key |-> Never] /\ tries = [k \in Key |-> 0]
  /\ checkqlist = Never /\ expireall = GC + 1
  /\ told = [k \in Key |-> {}]
  /\ events = 0 /\ fault = "none"

Spec == Init /\ [][Next]_vars

\* select() returns once its time is over, and time passes.
FairSpec == Spec /\ WF_vars(Running /\ Woken) /\ WF_vars(Running /\ Tick)

-----------------------------------------------------------------------------
\* Properties

TypeOK ==
  /\ queries \subseteq Key
  /\ nexttry \in [Key -> Nat \cup {Never}]
  /\ tries \in [Key -> 0..3]
  /\ cache \subseteq Cached
  /\ checkqlist \in Nat \cup {Never}
  /\ expireall \in Nat
  /\ told \in [Key -> SUBSET Data]
  /\ events \in Nat
  /\ fault \in {"none", "stale", "slot"}

\* A cached answer points to a query exactly while its key has one: no answer
\* is reported to a query that was freed, and none goes unreported.
LinkedToLive == \A c \in cache : c.q <=> c.key \in queries

\* The daemon wakes for every query that waits for its next try.
CheckqlistCovers ==
  \A k \in queries : nexttry[k] # Never =>
    checkqlist # Never /\ checkqlist <= nexttry[k]

\* What the application believes in is cached, and was over at most 5 seconds
\* ago, the last retries of the query included.
ToldIsFresh ==
  \A k \in Key : \A v \in told[k] : \E c \in Copies(k, v) : c.left > Floor

\* mdnsd.c:316 "start retrying just after half-waypoint, then expire": a query
\* with an answer is being asked, or will be before the answer ends.
RetriedBeforeEnd ==
  \A c \in cache : c.key \in queries /\ c.left > 0 =>
    /\ nexttry[c.key] # Never
    /\ tries[c.key] > 0 \/ nexttry[c.key] <= c.left

\* To the application each query behaves as MdnsdAnswers says, as if it had the
\* cache for itself: what is heard, swept or removed for the other queries of
\* its chain ends none of its answers before their time, and each end is told.
Answers(k) == INSTANCE MdnsdAnswers WITH
  Shared <- k \in Shared,
  registered <- k \in queries,
  cached <- {c.data : c \in OfKey(k)},
  over <- {c.data : c \in {x \in OfKey(k) : x.left <= 0}},
  believed <- told[k]
EachAsIfAlone ==
  /\ \A k \in Key : Answers(k)!Init
  /\ [][\A k \in Key : [Answers(k)!Next]_(Answers(k)!vars)]_vars

\* mdnsd.h:57 "either answer returns -1, or another mdnsd_query with a NULL
\* answer will remove/unregister this query": that leaves the process running.
RemovalWorks == fault # "slot"

\* A query that waits for a try gets it.
QueryIsAsked ==
  \A k \in Key :
    k \in queries /\ tries[k] = 0 /\ nexttry[k] # Never
      ~> k \notin queries \/ tries[k] > 0 \/ ~Running

\* The application learns of every answer that ended.
EndIsTold ==
  \A k \in Key, v \in Data :
    v \in told[k] /\ (\A c \in Copies(k, v) : c.left <= 0)
      ~> v \notin told[k] \/ (\E c \in Copies(k, v) : c.left > 0) \/ ~Running

\* The retries never keep the main loop busy for good.
SleepsAgain == []<>(MdnsdSleep > 0 \/ ~Running)
=============================================================================
