---------------------------- MODULE MdnsdRecords ----------------------------
(***************************************************************************)
(* The publishing half of the multicast DNS daemon of src/dns/mdnsd.c:     *)
(* the records an application creates, the probing of unique records, the  *)
(* announcements, the answers to queries, the goodbyes, the shutdown, and  *)
(* the main loop (src/dns/mhttp.c) that drives them.                       *)
(*                                                                         *)
(* A record (struct mdnsdr_struct) is on up to five chains: the hash       *)
(* published (link "next") and the lists probing, a_now, a_pause and       *)
(* a_publish, which SHARE the one link field "list".  The module keeps     *)
(* that sharing: list is one function, and the four heads point into it.   *)
(* It also keeps the C heap: a record is allocated once, freed at most     *)
(* once, and a step that reads a freed record is a fault.                  *)
(*                                                                         *)
(* Loops of the code that walk a list are one step per iteration (pc, cur  *)
(* and last are their locals); everything else is one step per call.       *)
(***************************************************************************)
EXTENDS Naturals, Sequences

CONSTANTS
  Rec,         \* the records ever allocated (identities of heap blocks)
  Key,         \* the <<name, type>> pairs in use
  Data,        \* the rdata values in use
  Nil,         \* the null pointer; also "nothing was heard of the record"
  Empty,       \* the rdata of a record no mdnsd_set_* was called for
  Gone,        \* what peers heard after a packet with ttl 0
  Other,       \* a resource in a message that is about another name or type
  Frame,       \* records that fit into one packet (d->frame)
  PauseWait,   \* ticks of the answer delay        (20..119 usec in the code)
  ProbeWait,   \* ticks between probes             (250 msec)
  PublishWait, \* ticks between announcements      (2 sec)
  Env,         \* the hard inputs the environment may give, see EnvKinds
  MaxEvents    \* bound on messages, mdnsd_done and repeated mdnsd_set_* calls

\* What the environment may do beyond the everyday traffic:
\*   "late"    the application creates records while it runs, not only before
\*             anything went out (as src/dns/mhttp.c does);
\*   "reset"   the application sets the data of an established record again;
\*   "rival"   a peer's probe claims other data for a record being probed;
\*   "early"   a unicast query hits a record that is still being probed;
\*   "abrupt"  mdnsd_shutdown is called while records are queued.
EnvKinds == {"late", "reset", "rival", "early", "abrupt"}

ASSUME NilAssumption == Nil \notin Rec
ASSUME KeyAssumption == Key # {}
ASSUME WaitAssumption == /\ PauseWait \in Nat
                         /\ ProbeWait \in Nat
                         /\ PublishWait \in Nat
ASSUME FrameAssumption == Frame \in Nat \ {0}
ASSUME EnvAssumption == Env \subseteq EnvKinds /\ MaxEvents \in Nat

VARIABLES
  heap,      \* "none" before malloc, "live", "freed"
  older,     \* the records that existed when the record was created
  key, data, \* rr.name/rr.type, rr.rdata
  unique,    \* 0 shared, 1..4 probing, 5 established
  tries,     \* announcements made
  ttl,       \* rr.ttl, 0 or 1: only being zero matters
  list,      \* the one link the four lists share
  probing, a_now, a_pause, a_publish,  \* list heads
  uanswers,  \* records queued for a unicast answer, newest first
  probe, publish, pause,               \* ticks until the deadline, 0 = due
  shutdown,
  pc,        \* where the main loop is
  cur, last, \* the walking pointers of the loop in progress
  room,      \* what is left of the packet; below Frame, it holds something
  known, claims,  \* the answers and to-be answers of the query in progress
  held,      \* the application still owns its handle
  events,    \* inputs so far, for MaxEvents
  fault,     \* "none", or the loop that read a freed record
  heard,     \* ghost: what peers last heard (multicast) of the record
  probes,    \* ghost: probes sent for the record, counted up to 3
  owed       \* ghost: queued to go out and not sent since

recordVars == <<heap, older, key, data, unique, tries, ttl>>
heads      == <<probing, a_now, a_pause, a_publish>>
timers     == <<probe, publish, pause>>
walk       == <<cur, last, room>>
query      == <<known, claims>>
app        == <<held, events>>
ghosts     == <<heard, probes, owed>>
daemonVars == <<recordVars, list, heads, uanswers, timers, shutdown>>
others     == <<query, app, fault, ghosts>>
vars       == <<daemonVars, pc, walk, others>>

-----------------------------------------------------------------------------
\* Lists

\* r is on the list that starts at h: in every set that holds h and is closed
\* under the link l.
OnList(l, h, r) ==
  /\ h # Nil
  /\ \A C \in SUBSET Rec :
       (h \in C /\ \A x \in C : l[x] \in C \cup {Nil}) => r \in C

\* Every set of records has one whose link leaves it: no cycle.
Acyclic(l) == \A S \in SUBSET Rec : S # {} => \E r \in S : l[r] \notin S

\* Mutants of Push: without the check, and without keeping the rest of the list.
PushUnchecked(l, h, r) == list' = [l EXCEPT ![r] = h] /\ h' = r
PushDropsRest(l, h, r) == list' = [l EXCEPT ![r] = Nil] /\ h' = r

\* "make sure not already on the list, then insert": h is a head variable and
\* l the links when the call is made.
Push(l, h, r) ==
  IF OnList(l, h, r)
    THEN list' = l /\ h' = h
    ELSE list' = [l EXCEPT ![r] = h] /\ h' = r

Live == {r \in Rec : heap[r] = "live"}
Probing(r) == unique[r] \in 1..4

\* The hash chain inserts at its head, so _r_next finds the newest record of a
\* key first and goes on to older ones.
Matches(k) == {r \in Live : key[r] = k}
IsNewest(r, S) == r \in S /\ S \ {r} \subseteq older[r]
NextMatch(S) == IF S = {} THEN Nil ELSE CHOOSE r \in S : IsNewest(r, S)

-----------------------------------------------------------------------------
\* Helpers of the code that queue a record or let it go

\* Mutant: nothing is done for a record whose announcements are over.
RPublishOnce(l, u, r) ==
  IF u \in 1..4 \/ tries[r] = 4
    THEN list' = l /\ UNCHANGED <<tries, publish, a_publish, owed>>
    ELSE /\ tries' = [tries EXCEPT ![r] = 0]
         /\ publish' = 0
         /\ Push(l, a_publish, r)
         /\ owed' = [owed EXCEPT ![r] = TRUE]

\* "force any r out right away, if valid": u is unique[r] at the call.
RPublish(l, u, r) ==
  IF u \in 1..4
    THEN list' = l /\ UNCHANGED <<tries, publish, a_publish, owed>>
    ELSE /\ tries' = [tries EXCEPT ![r] = 0]
         /\ publish' = 0
         /\ Push(l, a_publish, r)
         /\ owed' = [owed EXCEPT ![r] = TRUE]

\* Mutant: a record being announced is not left to a_publish.
AnnouncingNever(r) == FALSE
\* "being published, make sure that happens soon".
Announcing(r) == tries[r] < 4

\* "send r out asap".
RSend(r) ==
  \/ /\ Announcing(r)
     /\ publish' = 0
     /\ UNCHANGED <<list, a_now, a_pause, pause, owed>>
  \/ /\ ~Announcing(r) /\ unique[r] # 0
     /\ Push(list, a_now, r)
     /\ owed' = [owed EXCEPT ![r] = TRUE]
     /\ UNCHANGED <<a_pause, pause, publish>>
  \/ /\ ~Announcing(r) /\ unique[r] = 0
     /\ pause' = PauseWait
     /\ Push(list, a_pause, r)
     /\ owed' = [owed EXCEPT ![r] = TRUE]
     /\ UNCHANGED <<a_now, publish>>

\* Mutant: r is taken for the head.
ZapProbingHead(r) == probing' = list[r] /\ list' = list

\* Take r out of the probing list: the head, or a predecessor, skips it.
ZapProbing(r) ==
  \/ probing = r /\ probing' = list[r] /\ list' = list
  \/ /\ probing # r /\ probing' = probing
     /\ \E p \in Rec : /\ OnList(list, probing, p) /\ list[p] = r
                       /\ list' = [list EXCEPT ![p] = list[r]]

\* Mutants: an established record is freed at once; its goodbye is not queued.
DelistAtOnce(r) ==
  /\ heap' = [heap EXCEPT ![r] = "freed"]
  /\ owed' = [owed EXCEPT ![r] = FALSE]
  /\ IF Probing(r) THEN ZapProbing(r) ELSE UNCHANGED <<list, probing>>
  /\ UNCHANGED <<ttl, a_now, a_pause, publish, pause>>
DelistSilently(r) ==
  /\ ttl' = [ttl EXCEPT ![r] = 0]
  /\ UNCHANGED <<heap, list, probing, a_now, a_pause, publish, pause, owed>>

\* mdnsd_done: a probing record is freed on the spot, any other one gets ttl 0
\* and is freed once its goodbye went out.
Delist(r) ==
  \/ /\ Probing(r)
     /\ ZapProbing(r)
     /\ heap' = [heap EXCEPT ![r] = "freed"]
     /\ owed' = [owed EXCEPT ![r] = FALSE]
     /\ UNCHANGED <<ttl, a_now, a_pause, publish, pause>>
  \/ /\ ~Probing(r)
     /\ ttl' = [ttl EXCEPT ![r] = 0]
     /\ RSend(r)
     /\ UNCHANGED <<heap, probing>>

\* The resource of r goes into a multicast packet.
Say(r) == heard' = [heard EXCEPT ![r] = IF ttl[r] = 0 THEN Gone ELSE data[r]]

\* _r_done when the ttl is 0; either way the packet settles what was owed.
Sent(r) ==
  /\ Say(r)
  /\ owed' = [owed EXCEPT ![r] = FALSE]
  /\ heap' = IF ttl[r] = 0 THEN [heap EXCEPT ![r] = "freed"] ELSE heap

-----------------------------------------------------------------------------
\* The application's calls, made at the top of the main loop

AppMayCall == pc = "sleep" /\ ~shutdown
Holds(r) == heap[r] = "live" /\ held[r]

Create(r, k) ==
  /\ AppMayCall /\ heap[r] = "none"
  /\ "late" \in Env \/ \A x \in Rec : heard[x] = Nil /\ probes[x] = 0
  /\ heap' = [heap EXCEPT ![r] = "live"]
  /\ older' = [older EXCEPT ![r] = {x \in Rec : heap[x] # "none"}]
  /\ key' = [key EXCEPT ![r] = k]
  /\ held' = [held EXCEPT ![r] = TRUE]

MdnsdShared(r, k) ==
  /\ Create(r, k)
  /\ UNCHANGED <<data, unique, tries, ttl, list, heads, uanswers, timers,
                 shutdown, pc, walk, query, events, fault, ghosts>>

MdnsdUnique(r, k) ==
  /\ Create(r, k)
  /\ unique' = [unique EXCEPT ![r] = 1]
  /\ Push(list, probing, r)
  /\ probe' = 0
  /\ UNCHANGED <<data, tries, ttl, a_now, a_pause, a_publish, uanswers,
                 publish, pause, shutdown, pc, walk, query, events, fault,
                 ghosts>>

\* mdnsd_set_raw/host/ip/srv: new data, then _r_publish.
MdnsdSet(r, v) ==
  /\ AppMayCall /\ Holds(r) /\ data[r] # v
  /\ \/ data[r] = Empty /\ unique[r] < 5
     \/ /\ Probing(r) \/ "reset" \in Env
        /\ data[r] # Empty \/ unique[r] = 5
        /\ events < MaxEvents
  /\ events' = IF data[r] = Empty THEN events ELSE events + 1
  /\ data' = [data EXCEPT ![r] = v]
  /\ RPublish(list, unique[r], r)
  /\ UNCHANGED <<heap, older, key, unique, ttl, probing, a_now, a_pause,
                 uanswers, probe, pause, shutdown, pc, walk, query, held,
                 fault, heard, probes>>

MdnsdDone(r) ==
  /\ AppMayCall /\ Holds(r)
  /\ events < MaxEvents /\ events' = events + 1
  /\ held' = [held EXCEPT ![r] = FALSE]
  /\ Delist(r)
  /\ UNCHANGED <<older, key, data, unique, tries, a_publish, uanswers, probe,
                 shutdown, pc, walk, query, fault, heard, probes>>

Settled == probing = Nil /\ a_now = Nil /\ a_pause = Nil /\ a_publish = Nil

\* "shutting down, zero out ttl and push out all records": the records of the
\* hash, newest first, are pushed onto a_now through the shared link, so a_now
\* ends at the newest one.  The main loop goes on to mdnsd_out at once.
MdnsdShutdown ==
  /\ AppMayCall
  /\ Settled \/ "abrupt" \in Env
  /\ shutdown' = TRUE
  /\ pc' = "recv"
  /\ ttl' = [r \in Rec |-> IF r \in Live THEN 0 ELSE ttl[r]]
  /\ owed' = [r \in Rec |-> r \in Live \/ owed[r]]
  /\ \E h \in Rec \cup {Nil} :
       /\ h = Nil <=> Live = {}
       /\ h # Nil => h \in Live /\ \A x \in Live \ {h} : h \in older[x]
       /\ a_now' = h
  /\ \E l \in [Rec -> Rec \cup {Nil}] :
       /\ \A r \in Rec \ Live : l[r] = list[r]
       /\ \A r \in Live :
            \/ l[r] = Nil /\ \A x \in Live : r \notin older[x]
            \/ /\ l[r] \in Live /\ r \in older[l[r]]
               /\ \A x \in Live : r \in older[x] => x = l[r] \/ l[r] \in older[x]
       /\ list' = l
  /\ UNCHANGED <<heap, older, key, data, unique, tries, probing, a_pause,
                 a_publish, uanswers, timers, walk, query, app, fault, heard,
                 probes>>

-----------------------------------------------------------------------------
\* mdnsd_in: the main loop calls it for every packet select() reported

MayReceive == pc \in {"sleep", "recv"} /\ ~shutdown /\ events < MaxEvents

\* One answer of a response: the newest record of its name and type is in
\* conflict when it is unique and the data differs.  (_cache is the other half.)
InAnswer(k, v) ==
  LET r == NextMatch(Matches(k)) IN
  /\ MayReceive /\ r # Nil /\ unique[r] # 0 /\ data[r] # v
  /\ events' = events + 1
  /\ pc' = "recv"
  /\ held' = [held EXCEPT ![r] = FALSE]
  /\ Delist(r)
  /\ UNCHANGED <<older, key, data, unique, tries, a_publish, uanswers, probe,
                 shutdown, walk, query, fault, heard, probes>>

\* No to-be answer in s differs from the data of r.
Agrees(r, s) == s \subseteq {data[r]}

\* One question of a query whose sections an and ns hold the data of resources
\* about k, or Other.  The code walks the first nscount entries of an when it
\* means ns; the two are adjacent in memory, so it reads an \o ns.
InQuery(k, an, ns, unicast) ==
  LET r == NextMatch(Matches(k)) IN
  /\ MayReceive /\ r # Nil
  /\ Probing(r) /\ unicast => "early" \in Env
  /\ events' = events + 1
  /\ pc' = "in" /\ cur' = r
  /\ known' = {an[j] : j \in 1..Len(an)} \ {Other}
  /\ claims' = {(an \o ns)[j] : j \in 1..Len(ns)} \ {Other}
  /\ "rival" \in Env \/ \A x \in Matches(k) : Probing(x) => Agrees(x, claims')
  /\ uanswers' = IF unicast THEN <<r>> \o uanswers ELSE uanswers
  /\ UNCHANGED <<recordVars, list, heads, timers, shutdown, last, room,
                 held, fault, ghosts>>

\* _r_next: on to the next match, or back to the receive loop.
Advance ==
  /\ cur' = NextMatch(Matches(key[cur]) \cap older[cur])
  /\ pc' = IF cur' = Nil THEN "recv" ELSE "in"
  /\ IF cur' = Nil THEN known' = {} /\ claims' = {} ELSE UNCHANGED query

\* A record that is not probed is sent unless the asker knows the answer.
InReply ==
  /\ pc = "in" /\ ~Probing(cur)
  /\ Advance
  /\ IF data[cur] \in known
       THEN UNCHANGED <<list, a_now, a_pause, publish, pause, owed>>
       ELSE RSend(cur)
  /\ UNCHANGED <<recordVars, probing, a_publish, uanswers, probe, shutdown,
                 last, room, app, fault, heard, probes>>

\* A record being probed is only compared with the to-be answers.
InProbed ==
  /\ pc = "in" /\ Probing(cur)
  /\ Agrees(cur, claims)
  /\ Advance
  /\ UNCHANGED <<daemonVars, last, room, app, fault, ghosts>>

\* _conflict frees the record, and the loop goes on with it.
InClash ==
  /\ pc = "in" /\ Probing(cur)
  /\ ~Agrees(cur, claims)
  /\ held' = [held EXCEPT ![cur] = FALSE]
  /\ Delist(cur)
  /\ UNCHANGED <<older, key, data, unique, tries, a_publish, uanswers, probe,
                 shutdown, pc, walk, query, events, fault, heard, probes>>

-----------------------------------------------------------------------------
\* mdnsd_out: called until it returns 0

OutUnicast ==
  /\ pc = "out" /\ uanswers # <<>>
  /\ uanswers' = Tail(uanswers)
  /\ UNCHANGED <<recordVars, list, heads, timers, shutdown, pc, walk, others>>

OutBegin ==
  /\ pc = "out" /\ uanswers = <<>>
  /\ pc' = "out_now" /\ room' = Frame
  /\ UNCHANGED <<daemonVars, cur, last, others>>

\* One iteration of _r_out on the list with head h.
ROut(h) ==
  /\ h # Nil /\ room > 0
  /\ h' = list[h]
  /\ Sent(h)
  /\ room' = room - 1
  /\ UNCHANGED <<older, key, data, unique, tries, ttl, list, probing,
                 a_publish, uanswers, timers, shutdown, pc, cur, last, query,
                 app, fault, probes>>

OutNow == pc = "out_now" /\ ROut(a_now) /\ UNCHANGED a_pause

OutNowEnd ==
  /\ pc = "out_now" /\ (a_now = Nil \/ room = 0)
  /\ \/ /\ a_publish # Nil /\ publish = 0
        /\ pc' = "out_publish" /\ cur' = a_publish
     \/ /\ a_publish = Nil \/ publish > 0
        /\ pc' = "out_pause" /\ cur' = Nil
  /\ last' = Nil
  /\ UNCHANGED <<daemonVars, room, others>>

\* Mutants: off by one; a goodbye is announced again.
StaysForThree(r) == ttl[r] # 0 /\ tries[r] + 1 < 3
StaysAfterGoodbye(r) == tries[r] + 1 < 4
\* The fourth announcement, or one with ttl 0, is the last.
Stays(r) == ttl[r] # 0 /\ tries[r] + 1 < 4

\* "if(d->a_publish == cur) d->a_publish = next; if(last) last->list = next".
Unlink(next) ==
  /\ a_publish' = IF a_publish = cur THEN next ELSE a_publish
  /\ list' = IF last # Nil THEN [list EXCEPT ![last] = next] ELSE list

\* One announcement.
OutPublish ==
  LET next == list[cur] IN
  /\ pc = "out_publish" /\ cur # Nil /\ room > 0
  /\ tries' = [tries EXCEPT ![cur] = @ + 1]
  /\ Sent(cur)
  /\ cur' = next
  /\ IF Stays(cur) THEN last' = cur /\ UNCHANGED <<a_publish, list>>
                   ELSE last' = last /\ Unlink(next)
  /\ room' = room - 1
  /\ UNCHANGED <<older, key, data, unique, ttl, probing, a_now, a_pause,
                 uanswers, timers, shutdown, pc, query, app, fault, probes>>

OutPublishEnd ==
  /\ pc = "out_publish" /\ (cur = Nil \/ room = 0)
  /\ publish' = IF a_publish # Nil THEN PublishWait ELSE publish
  /\ pc' = "out_pause" /\ cur' = Nil /\ last' = Nil
  /\ UNCHANGED <<recordVars, list, heads, uanswers, probe, pause, shutdown,
                 room, others>>

PauseDue == ~shutdown /\ a_pause # Nil /\ pause = 0

OutPause == pc = "out_pause" /\ PauseDue /\ ROut(a_pause) /\ UNCHANGED a_now

\* Mutants: a shutdown ends the output at once, or never.
ReturnsNothing == room = Frame \/ shutdown
ReturnsAlways == room = Frame /\ ~shutdown
\* mdnsd_out returns 0, or goes on to the questions.
NothingSent == room = Frame

\* The returns before the questions, and the choice to probe.
OutReturn ==
  /\ pc = "out_pause" /\ (~PauseDue \/ room = 0)
  /\ \/ ~NothingSent /\ pc' = "out"
     \/ NothingSent /\ shutdown /\ pc' = "exit"
     \/ /\ NothingSent /\ ~shutdown /\ probing # Nil /\ probe = 0
        /\ pc' = "probe_ask"
     \/ /\ NothingSent /\ ~shutdown /\ (probing = Nil \/ probe > 0)
        /\ pc' = "sleep"
  /\ cur' = IF pc' = "probe_ask" THEN probing ELSE Nil
  /\ last' = Nil /\ room' = 0
  /\ UNCHANGED <<daemonVars, others>>

\* Mutant: one probe less.
ProbedTwice(r) == unique[r] = 3
\* "done probing, publish".
Probed(r) == unique[r] = 4

\* Unlink, clear the link, establish, _r_publish.
ProbePromote ==
  LET next == list[cur]
      skipped == IF probing = cur THEN list ELSE [list EXCEPT ![last] = next] IN
  /\ pc = "probe_ask" /\ cur # Nil /\ Probed(cur)
  /\ probing' = IF probing = cur THEN next ELSE probing
  /\ unique' = [unique EXCEPT ![cur] = 5]
  /\ RPublish([skipped EXCEPT ![cur] = Nil], 5, cur)
  /\ cur' = next
  /\ UNCHANGED <<heap, older, key, data, ttl, a_now, a_pause, uanswers, probe,
                 pause, shutdown, pc, last, room, query, app, fault,
                 heard, probes>>

ProbeAsk ==
  /\ pc = "probe_ask" /\ cur # Nil /\ ~Probed(cur)
  /\ last' = cur /\ cur' = list[cur]
  /\ UNCHANGED <<daemonVars, pc, room, others>>

ProbeAskEnd ==
  /\ pc = "probe_ask" /\ cur = Nil
  /\ pc' = "probe_claim" /\ cur' = probing /\ last' = Nil
  /\ UNCHANGED <<daemonVars, room, others>>

\* Mutant: the probe is not counted.
NotCounted(n) == n
Counted(n) == n + 1

\* "scan probe list again to append our to-be answers".
ProbeClaim ==
  /\ pc = "probe_claim" /\ cur # Nil
  /\ unique' = [unique EXCEPT ![cur] = Counted(@)]
  /\ probes' = [probes EXCEPT ![cur] = IF @ < 3 THEN @ + 1 ELSE 3]
  /\ cur' = list[cur]
  /\ UNCHANGED <<heap, older, key, data, tries, ttl, list, heads, uanswers,
                 timers, shutdown, pc, last, room, query, app, fault, heard,
                 owed>>

ProbeClaimEnd ==
  /\ pc = "probe_claim" /\ cur = Nil
  /\ \/ probing # Nil /\ probe' = ProbeWait /\ pc' = "out"
     \/ probing = Nil /\ probe' = probe /\ pc' = "sleep"
  /\ UNCHANGED <<recordVars, list, heads, uanswers, publish, pause, shutdown,
                 walk, others>>

-----------------------------------------------------------------------------
\* mdnsd_sleep and the passing of time

Forever == PauseWait + ProbeWait + PublishWait

\* The first list that holds anything decides.
MdnsdSleep ==
  IF uanswers # <<>> \/ a_now # Nil THEN 0
  ELSE IF a_pause # Nil THEN pause
  ELSE IF probing # Nil THEN probe
  ELSE IF a_publish # Nil THEN publish
  ELSE Forever

\* select() returned: a timeout, or the packets that woke it are read.
StartOut ==
  /\ pc = "recv" \/ (pc = "sleep" /\ MdnsdSleep = 0)
  /\ pc' = "out"
  /\ UNCHANGED <<daemonVars, walk, others>>

\* Mutant: runs past the deadline.
LessWraps(t) == t - 1
Less(t) == IF t = 0 THEN 0 ELSE t - 1

Tick ==
  /\ pc = "sleep" /\ MdnsdSleep > 0
  /\ timers # <<0, 0, 0>>
  /\ probe' = Less(probe) /\ publish' = Less(publish) /\ pause' = Less(pause)
  /\ UNCHANGED <<recordVars, list, heads, uanswers, shutdown, pc, walk, others>>

\* The record the step in progress reads, even if only for its length.
Reads ==
  CASE pc \in {"in", "probe_ask", "probe_claim", "out_publish"} -> cur
    [] pc = "out_now" -> a_now
    [] pc = "out_pause" -> IF PauseDue THEN a_pause ELSE Nil
    [] pc = "out" -> IF uanswers = <<>> THEN Nil ELSE Head(uanswers)
    [] OTHER -> Nil

UseAfterFree == Reads # Nil /\ heap[Reads] # "live"

Crash ==
  /\ UseAfterFree
  /\ fault' = pc
  /\ UNCHANGED <<daemonVars, pc, walk, query, app, ghosts>>

\* Nothing left to do: the process exited, crashed, or sleeps for input.
Rest ==
  /\ fault # "none" \/ pc = "exit" \/ (pc = "sleep" /\ Settled)
  /\ UNCHANGED vars

-----------------------------------------------------------------------------
\* The sections of an incoming query: at most one resource each.
Section == {<<>>} \cup {<<v>> : v \in Data \cup {Other}}

Application ==
  \/ \E r \in Rec, k \in Key : MdnsdShared(r, k) \/ MdnsdUnique(r, k)
  \/ \E r \in Rec, v \in Data : MdnsdSet(r, v)
  \/ \E r \in Rec : MdnsdDone(r)
  \/ MdnsdShutdown

Network ==
  \/ \E k \in Key, v \in Data : InAnswer(k, v)
  \/ \E k \in Key, an \in Section, ns \in Section, unicast \in BOOLEAN :
       InQuery(k, an, ns, unicast)

Daemon ==
  \/ InReply \/ InProbed \/ InClash
  \/ StartOut \/ OutUnicast \/ OutBegin
  \/ OutNow \/ OutNowEnd \/ OutPublish \/ OutPublishEnd \/ OutPause
  \/ OutReturn
  \/ ProbePromote \/ ProbeAsk \/ ProbeAskEnd \/ ProbeClaim \/ ProbeClaimEnd

Running == fault = "none"

Next ==
  \/ /\ Running /\ ~UseAfterFree
     /\ Application \/ Network \/ Daemon \/ Tick
  \/ Running /\ Crash
  \/ Rest

Init ==
  /\ heap = [r \in Rec |-> "none"] /\ older = [r \in Rec |-> {}]
  /\ key = [r \in Rec |-> CHOOSE k \in Key : TRUE]
  /\ data = [r \in Rec |-> Empty] /\ unique = [r \in Rec |-> 0]
  /\ tries = [r \in Rec |-> 0] /\ ttl = [r \in Rec |-> 1]
  /\ list = [r \in Rec |-> Nil]
  /\ probing = Nil /\ a_now = Nil /\ a_pause = Nil /\ a_publish = Nil
  /\ uanswers = <<>>
  /\ probe = 0 /\ publish = 0 /\ pause = 0
  /\ shutdown = FALSE /\ pc = "sleep"
  /\ cur = Nil /\ last = Nil /\ room = 0
  /\ known = {} /\ claims = {}
  /\ held = [r \in Rec |-> FALSE] /\ events = 0 /\ fault = "none"
  /\ heard = [r \in Rec |-> Nil] /\ probes = [r \in Rec |-> 0]
  /\ owed = [r \in Rec |-> FALSE]

Spec == Init /\ [][Next]_vars

\* The main loop calls the daemon again and again, time passes, and nothing
\* obliges the application or the network to do anything.
Step == Running /\ ~UseAfterFree /\ (Daemon \/ Tick)
FairSpec == Spec /\ WF_vars(Step)

-----------------------------------------------------------------------------
\* Properties
RecordTypes ==
  /\ heap \in [Rec -> {"none", "live", "freed"}]
  /\ older \in [Rec -> SUBSET Rec]
  /\ key \in [Rec -> Key]
  /\ data \in [Rec -> Data \cup {Empty}]
  /\ unique \in [Rec -> Nat]
  /\ tries \in [Rec -> Nat]
  /\ ttl \in [Rec -> 0..1]

ListTypes ==
  /\ list \in [Rec -> Rec \cup {Nil}]
  /\ probing \in Rec \cup {Nil} /\ a_now \in Rec \cup {Nil}
  /\ a_pause \in Rec \cup {Nil} /\ a_publish \in Rec \cup {Nil}
  /\ uanswers \in Seq(Rec)

LoopTypes ==
  /\ probe \in Nat /\ publish \in Nat /\ pause \in Nat
  /\ shutdown \in BOOLEAN
  /\ pc \in {"sleep", "recv", "in", "out", "out_now", "out_publish",
             "out_pause", "probe_ask", "probe_claim", "exit"}
  /\ cur \in Rec \cup {Nil} /\ last \in Rec \cup {Nil}
  /\ room \in 0..Frame
  /\ known \subseteq Data /\ claims \subseteq Data

OutsideTypes ==
  /\ held \in [Rec -> BOOLEAN]
  /\ events \in Nat
  /\ fault \in {"none", "in", "out", "out_now", "out_publish", "out_pause",
                "probe_ask", "probe_claim"}
  /\ heard \in [Rec -> Data \cup {Empty, Nil, Gone}]
  /\ probes \in [Rec -> Nat]
  /\ owed \in [Rec -> BOOLEAN]

\* Everything has its type.
TypeOK == RecordTypes /\ ListTypes /\ LoopTypes /\ OutsideTypes

\* No chain of the shared link ever closes into a cycle, so every walk of a
\* list ends, whatever the lists are mixed up with.
LinksAcyclic == Acyclic(list)

\* Until the shutdown, the probing list is exactly the live records that are
\* being probed: mdnsd_done relies on finding them there.
ProbingExact ==
  ~shutdown =>
    \A r \in Rec : OnList(list, probing, r) <=> heap[r] = "live" /\ Probing(r)

\* A unique record is announced only after three probes went out for it.
ProbedBeforeAnnounced ==
  \A r \in Rec : unique[r] # 0 /\ heard[r] \notin {Nil, Gone} => probes[r] >= 3

\* A record peers believe in is never freed without its goodbye.
GoodbyeBeforeFree ==
  \A r \in Rec : heap[r] = "freed" => heard[r] \in {Nil, Gone}

\* Once the announcements are done, what peers last heard of every record is
\* its current data, however often it was set meanwhile.
PeersAreCurrent ==
  pc = "sleep" /\ ~shutdown /\ a_publish = Nil =>
    \A r \in Live : ttl[r] = 1 /\ ~Probing(r) /\ data[r] # Empty
                    => heard[r] = data[r]

Lists == [probing |-> probing, a_now |-> a_now, a_pause |-> a_pause,
          a_publish |-> a_publish]
Queued(r) == \E n \in {"a_now", "a_pause", "a_publish"} : OnList(list, Lists[n], r)

\* The one link serves four lists, so no live record may be on two of them.
ListsApart ==
  \A m, n \in DOMAIN Lists :
    m # n => \A r \in Live : ~(OnList(list, Lists[m], r) /\ OnList(list, Lists[n], r))

\* Outside mdnsd_out no list leads to freed memory, so that the walks of
\* _r_push and mdnsd_done never read any.
ListsAreLive ==
  pc \in {"sleep", "recv", "in"} /\ ~shutdown =>
    \A n \in DOMAIN Lists, r \in Rec : OnList(list, Lists[n], r) => heap[r] = "live"

\* "send r out asap" (mdnsd.c:169): what was queued and not sent since is on
\* some list.
AnswerNotLost == \A r \in Live : owed[r] => Queued(r)

\* A record whose announcements began and are not over is on a_publish, where
\* RSend trusts it to be when tries < 4.
AnnouncementsQueued ==
  ~shutdown =>
    \A r \in Live : tries[r] \in 1..3 => OnList(list, a_publish, r)

\* mdnsd.h:27 "gracefully shutdown the daemon, use mdnsd_out() to get the last
\* packets": no step reads a record that was freed.
NoUseAfterFree == fault = "none"

\* After a shutdown peers believe in none of the records.
ExitSaidGoodbye ==
  pc = "exit" => \A r \in Rec : heard[r] \in {Nil, Gone}

\* Every probing record is established, or given up, or the daemon shuts down.
ProbingEnds ==
  \A r \in Rec :
    heap[r] = "live" /\ Probing(r) ~> ~Probing(r) \/ heap[r] = "freed" \/ shutdown

\* Whatever is queued is sent.
OwedIsSent == \A r \in Rec : owed[r] ~> ~owed[r]

\* A record with data that is done with is freed after its goodbye.
GoodbyeFinishes ==
  \A r \in Rec : heap[r] = "live" /\ ttl[r] = 0 /\ data[r] # Empty
                 ~> heap[r] = "freed"

\* A shutdown gets the main loop to its end.
ShutdownExits == shutdown ~> pc = "exit"
=============================================================================
