---------------------------- MODULE MdnsdAnswers ----------------------------
(***************************************************************************)
(* What src/dns/mdnsd.h promises the application about one query: "answer  *)
(* is called whenever one is found/changes/expires", and the query ends    *)
(* when answer returns -1 or mdnsd_query is called with a NULL answer.     *)
(* There is nothing here of other queries, of the chains of the cache, of  *)
(* retries and timers: a query behaves as though it were the only one.     *)
(***************************************************************************)
CONSTANTS
  Data,    \* what the answers may say
  Shared   \* TRUE for shared records: an answer does not replace the others

VARIABLES
  registered,  \* between mdnsd_query and the end of the query
  cached,      \* the answers mdnsd_list finds
  over,        \* those of them whose ttl ended
  believed     \* what the application has reason to believe in

vars == <<registered, cached, over, believed>>

Init == ~registered /\ cached = {} /\ over = {} /\ believed = {}

\* The callbacks: one for each answer that ended, one for the one found.  If it
\* returns -1 the query is removed; nobody else ends it, and without a call
\* nobody can.
Calls(ended, found) ==
  \/ /\ registered' = registered
     /\ believed' = IF registered THEN (believed \ ended) \cup found ELSE {}
  \/ /\ registered /\ ended \cup found # {}
     /\ ~registered' /\ believed' = {}

\* mdnsd_query, after which the application looks at what is cached.
Query ==
  /\ ~registered /\ registered'
  /\ believed' = cached \ over
  /\ UNCHANGED <<cached, over>>

\* mdnsd_query with a NULL answer.
Forget ==
  /\ registered /\ ~registered'
  /\ believed' = {}
  /\ UNCHANGED <<cached, over>>

\* The answers of ended are told of and gone.
End(ended, found) ==
  /\ cached' = (cached \ ended) \cup found
  /\ over' = over \ ended
  /\ Calls(ended, found)

\* A peer answers.  An answer that is not shared ends the others, also one that
\* says the same.
Answer(v) ==
  /\ Shared => v \notin cached
  /\ End(IF Shared THEN {} ELSE cached, {v})

\* A peer takes its answer back.
Goodbye(v) ==
  /\ v \in cached
  /\ End(IF Shared THEN over \cup {v} ELSE cached, {})

\* The answers whose ttl ended leave together, and no other one does.
Expire == over # {} /\ End(over, {})

\* Time passes: nobody is told before the answer leaves.
Age ==
  /\ over \subseteq over' /\ over' \subseteq cached
  /\ UNCHANGED <<registered, cached, believed>>

Next ==
  \/ Query \/ Forget \/ Expire \/ Age
  \/ \E v \in Data : Answer(v) \/ Goodbye(v)

Spec == Init /\ [][Next]_vars
=============================================================================
