------------------------------ MODULE XmlNode ------------------------------
(***************************************************************************)
(* The nodes of src/xmlnode/xmlnode.c: tags, attributes and character      *)
(* data, linked to their siblings in both directions.  A heap h is a       *)
(* sequence of nodes and a pointer an index into it, 0 for NULL.  Nodes    *)
(* are never freed one by one, so a new node takes the next index.  Text   *)
(* is a sequence of characters.  An operator that changes the heap gives   *)
(* it back, with the new node at its end.                                  *)
(***************************************************************************)
EXTENDS Integers, Sequences

NULL == 0
NullText == <<"NULL">>   \* a char* that is NULL

\* _xmlnode_new zeroes a node; only a name and a type are set.
Node(type, name) ==
  [type |-> type, name |-> name, data |-> NullText, parent |-> NULL, first |-> NULL, last |-> NULL,
   next |-> NULL, prev |-> NULL, fatt |-> NULL, latt |-> NULL, complete |-> FALSE]

new(h, name, type) == Append(h, Node(type, name))

append_sibling(h, last, name, type) ==
  [Append(h, [Node(type, name) EXCEPT !.prev = last]) EXCEPT ![last].next = Len(h) + 1]

\* _xmlnode_insert: the first child, or the one after the last child.
insert(h, parent, name, type) ==
  LET h2 == IF h[parent].first = NULL THEN [new(h, name, type) EXCEPT ![parent].first = Len(h) + 1]
            ELSE append_sibling(h, h[parent].last, name, type)
  IN  [h2 EXCEPT ![Len(h) + 1].parent = parent, ![parent].last = Len(h) + 1]

insert_tag(h, parent, name) == insert(h, parent, name, "TAG")

\* Every chunk of character data is a node of its own, also next to another one.
insert_cdata(h, parent, text) ==
  LET h2 == insert(h, parent, "", "CDATA") IN [h2 EXCEPT ![Len(h2)].data = text]

Pointer(h, x) == IF x = NULL THEN "UNDEF" ELSE h[x].type

\* x and what follows it.  A sibling always has a higher index.
Siblings(h, x) ==
  LET from[k \in 0..Len(h)] == IF k = NULL THEN <<>> ELSE <<k>> \o from[h[k].next] IN from[x]

\* The first of the nodes xs that is one of hits.
FirstOf(xs, hits) ==
  IF \A i \in DOMAIN xs : xs[i] \notin hits THEN NULL
  ELSE xs[CHOOSE i \in DOMAIN xs : xs[i] \in hits /\ \A j \in 1..(i - 1) : xs[j] \notin hits]

search(h, firstsibling, name, type) ==
  FirstOf(Siblings(h, firstsibling), {k \in DOMAIN h : h[k].type = type /\ h[k].name = name})

\* The chunks a merge takes: x and the CDATA nodes right after it.
Chunks(h, x) ==
  LET from[k \in 0..Len(h)] == IF Pointer(h, k) # "CDATA" THEN <<>> ELSE <<k>> \o from[h[k].next]
  IN  from[x]

Joined(h, xs) ==
  LET upto[i \in 0..Len(xs)] == IF i = 0 THEN <<>> ELSE upto[i - 1] \o h[xs[i]].data IN upto[Len(xs)]

\* A mutant: the node after the merged ones still points back at the last of them.
merge_forward(h, x) ==
  LET xs == Chunks(h, x)
      cur == h[xs[Len(xs)]].next
      h2 == [h EXCEPT ![x].data = Joined(h, xs), ![x].next = cur]
  IN  IF cur = NULL THEN [h2 EXCEPT ![h[x].parent].last = x] ELSE h2

\* _xmlnode_merge: the text of all chunks goes into the first, the rest is unlinked.
merge(h, x) ==
  LET xs == Chunks(h, x)
      cur == h[xs[Len(xs)]].next
      h2 == [h EXCEPT ![x].data = Joined(h, xs), ![x].next = cur]
  IN  IF cur = NULL THEN [h2 EXCEPT ![h[x].parent].last = x] ELSE [h2 EXCEPT ![cur].prev = x]

\* The node xmlnode_get_data reads: for a tag, its first CDATA child.
DataNode(h, x) ==
  IF h[x].type # "TAG" THEN x
  ELSE FirstOf(Siblings(h, h[x].first), {k \in DOMAIN h : h[k].type = "CDATA"})

\* xmlnode_get_data changes the tree it reads: it merges the chunks first.
get_data(h, x) ==
  LET n == DataNode(h, x)
  IN  IF n # NULL /\ Pointer(h, h[n].next) = "CDATA" THEN merge(h, n) ELSE h

DataOf(h, x) == IF DataNode(h, x) = NULL THEN NullText ELSE h[DataNode(h, x)].data

\* xmlnode_put_attrib: the attribute of this name, or a new one after the last.
put_attrib(h, owner, name, value) ==
  LET Put(old) ==
        IF old # NULL THEN [h EXCEPT ![old].data = value]
        ELSE IF h[owner].fatt = NULL
          THEN [new(h, name, "ATTRIB") EXCEPT ![owner].fatt = Len(h) + 1, ![owner].latt = Len(h) + 1,
                                              ![Len(h) + 1].data = value]
        ELSE [append_sibling(h, h[owner].latt, name, "ATTRIB") EXCEPT ![owner].latt = Len(h) + 1,
                                                                      ![Len(h) + 1].data = value]
  IN  Put(search(h, h[owner].fatt, name, "ATTRIB"))

hide_sibling(h, x) ==
  LET p == h[x].prev
      n == h[x].next
      h2 == IF p = NULL THEN h ELSE [h EXCEPT ![p].next = n]
  IN  IF n = NULL THEN h2 ELSE [h2 EXCEPT ![n].prev = p]

\* A mutant: the last child is taken out of the list but not out of its parent.
hide_first(h, x) ==
  LET p == h[x].parent
  IN  IF p = NULL THEN h
      ELSE [hide_sibling(h, x) EXCEPT ![p].first = IF @ = x THEN h[x].next ELSE @]

\* xmlnode_hide: x leaves the list, and keeps its own pointers into it.
hide(h, x) ==
  LET p == h[x].parent
  IN  IF p = NULL THEN h
      ELSE [hide_sibling(h, x) EXCEPT ![p].first = IF @ = x THEN h[x].next ELSE @,
                                      ![p].last = IF @ = x THEN h[x].prev ELSE @]

hide_attrib(h, owner, name) ==
  LET at == search(h, h[owner].fatt, name, "ATTRIB")
  IN  IF at = NULL THEN h
      ELSE [hide_sibling(h, at) EXCEPT ![owner].fatt = IF @ = at THEN h[at].next ELSE @,
                                       ![owner].latt = IF @ = at THEN h[at].prev ELSE @]

\* The node behind k, and behind the chunks that are merged into k.
Behind(h, k) ==
  IF Pointer(h, k) # "CDATA" THEN h[k].next ELSE h[Chunks(h, k)[Len(Chunks(h, k))]].next

\* What xmlnode_insert_node visits from node on: k is copied below the copy of
\* up (0: below the new parent), attributes before children.
Below(h, node) ==
  LET visit[k \in 0..Len(h)] ==
        LET inner == IF Pointer(h, k) # "TAG" THEN <<>> ELSE visit[h[k].fatt][k] \o visit[h[k].first][k]
        IN  [up \in 0..Len(h) |->
               IF k = NULL THEN <<>> ELSE <<[k |-> k, up |-> up]>> \o inner \o visit[Behind(h, k)][up]]
  IN  visit[node][0]

\* The copy of k goes into to; the chunks of the original are merged on the way.
\* s.of is where the copies are.
CopyNode(h, s, k, to) ==
  LET read == get_data(s.h, k)
  IN  CASE h[k].type = "ATTRIB" -> [s EXCEPT !.h = put_attrib(@, to, h[k].name, h[k].data)]
        [] h[k].type = "TAG" -> [h |-> insert_tag(s.h, to, h[k].name),
                                 of |-> [s.of EXCEPT ![k] = Len(s.h) + 1]]
        [] OTHER -> [s EXCEPT !.h = insert_cdata(read, to, DataOf(read, k))]

\* xmlnode_insert_node: copies of node and of its siblings behind it go into parent.
insert_node(h, parent, node) ==
  LET todo == Below(h, node)
      upto[i \in 0..Len(todo)] ==
        IF i = 0 THEN [h |-> h, of |-> [k \in 0..Len(h) |-> parent]]
        ELSE CopyNode(h, upto[i - 1], todo[i].k, upto[i - 1].of[todo[i].up])
  IN  upto[Len(todo)]

\* xmlnode_wrap: a new tag around x, which stays in the list of its old parent.
wrap(h, x, wrapper) ==
  [new(h, wrapper, "TAG") EXCEPT ![Len(h) + 1].first = x, ![Len(h) + 1].last = x, ![x].parent = Len(h) + 1]
=============================================================================
