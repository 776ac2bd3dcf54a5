------------------------------- MODULE XmlTree -------------------------------
(***************************************************************************)
(* A client of src/xmlnode/xmlnode.c builds two trees, takes nodes out of  *)
(* them, copies from one to the other and reads their text.  Each call is  *)
(* one step of the heap and, next to it, the step of XmlContent that the   *)
(* client expects of it.  Characters are numbers that no node has.         *)
(***************************************************************************)
EXTENDS XmlNode, XmlContent

CONSTANTS
  AttNames,
  AttValues,
  Attributed,  \* the tags that are given attributes by name, not by copying
  MaxNodes     \* bound: nodes of the heap

VARIABLE heap  \* the nodes, in the order they were allocated

vars == <<heap, tree>>

Tags == {x \in DOMAIN heap : heap[x].type = "TAG"}
Children(t) == Siblings(heap, heap[t].first)
Attributes(t) == Siblings(heap, heap[t].fatt)

\* The nodes a client can reach from the tag that holds them.
Shown(t) == {Children(t)[i] : i \in DOMAIN Children(t)}

\* What a node adds to the content of its parent.
Content(x) == IF heap[x].type = "TAG" THEN <<x>> ELSE heap[x].data

ContentOf(xs) ==
  LET upto[i \in 0..Len(xs)] == IF i = 0 THEN <<>> ELSE upto[i - 1] \o Content(xs[i]) IN upto[Len(xs)]

Before(t, x) ==
  LET xs == Children(t) IN ContentOf(SubSeq(xs, 1, (CHOOSE i \in DOMAIN xs : xs[i] = x) - 1))

Init ==
  /\ heap = <<Node("TAG", "t"), Node("TAG", "t")>>
  /\ tree = [t \in {1, 2} |-> Empty]

\* The character data of a chunk: two characters that no other chunk has.
NewText == <<100 + Len(heap), 200 + Len(heap)>>

InsertTag(p) ==
  /\ heap' = insert_tag(heap, p, "t")
  /\ AddTag(p, Len(heap) + 1)

InsertCdata(p, text) ==
  /\ heap' = insert_cdata(heap, p, text)
  /\ AddText(p, text)

PutAttrib(p, name, value) ==
  /\ heap' = put_attrib(heap, p, name, value)
  /\ SetAtt(p, name, value)

HideAttrib(p, name) ==
  /\ heap' = hide_attrib(heap, p, name)
  /\ DropAtt(p, name)

\* A node that is in its parent's list; hiding it a second time would tear the
\* list where it was.
Hide(p, x) ==
  /\ heap' = hide(heap, x)
  /\ Remove(p, Len(Before(p, x)), Len(Content(x)))

GetData(x) ==
  /\ heap' = get_data(heap, x)
  /\ UNCHANGED tree

\* xmlnode_insert_node, and xmlnode_dup when p is new.  A list is not copied
\* into itself: that would not end.
InsertNode(p, q, x) ==
  /\ p # q /\ p \notin Inside(tree[q].kids)
  /\ heap' = insert_node(heap, p, x).h
  /\ Copy(p, q, Len(Before(q, x)), insert_node(heap, p, x).of)

InsertAttribs(p, q) ==
  /\ heap' = insert_node(heap, p, heap[q].fatt).h
  /\ CopyAtts(p, q)

\* xmlnode_wrap of a tag that nothing holds.
Wrap(x) ==
  /\ heap[x].parent = NULL
  /\ heap' = wrap(heap, x, "t")
  /\ Enclose(Len(heap) + 1, x)

\* The calls that build, change and read a tree.
Call ==
  \E p \in Tags :
    \/ InsertTag(p)
    \/ InsertCdata(p, NewText)
    \/ p \in Attributed /\ \E name \in AttNames, value \in AttValues : PutAttrib(p, name, value)
    \/ \E name \in AttNames : HideAttrib(p, name)
    \/ \E x \in Shown(p) : Hide(p, x)
    \/ GetData(p) \/ \E x \in Shown(p) : GetData(x)
    \/ Wrap(p)

\* The calls that copy.
CopyCall ==
  \E p \in Tags, q \in Tags : InsertAttribs(p, q) \/ \E x \in Shown(q) : InsertNode(p, q, x)

Next == (Call \/ CopyCall) /\ Len(heap') <= MaxNodes

Spec == Init /\ [][Next]_vars

-----------------------------------------------------------------------------

\* xs are the siblings from first to last, each one pointing back at the one before.
Linked(xs, last) ==
  /\ last = IF xs = <<>> THEN NULL ELSE xs[Len(xs)]
  /\ \A i \in DOMAIN xs : heap[xs[i]].prev = IF i = 1 THEN NULL ELSE xs[i - 1]

(* Whatever was inserted, hidden, merged and copied, and in any order, the
   lists of children and of attributes read backwards are the lists read
   forwards, their ends are where the tag says, and a child is in one list. *)
ListsAgree ==
  \A t \in Tags :
    /\ Linked(Children(t), heap[t].last)
    /\ Linked(Attributes(t), heap[t].latt)
    /\ \A x \in Shown(t) : heap[x].parent = t

(* The heap holds what a client of the calls it made expects: text in order
   and complete however many chunks it came in and whenever it was read, hidden
   nodes gone and only those, copies equal to their originals. *)
ContentKept ==
  /\ DOMAIN tree = Tags
  /\ \A t \in Tags :
       /\ ContentOf(Children(t)) = tree[t].kids
       /\ [i \in DOMAIN Attributes(t) |-> <<heap[Attributes(t)[i]].name, heap[Attributes(t)[i]].data>>] = tree[t].atts
=============================================================================
