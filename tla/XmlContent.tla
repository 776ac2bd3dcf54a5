----------------------------- MODULE XmlContent -----------------------------
(***************************************************************************)
(* What a client of src/xmlnode/xmlnode.h may think its trees are: a tag   *)
(* has a sequence of characters and tags, and a sequence of attributes.    *)
(* There are no pointers and no chunks of text, and reading changes        *)
(* nothing.                                                                *)
(***************************************************************************)
EXTENDS Naturals, Sequences, FiniteSets

VARIABLE tree   \* for each tag its kids and its atts, pairs of a name and a value

Empty == [kids |-> <<>>, atts |-> <<>>]

With(t, tag) == [x \in DOMAIN tree \cup {t} |-> IF x = t THEN tag ELSE tree[x]]

Position(atts, name) == {i \in DOMAIN atts : atts[i][1] = name}

Set(atts, name, value) ==
  IF Position(atts, name) = {} THEN Append(atts, <<name, value>>)
  ELSE [i \in DOMAIN atts |-> IF atts[i][1] = name THEN <<name, value>> ELSE atts[i]]

AddText(p, text) == tree' = [tree EXCEPT ![p].kids = @ \o text]

AddTag(p, t) == tree' = [With(t, Empty) EXCEPT ![p].kids = Append(@, t)]

Enclose(t, x) == tree' = With(t, [Empty EXCEPT !.kids = <<x>>])

\* n kids, which begin after the first i, are taken out.
Remove(p, i, n) ==
  tree' = [tree EXCEPT ![p].kids = SubSeq(@, 1, i) \o SubSeq(@, i + n + 1, Len(@))]

SetAtt(p, name, value) == tree' = [tree EXCEPT ![p].atts = Set(@, name, value)]

DropAtt(p, name) == tree' = [tree EXCEPT ![p].atts = SelectSeq(@, LAMBDA a : a[1] # name)]

TagsOf(kids) == {kids[i] : i \in DOMAIN kids} \cap DOMAIN tree

\* The tags inside the kids, at any depth.
Inside(kids) ==
  LET upto[n \in 0..Cardinality(DOMAIN tree)] ==
        IF n = 0 THEN TagsOf(kids) ELSE upto[n - 1] \cup UNION {TagsOf(tree[t].kids) : t \in upto[n - 1]}
  IN  upto[Cardinality(DOMAIN tree)]

\* Copies of the kids of q behind the first i are added to p; of tells the copies.
Copy(p, q, i, of) ==
  LET kids == SubSeq(tree[q].kids, i + 1, Len(tree[q].kids))
      copied == Inside(kids)
      Renamed(ks) == [k \in DOMAIN ks |-> IF ks[k] \in copied THEN of[ks[k]] ELSE ks[k]]
      Source(t) == CHOOSE x \in copied : of[x] = t
  IN  tree' = [t \in DOMAIN tree \cup {of[x] : x \in copied} |->
                 IF t = p THEN [tree[p] EXCEPT !.kids = @ \o Renamed(kids)]
                 ELSE IF t \in DOMAIN tree THEN tree[t]
                 ELSE [tree[Source(t)] EXCEPT !.kids = Renamed(@)]]

\* The attributes of q are set one after the other.
CopyAtts(p, q) ==
  LET set[i \in 0..Len(tree[q].atts)] ==
        IF i = 0 THEN tree[p].atts ELSE Set(set[i - 1], tree[q].atts[i][1], tree[q].atts[i][2])
  IN  tree' = [tree EXCEPT ![p].atts = set[Len(tree[q].atts)]]
=============================================================================
