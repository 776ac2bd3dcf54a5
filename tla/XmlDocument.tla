---------------------------- MODULE XmlDocument ----------------------------
(***************************************************************************)
(* A document given to XML_Parse piece by piece, as xmlnode_file and       *)
(* xmlnode_str do (src/xmlnode/expat.c): the buffer that keeps what a      *)
(* piece left unread (XML_Parse, XML_ParseBuffer, XML_GetBuffer) around    *)
(* the processors of XmlParse.  b.buf is the allocated buffer, b.ptr and   *)
(* b.end the offsets of bufferPtr and bufferEnd in it.                     *)
(***************************************************************************)
EXTENDS XmlParse

CONSTANTS
  Docs,        \* the documents
  Sizes,       \* the lengths of the pieces
  InitBuffer   \* INIT_BUFFER_SIZE (1024)

VARIABLES
  text,    \* the document
  pos,     \* how much of it was given to the parser
  c,       \* the parser
  b,       \* its buffer
  done     \* XML_Parse failed, or was told that the document ends

vars == <<text, pos, c, b, done>>

Junk == "junk"   \* memory that malloc did not initialise

Init ==
  /\ text \in {Chars(doc) : doc \in Docs}
  /\ pos = 0
  /\ c = ParserCreate
  /\ b = [buf |-> <<>>, ptr |-> 0, end |-> 0]
  /\ done = FALSE

Kept(buffer) == SubSeq(buffer.buf, buffer.ptr + 1, buffer.end)

\* Memory of size characters that begins with start.
Block(size, start) == [k \in 1..size |-> IF k <= Len(start) THEN start[k] ELSE Junk]

\* A mutant: the end is not moved with the text.
MoveTextOnly(buffer) ==
  [buffer EXCEPT !.buf = Kept(buffer) \o SubSeq(@, buffer.end - buffer.ptr + 1, Len(@)), !.ptr = 0]

\* What is kept moves to the start of the buffer.
MoveDown(buffer) ==
  [buf |-> Kept(buffer) \o SubSeq(buffer.buf, buffer.end - buffer.ptr + 1, Len(buffer.buf)),
   ptr |-> 0, end |-> buffer.end - buffer.ptr]

Doubled(size, needed) ==
  LET twice[k \in Nat] == IF k = 0 THEN 2 * size ELSE 2 * twice[k - 1]
  IN  twice[CHOOSE k \in 0..needed : twice[k] >= needed /\ \A j \in 0..(k - 1) : twice[j] < needed]

\* Room for len more characters: there is, or after a move, or in a new block,
\* whose size starts from what is left of the old one behind bufferPtr.
GetBuffer(buffer, len) ==
  LET needed == len + buffer.end - buffer.ptr
      cap == Len(buffer.buf)
      behind == cap - buffer.ptr
  IN  IF len <= cap - buffer.end THEN buffer
      ELSE IF needed <= cap THEN MoveDown(buffer)
      ELSE [buf |-> Block(Doubled(IF behind = 0 THEN InitBuffer ELSE behind, needed), Kept(buffer)),
            ptr |-> 0, end |-> buffer.end - buffer.ptr]

Add(buffer, s) ==
  [buffer EXCEPT !.buf = SubSeq(@, 1, buffer.end) \o s \o SubSeq(@, buffer.end + Len(s) + 1, Len(@)),
                 !.end = @ + Len(s)]

\* What a piece parsed where it lies leaves unread is copied to the buffer.
KeepRest(buffer, len, rest) ==
  IF rest = <<>> THEN buffer
  ELSE LET buf == IF Len(rest) > Len(buffer.buf) THEN Block(2 * len, <<>>) ELSE buffer.buf
       IN  [buf |-> rest \o SubSeq(buf, Len(rest) + 1, Len(buf)), ptr |-> 0, end |-> Len(rest)]

\* What the parser is given: the piece s where it lies, what is left in the
\* buffer, or the buffer with the piece added.
InPlace(buffer, s) == [text |-> s, from |-> 1, to |-> Len(s), buffer |-> buffer]
InBuffer(buffer) == [text |-> buffer.buf, from |-> buffer.ptr + 1, to |-> buffer.end, buffer |-> buffer]

Given(s) ==
  IF s = <<>> THEN InBuffer(b)
  ELSE IF b.ptr = b.end THEN InPlace(b, s) ELSE InBuffer(Add(GetBuffer(b, Len(s)), s))

\* What the buffer is when the parser stopped at rest.
Left(given, s, rest) ==
  IF s # <<>> /\ b.ptr = b.end THEN KeepRest(b, Len(s), SubSeq(s, rest, Len(s)))
  ELSE [given.buffer EXCEPT !.ptr = rest - 1]

\* XML_Parse(s, len, isFinal).
Parse(s, isFinal) ==
  /\ \E given \in {Given(s)} :
       /\ c' = Process(c, given.text, given.from, given.to, isFinal)
       /\ b' = IF isFinal \/ c'.err # "NONE" THEN given.buffer ELSE Left(given, s, c'.rest)
  /\ done' = (isFinal \/ c'.err # "NONE")
  /\ pos' = pos + Len(s)
  /\ UNCHANGED text

\* The next piece, which is the last one or not.
Feed(n, isFinal) ==
  /\ ~done
  /\ pos + n <= Len(text)
  /\ isFinal => pos + n = Len(text)
  /\ Parse(SubSeq(text, pos + 1, pos + n), isFinal)

\* The end was not known with the last piece: an empty one tells it.
Finish ==
  /\ ~done
  /\ pos = Len(text)
  /\ Parse(<<>>, TRUE)

Next == (\E n \in Sizes, isFinal \in BOOLEAN : Feed(n, isFinal)) \/ Finish

Spec == Init /\ [][Next]_vars

-----------------------------------------------------------------------------

\* A tree as a value: chunks of character data that touch are one text.
RECURSIVE Forest(_, _)
Forest(h, x) ==
  IF x = NULL THEN <<>>
  ELSE IF h[x].type = "CDATA"
    THEN LET xs == Chunks(h, x)
         IN  <<[tag |-> "", atts |-> {}, text |-> Joined(h, xs), inner |-> <<>>]>>
             \o Forest(h, h[xs[Len(xs)]].next)
  ELSE <<[tag |-> h[x].name,
          atts |-> {<<h[a].name, h[a].data>> : a \in {k \in 1..Len(h) : \E j \in DOMAIN Siblings(h, h[x].fatt) :
                                                        Siblings(h, h[x].fatt)[j] = k}},
          text |-> <<>>, inner |-> Forest(h, h[x].first)]>>
       \o Forest(h, h[x].next)

\* What a caller of xmlnode_str or xmlnode_file gets: an error, or the tree.
Outcome(p) == [err |-> p.err, tree |-> IF p.err = "NONE" THEN Forest(p.h, p.x) ELSE <<>>]

AtOnce == [doc \in {Chars(doc) : doc \in Docs} |-> Outcome(Process(ParserCreate, doc, 1, Len(doc), TRUE))]

(* However a document is cut into pieces, and however its end is announced,
   the parser answers what it answers to the whole document in one piece: the
   same error, or the same tree.  A cut may fall inside any token. *)
ChunkingInvisible == done => Outcome(c) = AtOnce[text]

(* Between two calls the buffer holds, at bufferPtr, the last characters given
   to the parser and no others: no move, copy or new block loses, repeats or
   exposes any. *)
BufferHoldsRest ==
  ~done => LET kept == Kept(b) IN kept = SubSeq(text, pos - Len(kept) + 1, pos)

\* From x up to the root.
Path(h, x) == LET up[k \in 0..Len(h)] == IF k = NULL THEN <<>> ELSE up[h[k].parent] \o <<k>> IN up[x]

(* While content is read, the nodes from the root down to *x are the elements
   whose tags are open, in their order; every other tag of the tree is
   complete, and none of these is. *)
TreeFollowsTags ==
  c.err = "NONE" /\ c.tags # <<>> =>
    LET path == Path(c.h, c.x) IN
    /\ [k \in DOMAIN path |-> c.h[path[k]].name] = c.tags
    /\ \A k \in 1..Len(c.h) :
         c.h[k].type = "TAG" => (c.h[k].complete <=> \A j \in DOMAIN path : path[j] # k)

-----------------------------------------------------------------------------

\* strescape and what it does to each character.
Escape == ("&" :> Chars("&amp;")) @@ ("'" :> Chars("&apos;")) @@ (Quote :> Chars("&quot;"))
          @@ ("<" :> Chars("&lt;")) @@ (">" :> Chars("&gt;"))

\* A mutant: quotes are left alone.
EscapeNoQuote(s) ==
  LET upto[k \in 0..Len(s)] ==
        IF k = 0 THEN <<>>
        ELSE upto[k - 1] \o (IF s[k] \in DOMAIN Escape \ Quotes THEN Escape[s[k]] ELSE <<s[k]>>)
  IN  upto[Len(s)]

strescape(s) ==
  LET upto[k \in 0..Len(s)] ==
        IF k = 0 THEN <<>> ELSE upto[k - 1] \o (IF s[k] \in DOMAIN Escape THEN Escape[s[k]] ELSE <<s[k]>>)
  IN  upto[Len(s)]

Joint(ss) == LET upto[k \in 0..Len(ss)] == IF k = 0 THEN <<>> ELSE upto[k - 1] \o ss[k] IN upto[Len(ss)]

tag2str(h, x, flag) ==
  LET atts == Siblings(h, h[x].fatt)
      att(a) == <<" ">> \o Chars(h[a].name) \o <<"=", "'">> \o strescape(DataOf(h, a)) \o <<"'">>
  IN  IF flag = 2 THEN <<"<", "/">> \o Chars(h[x].name) \o <<">">>
      ELSE <<"<">> \o Chars(h[x].name) \o Joint([k \in DOMAIN atts |-> att(atts[k])])
           \o (IF flag = 0 THEN <<"/", ">">> ELSE <<">">>)

\* The walk of _xmlnode2spool from x, at level below where it began, down or
\* back up.  It reads data with xmlnode_get_data, so it merges the tree.
RECURSIVE xmlnode2spool(_, _, _, _)
xmlnode2spool(h, x, level, up) ==
  LET tag == h[x].type = "TAG"
      into == ~up /\ tag /\ h[x].first # NULL
      h2 == IF ~up /\ ~tag THEN get_data(h, x) ELSE h
      out == IF up THEN <<>> ELSE IF tag THEN tag2str(h, x, 0) ELSE strescape(DataOf(h2, x))
      parent == h2[x].parent
      close == IF level > 0 THEN tag2str(h2, parent, 2) ELSE <<>>
  IN  IF into THEN tag2str(h, x, 1) \o xmlnode2spool(h, h[x].first, level + 1, FALSE)
      ELSE IF h2[x].next # NULL THEN out \o xmlnode2spool(h2, h2[x].next, level, FALSE)
      ELSE IF level - 1 < 1 THEN out \o close
      ELSE out \o close \o xmlnode2spool(h2, parent, level - 1, TRUE)

xmlnode2str(h, x) == xmlnode2spool(h, x, 0, FALSE)

(* The text xmlnode2str prints of a parsed tree is parsed to the same tree:
   what one escapes the other resolves, over chunks, attributes and nesting. *)
PrintedIsRead ==
  done /\ c.err = "NONE" =>
    LET printed == xmlnode2str(c.h, c.x)
    IN  Outcome(Process(ParserCreate, printed, 1, Len(printed), TRUE)) = Outcome(c)
=============================================================================
