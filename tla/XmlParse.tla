------------------------------ MODULE XmlParse ------------------------------
(***************************************************************************)
(* The parser of src/xmlnode/xmlparse.c under the handlers of expat.c: the *)
(* processors of prolog, content, CDATA section and epilog, each reading   *)
(* tokens of s[i..e] until it fails, runs out of text, or hands over.      *)
(*                                                                         *)
(* c is the parser: its processor, the prolog state d, the names of the    *)
(* open tags, the open entities, the heap h with the tree being built and  *)
(* the node x it is building.  With final FALSE a processor leaves in rest *)
(* the position of the first character it could not use yet.  There are no *)
(* namespaces, no handlers but those of expat.c, and malloc succeeds.      *)
(***************************************************************************)
EXTENDS XmlTokDecl, XmlNode

CONSTANT Group0

Str(chars) == LET upto[k \in 0..Len(chars)] == IF k = 0 THEN "" ELSE upto[k - 1] \o chars[k]
              IN  upto[Len(chars)]

Ascii == Chars(" !\"#$%&'()*+,-./0123456789:;<=>?@ABCDEFGHIJKLMNOPQRSTUVWXYZ[")

\* XmlEncode, for the characters that matter here.
Encode(n) ==
  CASE n \in 32..91 -> Ascii[n - 31]
    [] n \in 97..122 -> Lower[n - 96]
    [] n = 9 -> "\t" [] n = 10 -> Lf [] n = 13 -> Cr
    [] OTHER -> "wide"

Value(err, text) == [err |-> err, text |-> text]

\* A space of an attribute value; outside CDATA a run of them counts as one.
AddSpace(isCdata, text) ==
  IF ~isCdata /\ (text = <<>> \/ text[Len(text)] = " ") THEN text ELSE Append(text, " ")

RECURSIVE appendAttributeValue(_, _, _, _, _, _)

\* One round of appendAttributeValue, with the token t at i.
appendToken(d, open, isCdata, s, i, text, t) ==
  LET name == Str(SubSeq(s, i + 1, t.next - 2))
      go(text2) == appendAttributeValue(d, open, isCdata, s, t.next, text2)
      CharRef(n) == IF n < 0 THEN Value("BAD_CHAR_REF", text)
                    ELSE go(IF n = 32 THEN AddSpace(isCdata, text) ELSE Append(text, Encode(n)))
      Inner(chars) == appendAttributeValue(d, open \union {name}, isCdata, chars, 1, text)
      After(inner) == IF inner.err # "NONE" THEN inner ELSE go(inner.text)
      Entity(ent) == IF ent.notation # "none" THEN Value("BINARY_ENTITY_REF", text)
                     ELSE IF ent.text = "none" THEN Value("ATTRIBUTE_EXTERNAL_ENTITY_REF", text)
                     ELSE After(Inner(Chars(ent.text)))
  IN CASE t.tok = "NONE" -> Value("NONE", text)
       [] t.tok \in {"INVALID", "PARTIAL"} -> Value("INVALID_TOKEN", text)
       [] t.tok = "CHAR_REF" -> CharRef(charRefNumber(s, i))
       [] t.tok = "DATA_CHARS" -> go(text \o SubSeq(s, i, t.next - 1))
       [] t.tok = "TRAILING_CR" -> Value("NONE", AddSpace(isCdata, text))
       [] t.tok \in {"ATTRIBUTE_VALUE_S", "DATA_NEWLINE"} -> go(AddSpace(isCdata, text))
       [] t.tok = "ENTITY_REF" ->
            IF name \in DOMAIN PredefinedChar THEN go(Append(text, PredefinedChar[name]))
            ELSE IF name \notin DOMAIN d.ents
              THEN (IF d.complete THEN Value("UNDEFINED_ENTITY", text) ELSE go(text))
            ELSE IF name \in open THEN Value("RECURSIVE_ENTITY_REF", text)
            ELSE Entity(d.ents[name])

appendAttributeValue(d, open, isCdata, s, i, text) ==
  appendToken(d, open, isCdata, s, i, text, attributeValueTok(s, i, Len(s)))

Trim(text) == IF text # <<>> /\ text[Len(text)] = " " THEN SubSeq(text, 1, Len(text) - 1) ELSE text

storeAttributeValue(d, open, isCdata, s) ==
  LET Stored(v) == IF v.err = "NONE" /\ ~isCdata THEN [v EXCEPT !.text = Trim(@)] ELSE v
  IN  Stored(appendAttributeValue(d, open, isCdata, s, 1, <<>>))

normalizePublicId(s) ==
  LET upto[k \in 0..Len(s)] ==
        IF k = 0 THEN <<>>
        ELSE IF s[k] \in {" ", Cr, Lf} THEN AddSpace(FALSE, upto[k - 1]) ELSE Append(upto[k - 1], s[k])
  IN  Trim(upto[Len(s)])

RECURSIVE storeFrom(_, _, _)

\* One round of storeEntityValue, with the token t at i.  References to general
\* entities stay in the text of an entity, character references do not.
storeToken(s, i, text, t) ==
  LET go(text2) == storeFrom(s, t.next, text2)
      CharRef(n) == IF n < 0 THEN Value("BAD_CHAR_REF", text) ELSE go(Append(text, Encode(n)))
  IN CASE t.tok = "NONE" -> Value("NONE", text)
       [] t.tok = "PARAM_ENTITY_REF" -> Value("SYNTAX", text)
       [] t.tok \in {"ENTITY_REF", "DATA_CHARS"} -> go(text \o SubSeq(s, i, t.next - 1))
       [] t.tok = "TRAILING_CR" -> Value("NONE", Append(text, Lf))
       [] t.tok = "DATA_NEWLINE" -> go(Append(text, Lf))
       [] t.tok = "CHAR_REF" -> CharRef(charRefNumber(s, i))
       [] OTHER -> Value("INVALID_TOKEN", text)

storeFrom(s, i, text) == storeToken(s, i, text, entityValueTok(s, i, Len(s)))

storeEntityValue(s) == storeFrom(s, 1, <<>>)

AsString(v) == [v EXCEPT !.text = Str(v.text)]

P == INSTANCE XmlProlog WITH
       AttValue <- LAMBDA d, isCdata, lit : AsString(storeAttributeValue(d, {}, isCdata, Chars(lit))),
       EntValue <- LAMBDA lit : AsString(storeEntityValue(Chars(lit))),
       PublicId <- LAMBDA lit : IF isPublicId(Chars(lit)) THEN Value("NONE", Str(normalizePublicId(Chars(lit))))
                              ELSE Value("SYNTAX", lit)

-----------------------------------------------------------------------------
(* The handlers of expat.c: *x is the node whose content is being read. *)

PutAll(h, x, atts) ==
  LET upto[k \in 0..Len(atts)] ==
        IF k = 0 THEN h ELSE put_attrib(upto[k - 1], x, atts[k].name, atts[k].value)
  IN  upto[Len(atts)]

startElement(c, name, atts) ==
  LET h2 == IF c.x = NULL THEN new(c.h, name, "TAG") ELSE insert_tag(c.h, c.x, name)
  IN  [c EXCEPT !.h = PutAll(h2, Len(h2), atts), !.x = Len(h2)]

\* A mutant: the end of an element is not recorded in its node.
endElementSilent(c) ==
  [c EXCEPT !.x = IF c.h[@].parent = NULL THEN @ ELSE c.h[@].parent]

endElement(c) ==
  [c EXCEPT !.h[c.x].complete = TRUE, !.x = IF c.h[@].parent = NULL THEN @ ELSE c.h[@].parent]

charData(c, text) == [c EXCEPT !.h = insert_cdata(@, c.x, text)]

-----------------------------------------------------------------------------

Failed(c, err) == [c EXCEPT !.err = err]
Wait(c, i) == [c EXCEPT !.rest = i]

Declared(c, name) == IF name \in DOMAIN c.d.atts THEN c.d.atts[name] ELSE <<>>

\* The value of an attribute of a tag; the first declaration decides how it is
\* normalized.
Normal(c, declared, name, value) ==
  LET own == SelectSeq(declared, LAMBDA x : x.id = name)
  IN  IF normalized(value) THEN Value("NONE", value)
      ELSE storeAttributeValue(c.d, c.open, own = <<>> \/ own[1].cdata, value)

\* The defaults a tag takes: of the attributes it does not have, the first
\* declaration that has a value.
Defaults(declared, names) ==
  LET usable(x) == x.value # "none" /\ \A k \in DOMAIN names : names[k] # x.id
      taken(j) == usable(declared[j])
                  /\ \A h \in 1..(j - 1) : declared[h].id = declared[j].id => ~usable(declared[h])
      js == SelectSeq([j \in DOMAIN declared |-> j], taken)
  IN  [k \in DOMAIN js |-> [name |-> declared[js[k]].id, value |-> Chars(declared[js[k]].value)]]

\* The attributes of a tag, in names and values, and the defaults after them;
\* the first one that is wrong fails.
Collect(names, values, defaults) ==
  LET twice(k) == \E j \in 1..(k - 1) : names[j] = names[k]
      from[k \in 1..(Len(names) + 1)] ==
        IF k > Len(names) THEN Value("NONE", defaults)
        ELSE IF twice(k) THEN Value("DUPLICATE_ATTRIBUTE", <<>>)
        ELSE IF values[k].err # "NONE" THEN Value(values[k].err, <<>>)
        ELSE LET rest == from[k + 1]
             IN  [rest EXCEPT !.text = <<[name |-> names[k], value |-> values[k].text]>> \o @]
  IN  from[1]

StoreAtts(c, name, s, i, e) ==
  LET Store(declared, given, names) ==
        Collect(names, [k \in DOMAIN given |-> Normal(c, declared, names[k], given[k].value)],
                Defaults(declared, names))
      Given(given) == Store(Declared(c, name), given, [k \in DOMAIN given |-> Str(given[k].name)])
  IN  Given(getAtts(s, i, e))

RECURSIVE epilogProcessor(_, _, _, _, _)

\* One round of epilogProcessor, with the token t at i.
epilogToken(c, s, i, e, final, t) ==
  CASE t.tok \in {"NONE", "TRAILING_CR"} -> [c EXCEPT !.proc = "epilog", !.rest = e + 1]
    [] t.tok \in {"PROLOG_S", "PI", "COMMENT"} -> epilogProcessor(c, s, t.next, e, final)
    [] t.tok = "INVALID" -> Failed(c, "INVALID_TOKEN")
    [] t.tok \in {"PARTIAL", "PARTIAL_CHAR"} ->
         IF ~final THEN [c EXCEPT !.proc = "epilog", !.rest = i]
         ELSE Failed(c, IF t.tok = "PARTIAL" THEN "UNCLOSED_TOKEN" ELSE "PARTIAL_CHAR")
    [] OTHER -> Failed(c, "JUNK_AFTER_DOC_ELEMENT")

epilogProcessor(c, s, i, e, final) == epilogToken(c, s, i, e, final, prologTok(s, i, e))

RECURSIVE doCdataSection(_, _, _, _, _)

\* One round of doCdataSection, with the token t at i.  In [c, next] the section
\* is closed when next is not 0.
cdataToken(c, s, i, e, final, t) ==
  LET open(c2) == [c |-> c2, next |-> 0]
      go(text) == doCdataSection(charData(c, text), s, t.next, e, final)
  IN CASE t.tok = "CDATA_SECT_CLOSE" -> [c |-> c, next |-> t.next]
       [] t.tok = "DATA_NEWLINE" -> go(<<Lf>>)
       [] t.tok = "DATA_CHARS" -> go(SubSeq(s, i, t.next - 1))
       [] t.tok = "INVALID" -> open(Failed(c, "INVALID_TOKEN"))
       [] OTHER -> IF ~final THEN open([c EXCEPT !.proc = "cdata", !.rest = i])
                   ELSE open(Failed(c, IF t.tok = "PARTIAL_CHAR" THEN "PARTIAL_CHAR" ELSE "UNCLOSED_CDATA_SECTION"))

doCdataSection(c, s, i, e, final) == cdataToken(c, s, i, e, final, cdataSectionTok(s, i, e))

\* What the end of the text means for content that started with level tags open.
EndOfContent(c, level) ==
  IF level = 0 THEN Failed(c, "NO_ELEMENTS")
  ELSE IF Len(c.tags) # level THEN Failed(c, "ASYNC_ENTITY") ELSE c

OutOfText(c, t, s, i, e, level) ==
  CASE t.tok = "TRAILING_CR" -> EndOfContent(charData(c, <<Lf>>), level)
    [] t.tok = "TRAILING_RSQB" -> EndOfContent(charData(c, SubSeq(s, i, e)), level)
    [] t.tok = "NONE" -> EndOfContent(c, level)
    [] OTHER -> Failed(c, IF t.tok = "PARTIAL" THEN "UNCLOSED_TOKEN" ELSE "PARTIAL_CHAR")

StartTag(c, s, i, e, empty) ==
  LET name == Str(SubSeq(s, i + 1, Skip(s, i + 1, e, NameChars) - 1))
      Begun(c2) == IF empty THEN endElement(c2) ELSE [c2 EXCEPT !.tags = Append(@, name)]
      Start(atts) == IF atts.err # "NONE" THEN Failed(c, atts.err) ELSE Begun(startElement(c, name, atts.text))
  IN  Start(StoreAtts(c, name, s, i + 1, e))

EndTag(c, s, i, e) ==
  LET name == Str(SubSeq(s, i + 2, Skip(s, i + 2, e, NameChars) - 1))
  IN  IF name # c.tags[Len(c.tags)] THEN Failed(c, "TAG_MISMATCH")
      ELSE endElement([c EXCEPT !.tags = SubSeq(@, 1, Len(@) - 1)])

Tag(c, s, i, e, level, tok) ==
  IF tok # "END_TAG" THEN StartTag(c, s, i, e, tok \in {"EMPTY_ELEMENT_NO_ATTS", "EMPTY_ELEMENT_WITH_ATTS"})
  ELSE IF Len(c.tags) = level THEN Failed(c, "ASYNC_ENTITY") ELSE EndTag(c, s, i, e)

\* A mutant: a CR that ends a piece of text is a line end of its own.
KeepsNoCr(t, final) == ~final /\ t.tok \in {"NONE", "PARTIAL", "PARTIAL_CHAR", "TRAILING_RSQB"}

\* More text may change what these tokens are.
Keeps(t, final) == ~final /\ t.tok \in {"NONE", "PARTIAL", "PARTIAL_CHAR", "TRAILING_CR", "TRAILING_RSQB"}

RECURSIVE doContent(_, _, _, _, _, _)

\* One round of doContent, with the token t at i.  level is the number of tags open
\* where this text began: 0 for the document, more for the text of an entity.
contentToken(c, s, i, e, level, final, t) ==
  LET go(c2) == IF c2.err # "NONE" THEN c2 ELSE doContent(c2, s, t.next, e, level, final)
      \* After a tag that leaves no tag open, what follows is the epilog.
      after(c2) == IF c2.err = "NONE" /\ c2.tags = <<>>
                   THEN epilogProcessor(c2, s, t.next, e, final) ELSE go(c2)
      Section(section) == IF section.next = 0 THEN section.c
                          ELSE doContent([section.c EXCEPT !.proc = "content"], s, section.next, e, level, final)
      CharRef(n) == IF n < 0 THEN Failed(c, "BAD_CHAR_REF") ELSE go(charData(c, <<Encode(n)>>))
      Inner(name, text) == [doContent([c EXCEPT !.open = @ \union {name}], text, 1, Len(text), Len(c.tags),
                                      TRUE) EXCEPT !.open = c.open]
      Entity(name, ent) == IF ent.notation # "none" THEN Failed(c, "BINARY_ENTITY_REF")
                           ELSE IF ent.text = "none" THEN go(c)
                           ELSE go(Inner(name, Chars(ent.text)))
      EntityRef(name) ==
        IF name \in DOMAIN PredefinedChar THEN go(charData(c, <<PredefinedChar[name]>>))
        ELSE IF name \notin DOMAIN c.d.ents
          THEN (IF c.d.complete \/ c.d.standalone THEN Failed(c, "UNDEFINED_ENTITY") ELSE go(c))
        ELSE IF name \in c.open THEN Failed(c, "RECURSIVE_ENTITY_REF")
        ELSE Entity(name, c.d.ents[name])
  IN CASE Keeps(t, final) -> Wait(c, i)
       [] ~Keeps(t, final) /\ t.next = 0 -> OutOfText(c, t, s, i, e, level)
       [] t.tok = "INVALID" -> Failed(c, "INVALID_TOKEN")
       [] t.tok = "ENTITY_REF" -> EntityRef(Str(SubSeq(s, i + 1, t.next - 2)))
       [] t.tok \in {"START_TAG_NO_ATTS", "START_TAG_WITH_ATTS", "EMPTY_ELEMENT_NO_ATTS",
                      "EMPTY_ELEMENT_WITH_ATTS", "END_TAG"} -> after(Tag(c, s, i, e, level, t.tok))
       [] t.tok = "CHAR_REF" -> CharRef(charRefNumber(s, i))
       [] t.tok = "XML_DECL" -> Failed(c, "MISPLACED_XML_PI")
       [] t.tok = "DATA_NEWLINE" -> go(charData(c, <<Lf>>))
       [] t.tok = "DATA_CHARS" -> go(charData(c, SubSeq(s, i, t.next - 1)))
       [] t.tok = "CDATA_SECT_OPEN" -> Section(doCdataSection(c, s, t.next, e, final))
       [] t.tok \in {"PI", "COMMENT"} -> go(c)

doContent(c, s, i, e, level, final) == contentToken(c, s, i, e, level, final, contentTok(s, i, e))

AfterSection(section, s, e, final) ==
  IF section.next = 0 THEN section.c
  ELSE doContent([section.c EXCEPT !.proc = "content"], s, section.next, e, 0, final)

cdataSectionProcessor(c, s, i, e, final) == AfterSection(doCdataSection(c, s, i, e, final), s, e, final)

\* The word and the literal of a token, for XmlProlog.
PrologToken(s, i, t) ==
  LET last == t.next - 1
      word(from) == Str(SubSeq(s, from, last))
  IN [tok |-> t.tok,
      word |-> CASE t.tok \in {"NAME", "NMTOKEN"} -> word(i)
                 [] t.tok = "DECL_OPEN" -> word(i + 2)
                 [] t.tok = "POUND_NAME" -> word(i + 1)
                 [] t.tok = "XML_DECL" -> IF parseXmlDecl(SubSeq(s, i, last)).standalone THEN "standalone" ELSE ""
                 [] OTHER -> "",
      lit |-> IF t.tok = "LITERAL" THEN Str(SubSeq(s, i + 1, last - 1)) ELSE ""]

RECURSIVE prologToken(_, _, _, _, _, _, _, _)

\* The token t at i, for the grammar and, if it is one, as an XML declaration.
Prolog(c, s, i, e, final, t) ==
  prologToken(c, s, i, e, final, t, P!PrologStep(c.d, PrologToken(s, i, t)),
              IF t.tok = "XML_DECL" THEN parseXmlDecl(SubSeq(s, i, t.next - 1)).err ELSE "NONE")

\* prologProcessor, where d2 is what the grammar makes of t.
prologToken(c, s, i, e, final, t, d2, declErr) ==
  LET err == IF d2.err = "NONE" THEN declErr ELSE d2.err
      c2 == [c EXCEPT !.scanned = @ \/ i < e]
  IN CASE t.tok = "INVALID" -> Failed(c, "INVALID_TOKEN")
       [] t.next = 0 /\ ~final -> Wait(c2, i)
       [] t.next = 0 /\ final -> Failed(c, CASE t.tok = "PARTIAL" -> "UNCLOSED_TOKEN"
                                             [] t.tok = "PARTIAL_CHAR" -> "PARTIAL_CHAR"
                                             [] OTHER -> "NO_ELEMENTS")
       [] OTHER -> IF err # "NONE" THEN Failed(c, err)
                   ELSE IF t.tok = "INSTANCE_START"
                     THEN doContent([c2 EXCEPT !.d = d2, !.proc = "content"], s, i, e, 0, final)
                   ELSE Prolog([c2 EXCEPT !.d = d2], s, t.next, e, final, prologTok(s, t.next, e))

prologProcessor(c, s, i, e, final) ==
  Prolog(c, s, i, e, final, IF c.scanned THEN prologTok(s, i, e) ELSE FirstTok(s, i, e))

ParserCreate ==
  [proc |-> "prolog", d |-> P!PrologInit, scanned |-> FALSE, tags |-> <<>>, open |-> {},
   h |-> <<>>, x |-> NULL, err |-> "NONE", rest |-> 0]

Process(c, s, i, e, final) ==
  CASE c.proc = "prolog" -> prologProcessor(c, s, i, e, final)
    [] c.proc = "content" -> doContent(c, s, i, e, 0, final)
    [] c.proc = "cdata" -> cdataSectionProcessor(c, s, i, e, final)
    [] c.proc = "epilog" -> epilogProcessor(c, s, i, e, final)
=============================================================================
