------------------------------- MODULE XmlTok -------------------------------
(***************************************************************************)
(* The tokenizer (src/xmlnode/xmltok_impl.c and xmltok.c) in UTF-8 with    *)
(* one byte to a character, but for the two-byte character Lead, Trail.  A *)
(* text is a sequence of one-character strings; a scanner sees s[i..e] and *)
(* answers a token and the position after it, or of the character that is  *)
(* wrong.  PARTIAL, PARTIAL_CHAR and the TRAILING tokens say that the text *)
(* ends inside a token.  A name is a name letter or Lead Trail at its      *)
(* start; ":" is a letter without XML_NS.                                  *)
(***************************************************************************)
EXTENDS Integers, Sequences, FiniteSets

Chars(str) == [i \in 1..Len(str) |-> SubSeq(str, i, i)]

CharSet(str) == {SubSeq(str, i, i) : i \in 1..Len(str)}

Lead == "~"      \* stands for a byte of the class BT_LEAD2,
Trail == "^"     \* for one of BT_TRAIL,
NonXml == "\f"    \* and this one, like every control character, is BT_NONXML
Quote == "\""
Cr == "\r"
Lf == "\n"

Letters == CharSet("abcdefghijklmnopqrstuvwxyzABCDEFGHIJKLMNOPQRSTUVWXYZ_:")
Digits == CharSet("0123456789")
HexDigits == Digits \union CharSet("abcdefABCDEF")
Space == {" ", "\t", Cr, Lf}
Quotes == {Quote, "'"}
NameStart == Letters \union {Lead}
NameChars == NameStart \union Digits \union {".", "-", "inner"}
Invalid == {NonXml, Trail}

\* The byte at i, or "inner" when it is the second byte of a character.
Ch(s, i) == IF i > 1 /\ s[i - 1] = Lead THEN "inner" ELSE s[i]

\* The first of the positions hits of a text that ends at e, or e + 1.
First(e, hits) == IF hits = {} THEN e + 1 ELSE CHOOSE k \in hits : \A h \in hits : k <= h

Skip(s, i, e, set) == First(e, {k \in i..e : Ch(s, k) \notin set})

Tok(tok, next) == [tok |-> tok, next |-> next]
Bad(i) == Tok("INVALID", i)
Short == Tok("PARTIAL", 0)

\* The text ran out: in the middle of a character, or of a token.
Partial(s, e) == IF Ch(s, e) = Lead THEN Tok("PARTIAL_CHAR", 0) ELSE Short

\* A part of a token ends at j; then the token is what comes after it.
Found(j) == Tok("FOUND", j)
Then(part, token) == IF part.tok = "FOUND" THEN token ELSE part

\* CHECK_NMSTRT_CASES then CHECK_NAME_CASES: a name from i, to the character
\* that ends it.
ScanName(s, i, e) ==
  LET j == Skip(s, i, e, NameChars)
  IN  IF i > e THEN Short
      ELSE IF Ch(s, i) \notin NameStart THEN Bad(i)
      ELSE IF j > e THEN Partial(s, e) ELSE Found(j)

\* INVALID_CASES: from i on to the first of hits.
Until(s, i, e, hits) ==
  LET j == First(e, hits \union {k \in i..e : Ch(s, k) \in Invalid})
  IN  IF j > e THEN (IF i > e THEN Short ELSE Partial(s, e))
      ELSE IF Ch(s, j) \in Invalid THEN Bad(j) ELSE Found(j)

\* White space from i, which may be none.
Blank(s, i, e) == LET j == Skip(s, i, e, Space) IN IF j > e THEN Short ELSE Found(j)

\* The next character must be c: then the token ends after it.
Expect(s, i, e, c, tok) ==
  IF i > e THEN Short ELSE IF s[i] = c THEN Tok(tok, i + 1) ELSE Bad(i)

\* i is after "<!-".
scanComment(s, i, e) ==
  LET end == Until(s, i + 1, e, {k \in (i + 1)..e : s[k] = "-" /\ (k = e \/ s[k + 1] = "-")})
  IN  IF i > e THEN Short
      ELSE IF s[i] # "-" THEN Bad(i)
      ELSE Then(end, IF end.next = e THEN Short ELSE Expect(s, end.next + 2, e, ">", "COMMENT"))

\* i is after "<!".
scanDecl(s, i, e) ==
  LET j == Skip(s, i, e, Letters)
  IN  CASE i > e -> Short
        [] i <= e /\ s[i] = "-" -> scanComment(s, i + 1, e)
        [] i <= e /\ s[i] = "[" -> Tok("COND_SECT_OPEN", i + 1)
        [] i <= e /\ s[i] \notin Letters \union {"-", "["} -> Bad(i)
        [] OTHER ->
             IF j > e THEN Short
             ELSE IF s[j] = "%" /\ j = e THEN Short
             ELSE IF s[j] = "%" /\ s[j + 1] \in Space \union {"%"} THEN Bad(j)
             ELSE IF s[j] \in Space \union {"%"} THEN Tok("DECL_OPEN", j) ELSE Bad(j)

\* The target of a processing instruction: "xml" in lower case is the XML
\* declaration, in any other case it is not allowed.
checkPiTarget(s, i, j) ==
  IF j - i # 3 \/ s[i] \notin {"x", "X"} \/ s[i + 1] \notin {"m", "M"} \/ s[i + 2] \notin {"l", "L"}
  THEN "PI"
  ELSE IF SubSeq(s, i, j - 1) = <<"x", "m", "l">> THEN "XML_DECL" ELSE "INVALID"

\* What follows the target, which ends at j.
piEnd(s, j, e, tok) ==
  LET end == Until(s, j + 1, e, {k \in (j + 1)..e : s[k] = "?" /\ (k = e \/ s[k + 1] = ">")})
  IN  IF s[j] \notin Space \union {"?"} \/ tok = "INVALID" THEN Bad(j)
      ELSE IF s[j] = "?" THEN (IF j = e THEN Short ELSE IF s[j + 1] = ">" THEN Tok(tok, j + 2) ELSE Bad(j + 1))
      ELSE Then(end, IF end.next = e THEN Short ELSE Tok(tok, end.next + 2))

\* i is after "<?".
scanPi(s, i, e) ==
  LET n == ScanName(s, i, e) IN Then(n, piEnd(s, n.next, e, checkPiTarget(s, i, n.next)))

\* i is after "<![".
scanCdataSection(s, i, e) ==
  LET word == <<"C", "D", "A", "T", "A", "[">>
      wrong == {k \in 1..6 : s[i + k - 1] # word[k]}
  IN  IF e - i + 1 < 6 THEN Short
      ELSE IF wrong = {} THEN Tok("CDATA_SECT_OPEN", i + 6)
      ELSE Bad(i - 1 + First(6, wrong))

\* i is after "</".
scanEndTag(s, i, e) ==
  LET n == ScanName(s, i, e) IN Then(n, Expect(s, Skip(s, n.next, e, Space), e, ">", "END_TAG"))

\* i is after "&#".
scanCharRef(s, i, e) ==
  LET hex == i <= e /\ s[i] = "x"
      from == IF hex THEN i + 1 ELSE i
      j == Skip(s, from, e, IF hex THEN HexDigits ELSE Digits)
  IN  IF j > e THEN Short
      ELSE IF j = from THEN Bad(j)
      ELSE Expect(s, j, e, ";", "CHAR_REF")

\* i is after "&".
scanRef(s, i, e) ==
  LET n == ScanName(s, i, e)
  IN  IF i <= e /\ s[i] = "#" THEN scanCharRef(s, i + 1, e)
      ELSE Then(n, Expect(s, n.next, e, ";", "ENTITY_REF"))

\* The value from i to the quote open; references in it are scanned, "<" is wrong.
scanValue(s, i, e, open) ==
  LET value[k \in 1..(e + 1)] ==
        LET stop == Until(s, k, e, {h \in k..e : s[h] \in {open, "<", "&"}})
            Past(ref) == IF ref.tok \in {"CHAR_REF", "ENTITY_REF"} THEN value[ref.next] ELSE ref
        IN  Then(stop, IF s[stop.next] = open THEN Tok("VALUE", stop.next)
                       ELSE IF s[stop.next] = "<" THEN Bad(stop.next) ELSE Past(scanRef(s, stop.next + 1, e)))
  IN  value[i]

\* ">" or "/>" at i ends a tag.
TagEnd(s, i, e, atts) ==
  IF s[i] = ">" THEN Tok("START_TAG" \o atts, i + 1)
  ELSE Expect(s, i + 1, e, ">", "EMPTY_ELEMENT" \o atts)

\* After the closing quote at c another attribute begins, or the tag ends.
afterValue(s, c, e) ==
  LET w == Skip(s, c + 1, e, Space)
  IN  IF w > e THEN Short
      ELSE IF s[w] \in {">", "/"} THEN TagEnd(s, w, e, "_WITH_ATTS")
      ELSE IF w > c + 1 /\ s[w] \in NameStart THEN Tok("NEXT_ATT", w) ELSE Bad(w)

\* The equals sign and the opening quote of a value, after a name that ends at n.
openQuote(s, n, e) ==
  LET q == Blank(s, n, e)
      o == Blank(s, q.next + 1, e)
  IN  Then(q, IF s[q.next] # "=" THEN Bad(q.next) ELSE Then(o, IF s[o.next] \in Quotes THEN o ELSE Bad(o.next)))

\* i is where the name of the first attribute begins.
scanAtts(s, i, e) ==
  LET Valued(o) == Then(o, scanValue(s, o.next + 1, e, s[o.next]))
      Ended(v) == IF v.tok = "VALUE" THEN afterValue(s, v.next, e) ELSE v
      att[k \in 1..(e + 1)] ==
        LET n == ScanName(s, k, e)
            OnTo(t) == IF t.tok = "NEXT_ATT" THEN att[t.next] ELSE t
        IN  Then(n, OnTo(Ended(Valued(openQuote(s, n.next, e)))))
  IN  att[i]

\* After the name of a tag, which ends at j.
afterName(s, j, e) ==
  LET w == Skip(s, j, e, Space)
  IN  IF w > e THEN Short
      ELSE IF s[w] \in {">", "/"} THEN TagEnd(s, w, e, "_NO_ATTS")
      ELSE IF w > j /\ s[w] \in NameStart THEN scanAtts(s, w, e) ELSE Bad(w)

\* i is after "<".
scanLt(s, i, e) ==
  IF i > e THEN Short
  ELSE IF s[i] = "!" THEN
    (IF i = e THEN Short
     ELSE IF s[i + 1] = "-" THEN scanComment(s, i + 2, e)
     ELSE IF s[i + 1] = "[" THEN scanCdataSection(s, i + 2, e) ELSE Bad(i + 1))
  ELSE IF s[i] = "?" THEN scanPi(s, i + 1, e)
  ELSE IF s[i] = "/" THEN scanEndTag(s, i + 1, e)
  ELSE LET n == ScanName(s, i, e) IN Then(n, afterName(s, n.next, e))

\* CR and LF, and the two of them, are one line end.
NewLine(s, i, e, tok) ==
  IF s[i] = Lf THEN Tok("DATA_NEWLINE", i + 1)
  ELSE IF i = e THEN Tok(tok, 0)
  ELSE Tok("DATA_NEWLINE", IF s[i + 1] = Lf THEN i + 2 ELSE i + 1)

\* Data from i, with its first character already taken, to the first of stops.
DataChars(s, i, e, stops) ==
  LET begin == IF s[i] = Lead THEN i + 2 ELSE i + 1
      ends == {k \in i..e : Ch(s, k) \in Invalid \union {Cr, Lf} \/ (k = e /\ Ch(s, k) = Lead)}
  IN  Tok("DATA_CHARS", First(e, (ends \union stops) \ (i..(begin - 1))))

cdataSectionTok(s, i, e) ==
  LET bracket == s[i] = "]"
  IN  IF i > e THEN Tok("NONE", 0)
      ELSE IF bracket /\ (i = e \/ (s[i + 1] = "]" /\ i + 1 = e)) THEN Short
      ELSE IF bracket /\ s[i + 1] = "]" /\ s[i + 2] = ">" THEN Tok("CDATA_SECT_CLOSE", i + 3)
      ELSE IF s[i] \in {Cr, Lf} THEN NewLine(s, i, e, "PARTIAL")
      ELSE IF s[i] \in Invalid THEN Bad(i)
      ELSE IF s[i] = Lead /\ i = e THEN Partial(s, e)
      ELSE DataChars(s, i, e, {k \in i..e : s[k] = "]"})

\* "]]>" starts at k, or may start there: the text ends too soon to tell.
Closes(s, k, e) ==
  s[k] = "]" /\ (k = e \/ (s[k + 1] = "]" /\ (k + 1 = e \/ s[k + 2] = ">")))

contentTok(s, i, e) ==
  LET data == DataChars(s, i, e, {k \in i..e : s[k] \in {"<", "&"} \/ Closes(s, k, e)})
      end == data.next
  IN  IF i > e THEN Tok("NONE", 0)
      ELSE IF s[i] = "<" THEN scanLt(s, i + 1, e)
      ELSE IF s[i] = "&" THEN scanRef(s, i + 1, e)
      ELSE IF s[i] \in {Cr, Lf} THEN NewLine(s, i, e, "TRAILING_CR")
      ELSE IF s[i] \in Invalid THEN Bad(i)
      ELSE IF s[i] = Lead /\ i = e THEN Partial(s, e)
      ELSE IF Closes(s, i, e) THEN (IF e - i < 2 THEN Tok("TRAILING_RSQB", 0) ELSE Bad(i + 2))
      ELSE IF end + 1 < e /\ s[end] = "]" THEN Bad(end + 2)
      ELSE data
=============================================================================
