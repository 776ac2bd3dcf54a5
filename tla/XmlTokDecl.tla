----------------------------- MODULE XmlTokDecl -----------------------------
(***************************************************************************)
(* The scanners of the prolog, of literals and of attribute values         *)
(* (src/xmlnode/xmltok_impl.c) and of the XML declaration (xmltok.c).      *)
(***************************************************************************)
EXTENDS XmlTok, TLC

DeclEnds == Space \union {">", ")", ",", "|", "[", "%"}

\* i is after "%".
scanPercent(s, i, e) ==
  LET n == ScanName(s, i, e)
  IN  IF i <= e /\ s[i] \in Space \union {"%"} THEN Tok("PERCENT", i)
      ELSE Then(n, Expect(s, n.next, e, ";", "PARAM_ENTITY_REF"))

\* i is after "#".
scanPoundName(s, i, e) ==
  LET n == ScanName(s, i, e)
  IN  Then(n, IF s[n.next] \in Space \union {")", ">", "%", "|"} THEN Tok("POUND_NAME", n.next) ELSE Bad(n.next))

\* i is after the quote open.
scanLit(open, s, i, e) ==
  LET end == Until(s, i, e, {k \in i..e : s[k] = open})
  IN  Then(end, IF end.next = e THEN Short
                ELSE IF s[end.next + 1] \in Space \union {">", "%", "["} THEN Tok("LITERAL", end.next + 1)
                ELSE Bad(end.next + 1))

Repeats == ("*" :> "_ASTERISK") @@ ("?" :> "_QUESTION") @@ ("+" :> "_PLUS")

\* A name or a name token at i, with the sign of repetition after it.
scanWord(s, i, e) ==
  LET j == Skip(s, i, e, NameChars)
      name == s[i] \in NameStart
  IN  IF j > e THEN Partial(s, e)
      ELSE IF s[j] \in DeclEnds THEN Tok(IF name THEN "NAME" ELSE "NMTOKEN", j)
      ELSE IF name /\ s[j] \in DOMAIN Repeats THEN Tok("NAME" \o Repeats[s[j]], j + 1)
      ELSE Bad(j)

\* White space; a CR at the end of the text is kept for the LF that may follow.
scanSpace(s, i, e) ==
  IF s[i] = Cr /\ i = e THEN Tok("TRAILING_CR", 0)
  ELSE Tok("PROLOG_S", First(e, {k \in (i + 1)..e : s[k] \notin Space \/ (s[k] = Cr /\ k = e)}))

scanCloseParen(s, i, e) ==
  IF i > e THEN Short
  ELSE IF s[i] \in DOMAIN Repeats THEN Tok("CLOSE_PAREN" \o Repeats[s[i]], i + 1)
  ELSE IF s[i] \in Space \union {">", ",", "|", ")"} THEN Tok("CLOSE_PAREN", i) ELSE Bad(i)

scanCloseBracket(s, i, e) ==
  IF i > e \/ (s[i] = "]" /\ i = e) THEN Short
  ELSE IF s[i] = "]" /\ s[i + 1] = ">" THEN Tok("COND_SECT_CLOSE", i + 2)
  ELSE Tok("CLOSE_BRACKET", i)

Single == ("," :> "COMMA") @@ ("[" :> "OPEN_BRACKET") @@ ("(" :> "OPEN_PAREN") @@
          ("|" :> "OR") @@ (">" :> "DECL_CLOSE")

prologTok(s, i, e) ==
  IF i > e THEN Tok("NONE", 0)
  ELSE CASE s[i] \in Quotes -> scanLit(s[i], s, i + 1, e)
    [] s[i] = "<" ->
         (IF i = e THEN Short
          ELSE IF s[i + 1] = "!" THEN scanDecl(s, i + 2, e)
          ELSE IF s[i + 1] = "?" THEN scanPi(s, i + 2, e)
          ELSE IF s[i + 1] \in NameStart THEN Tok("INSTANCE_START", i) ELSE Bad(i + 1))
    [] s[i] \in Space -> scanSpace(s, i, e)
    [] s[i] = "%" -> scanPercent(s, i + 1, e)
    [] s[i] \in DOMAIN Single -> Tok(Single[s[i]], i + 1)
    [] s[i] = "]" -> scanCloseBracket(s, i + 1, e)
    [] s[i] = ")" -> scanCloseParen(s, i + 1, e)
    [] s[i] = "#" -> scanPoundName(s, i + 1, e)
    [] s[i] \in NameChars -> scanWord(s, i, e)
    [] OTHER -> Bad(i)

\* A run of data inside a literal, up to the first of stops.
LiteralRun(s, i, e, stops) == Tok("DATA_CHARS", First(e, {k \in (i + 1)..e : Ch(s, k) \in stops}))

attributeValueTok(s, i, e) ==
  IF i > e THEN Tok("NONE", 0)
  ELSE IF s[i] = "&" THEN scanRef(s, i + 1, e)
  ELSE IF s[i] \in {Cr, Lf} THEN NewLine(s, i, e, "TRAILING_CR")
  ELSE IF s[i] \in Space THEN Tok("ATTRIBUTE_VALUE_S", i + 1)
  ELSE LET run == LiteralRun(s, i, e, Space \union {"&", "<"})
       IN  IF s[i] = "<" THEN Bad(i)
           ELSE IF run.next <= e /\ s[run.next] = "<" THEN Bad(run.next) ELSE run

entityValueTok(s, i, e) ==
  IF i > e THEN Tok("NONE", 0)
  ELSE IF s[i] = "&" THEN scanRef(s, i + 1, e)
  ELSE IF s[i] = "%" THEN scanPercent(s, i + 1, e)
  ELSE IF s[i] \in {Cr, Lf} THEN NewLine(s, i, e, "TRAILING_CR")
  ELSE LiteralRun(s, i, e, {"&", "%", Cr, Lf})

\* The characters of a public identifier.
isPublicId(lit) ==
  \A k \in DOMAIN lit :
    lit[k] \in Letters \union Digits \union {" ", Cr, Lf} \union CharSet("-'()+,./=?;!*#@$%")

\* The attributes of a tag that scanLt found well formed: in name and value the
\* positions of their first characters and in end that of the closing quote.
getAtts(s, i, e) ==
  LET att[k \in 1..(e + 1)] ==
        LET n == Skip(s, k, e, Space)
            q == Skip(s, n, e, NameChars)
            o == First(e, {h \in q..e : s[h] \in Quotes})
            c == First(e, {h \in (o + 1)..e : s[h] = s[o]})
        IN  IF s[n] \in {">", "/"} THEN <<>>
            ELSE <<[name |-> SubSeq(s, n, q - 1), value |-> SubSeq(s, o + 1, c - 1), quote |-> s[o]]>>
                 \o att[c + 1]
  IN  att[Skip(s, i, e, NameChars)]

\* getAtts also tells a value that normalization would not change: it has no
\* reference and no line end, no tab, and no space at its ends or next to one.
normalized(value) ==
  \A k \in DOMAIN value :
    /\ value[k] \notin {"&", Cr, Lf, "\t"}
    /\ value[k] = " " => k > 1 /\ k < Len(value) /\ value[k + 1] # " "

HexValue == [c \in HexDigits |->
  CHOOSE n \in 0..15 : c \in {Chars("0123456789abcdef")[n + 1], Chars("0123456789ABCDEF")[n + 1]}]

\* charRefNumber and checkCharRefNumber: the number of "&#...;" at i, or -1.
charRefNumber(s, i) ==
  LET hex == s[i + 2] = "x"
      semi == CHOOSE k \in (i + 2)..Len(s) : s[k] = ";" /\ \A h \in i..(k - 1) : s[h] # ";"
      number[k \in Nat] ==
        IF k < (IF hex THEN i + 3 ELSE i + 2) THEN 0
        ELSE IF number[k - 1] < 0 \/ number[k - 1] * (IF hex THEN 16 ELSE 10) + HexValue[s[k]] >= 1114112
        THEN -1 ELSE number[k - 1] * (IF hex THEN 16 ELSE 10) + HexValue[s[k]]
      n == number[semi - 1]
  IN  IF n \in 55296..57343 \/ n \in {65534, 65535} \/ (n \in 0..31 /\ n \notin {9, 10, 13}) THEN -1 ELSE n

PredefinedChar == ("lt" :> "<") @@ ("gt" :> ">") @@ ("amp" :> "&") @@ ("quot" :> Quote) @@ ("apos" :> "'")

\* initScan: with a single byte the encoding of a document cannot be told yet.
FirstTok(s, i, e) == IF i = e THEN Short ELSE prologTok(s, i, e)

\* One pseudo attribute of the XML declaration at i, with the white space that
\* has to come before it; an empty name when only white space is left.  n, q,
\* eq, o and c are where its name, its end, "=", and the quotes are.
NoAttribute(ok, i) == [ok |-> ok, name |-> <<>>, value |-> <<>>, next |-> i]

pseudoValue(s, i, e, n, q, eq, o) ==
  LET c == First(e, {k \in (o + 1)..e : s[k] \notin (Letters \ {":"}) \union Digits \union {".", "-"}})
  IN  IF n = i \/ q = n \/ eq > e \/ o > e \/ c > e THEN NoAttribute(FALSE, i)
      ELSE IF s[eq] # "=" \/ s[o] \notin Quotes \/ s[c] # s[o] THEN NoAttribute(FALSE, i)
      ELSE [ok |-> TRUE, name |-> SubSeq(s, n, q - 1), value |-> SubSeq(s, o + 1, c - 1), next |-> c + 1]

parsePseudoAttribute(s, i, e) ==
  LET Equals(n, q, eq) == pseudoValue(s, i, e, n, q, eq, Skip(s, eq + 1, e, Space))
      Name(n, q) == Equals(n, q, Skip(s, q, e, Space))
      From(n) == IF n > e THEN NoAttribute(TRUE, i)
                 ELSE Name(n, First(e, {k \in n..e : s[k] \in Space \union {"="}}))
  IN  From(Skip(s, i, e, Space))

\* The encodings findEncoding knows, by the width of a character: the missing comma
\* after "UTF-16BE" in encodingNames leaves that label and UTF-16LE unknown.
EncodingWidth == (Chars("utf-8") :> 1) @@ (Chars("iso-8859-1") :> 1) @@ (Chars("us-ascii") :> 1)
                 @@ (Chars("utf-16") :> 2)

Upper == Chars("ABCDEFGHIJKLMNOPQRSTUVWXYZ")
Lower == Chars("abcdefghijklmnopqrstuvwxyz")
ToLower(s) == [k \in DOMAIN s |-> IF \E h \in 1..26 : Upper[h] = s[k]
                                  THEN Lower[CHOOSE h \in 1..26 : Upper[h] = s[k]] ELSE s[k]]

Decl(err, standalone) == [err |-> err, standalone |-> standalone]

\* The value of the encoding.
encodingErr(name) ==
  IF name \notin DOMAIN EncodingWidth THEN "UNKNOWN_ENCODING"
  ELSE IF EncodingWidth[name] # 1 THEN "INCORRECT_ENCODING" ELSE "NONE"

\* What comes after the version and the encoding.
declEnd(s, e, encErr, third) ==
  IF ~third.ok THEN Decl("SYNTAX", FALSE)
  ELSE IF third.name = <<>> THEN Decl(encErr, FALSE)
  ELSE IF third.name # Chars("standalone") \/ third.value \notin {Chars("yes"), Chars("no")}
          \/ Skip(s, third.next, e, Space) <= e THEN Decl("SYNTAX", FALSE)
  ELSE Decl(encErr, third.value = Chars("yes"))

\* doParseXmlDecl and the checks of processXmlDecl on "<?xml ... ?>" in s.
parseXmlDecl(s) ==
  LET e == Len(s) - 2
      AfterVersion(version, second) ==
        IF ~version.ok \/ version.name # Chars("version") \/ ~second.ok THEN Decl("SYNTAX", FALSE)
        ELSE IF second.name # Chars("encoding") THEN declEnd(s, e, "NONE", second)
        ELSE IF second.value = <<>> \/ second.value[1] \notin Letters \ {"_", ":"} THEN Decl("SYNTAX", FALSE)
        ELSE declEnd(s, e, encodingErr(ToLower(second.value)), parsePseudoAttribute(s, second.next, e))
      From(version) == AfterVersion(version, parsePseudoAttribute(s, version.next, e))
  IN  From(parsePseudoAttribute(s, 6, e))
=============================================================================
