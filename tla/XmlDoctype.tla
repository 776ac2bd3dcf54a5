----------------------------- MODULE XmlDoctype -----------------------------
(***************************************************************************)
(* The prolog under any sequence of tokens: the loop of prologProcessor    *)
(* (src/xmlnode/xmlparse.c) until it fails or the root element starts.     *)
(* Two history variables keep what the document said, in its own terms:    *)
(* the tokens of the declaration being read, and the general entities      *)
(* declared so far in a DTD without unread parts.                          *)
(***************************************************************************)
EXTENDS XmlProlog

CONSTANTS
  Tokens,      \* the tokens a document may be made of: [tok, word, lit]
  MaxDecls,    \* bound: declarations of the internal subset
  MaxLevel,    \* bound: depth of the groups of a content model
  MaxAtts      \* bound: attributes declared for an element type

\* None is a null pointer, which no name is.
ASSUME NamesAssumption == \A t \in Tokens : t.word # None

VARIABLES
  d,           \* the prolog state of the parser
  decl,        \* history: the tokens of the declaration being read
  declared,    \* history: what general entities were declared as, in order
  opened       \* how many declarations were opened, for the bound

vars == <<d, decl, declared, opened>>

Init == d = PrologInit /\ decl = <<>> /\ declared = <<>> /\ opened = 0

\* <!ENTITY name "text"> or <!ENTITY name SYSTEM "..." [NDATA n]>, in tokens.
EntityDecl(s) ==
  /\ Len(s) > 2
  /\ s[1].word = "ENTITY"
  /\ s[2].tok = "NAME"

Declared(s) ==
  IF s[3].tok = "LITERAL"
  THEN [name |-> s[2].word, text |-> EntValue(s[3].lit).text, system |-> None]
  ELSE [name |-> s[2].word, text |-> None,
        system |-> IF s[3].word = "SYSTEM" THEN s[4].lit ELSE s[5].lit]

\* Words are offered as keywords only where some keyword is expected; elsewhere
\* they are names like any other.
Keywords == {r[3] : r \in {r \in Rules : r[2] = "NAME"}} \ {AnyWord}

\* The processor takes one more token; the history follows entity declarations
\* that were read to their end while the subset was complete.
Read(t) ==
  /\ d' = PrologStep(d, t)
  /\ decl' = IF d'.handler = "internalSubset" \/ d'.err # "NONE" THEN <<>>
             ELSE IF t.tok = "DECL_OPEN" THEN <<t>>
             ELSE IF decl # <<>> /\ decl[1].word = "ENTITY" /\ t.tok # "PROLOG_S" THEN Append(decl, t)
             ELSE decl
  /\ declared' = IF t.tok = "DECL_CLOSE" /\ d'.err = "NONE" /\ EntityDecl(decl)
                    /\ d.complete /\ decl[2].word \notin Predefined
                 THEN Append(declared, Declared(decl)) ELSE declared
  /\ opened' = IF t.tok = "DECL_OPEN" THEN opened + 1 ELSE opened

Next ==
  /\ d.err = "NONE"
  /\ d.handler # "error"
  /\ \E t \in Tokens :
       /\ t.tok = "OPEN_PAREN" => d.level < MaxLevel
       /\ t.tok = "DECL_OPEN" => opened < MaxDecls
       /\ d.handler = "attlist1" /\ t.tok = "NAME" => Len(d.atts[d.declT]) < MaxAtts
       /\ t.word \in Keywords => \E r \in RulesOf[d.handler] : r[3] \in Keywords
       /\ Read(t)

Spec == Init /\ [][Next]_vars

-----------------------------------------------------------------------------

Grouping == d.handler \in {"element2", "element6", "element7"}

\* The groups the code has open, innermost first, as its array holds them.
OpenGroups == IF Grouping THEN [i \in 1..d.level |-> d.connector[d.level + 1 - i]] ELSE <<>>

CM == INSTANCE ContentModel WITH stack <- OpenGroups

\* The array of connectors with its level implements the abstract stack of
\* groups, though cells are reused, and grown uninitialised, as groups come and go.
GroupsImplemented == CM!Spec

\* The cell of the innermost open group is inside the array.
ConnectorInBounds == Grouping => d.level \in DOMAIN d.connector /\ d.level > 0

\* Between two declarations the table of entities says exactly what the first
\* declaration of each name said, and nothing of a declaration that came after
\* a parameter entity reference the parser did not read.
FirstDeclarationWins ==
  d.handler = "internalSubset" =>
    /\ DOMAIN d.ents = {declared[i].name : i \in DOMAIN declared}
    /\ \A i \in DOMAIN declared :
         LET n == declared[i].name IN
         (\A j \in 1..(i - 1) : declared[j].name # n) =>
           d.ents[n].text = declared[i].text /\ d.ents[n].system = declared[i].system
=============================================================================
