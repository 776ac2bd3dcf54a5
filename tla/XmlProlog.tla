----------------------------- MODULE XmlProlog -----------------------------
(***************************************************************************)
(* What prologProcessor (src/xmlnode/xmlparse.c) does with the role of a   *)
(* token: the tables of the DTD, the declaration being read, and the array *)
(* of connectors that checks a content model, one cell for each open       *)
(* group.  The state is one record, d, so that the parser can carry it.    *)
(*                                                                         *)
(* The handlers src/xmlnode/expat.c never installs are left out, and the   *)
(* calls of malloc succeed.                                                *)
(***************************************************************************)
EXTENDS XmlRole, Sequences, FiniteSets

CONSTANTS
  Group0,            \* the first size of groupConnector (32)
  AttValue(_, _, _), \* storeAttributeValue: [err, text] of a literal, in a DTD
  EntValue(_),       \* storeEntityValue: [err, text] of a literal
  PublicId(_)        \* XmlIsPublicId and normalizePublicId: [err, text]

ASSUME GroupAssumption == Group0 \in Nat /\ Group0 > 1

Predefined == {"lt", "gt", "amp", "quot", "apos"}

None == "none"

NewEntity == [text |-> None, system |-> None, public |-> None, notation |-> None]

\* parserInit, dtdInit: no DTD, no group array, the first handler.
PrologInit ==
  [handler |-> "prolog0", level |-> 0, connector |-> [i \in {} |-> "none"],
   external |-> FALSE, complete |-> TRUE, standalone |-> FALSE, err |-> "NONE",
   ents |-> [n \in {} |-> NewEntity], atts |-> [e \in {} |-> <<>>],
   declE |-> None, declT |-> None, declA |-> None, isCdata |-> FALSE]

\* A mutant for the runs: the array grows one level too late.
GrowLate(connector, level) ==
  LET size == Cardinality(DOMAIN connector)
  IN  IF level <= size /\ size > 0 THEN connector
      ELSE [i \in 0..(2 * size + Group0) |-> IF i < size THEN connector[i] ELSE "junk"]

\* The groupConnector of the code doubles when the level reaches its size; what
\* realloc adds is not initialised.
GrowConnector(connector, level) ==
  LET size == Cardinality(DOMAIN connector)
      more == IF size = 0 THEN Group0 ELSE 2 * size
  IN  IF level < size THEN connector
      ELSE [i \in 0..(more - 1) |-> IF i < size THEN connector[i] ELSE "junk"]

\* A mutant: the cell keeps the connector of an earlier group.
OpenGroupAsIs(d) ==
  [d EXCEPT !.connector = [i \in DOMAIN GrowConnector(@, d.level) |->
                             IF i \in DOMAIN @ THEN @[i] ELSE "none"]]

\* XML_ROLE_GROUP_OPEN.
OpenGroup(d) == [d EXCEPT !.connector = [GrowConnector(@, d.level) EXCEPT ![d.level] = "none"]]

\* XML_ROLE_GROUP_SEQUENCE and XML_ROLE_GROUP_CHOICE: a group has one connector.
Connect(d, mine, other) ==
  IF d.connector[d.level] = other THEN [d EXCEPT !.err = "SYNTAX"]
  ELSE [d EXCEPT !.connector[d.level] = mine]

\* A table with one more name.
Added(table, name, value) ==
  [n \in DOMAIN table \cup {name} |-> IF n = name THEN value ELSE table[n]]

\* XML_ROLE_GENERAL_ENTITY_NAME: only the first declaration of a name that is
\* not predefined, in a DTD read so far completely, is the one being filled in.
NameEntity(d, name) ==
  IF name \in Predefined \/ ~d.complete \/ name \in DOMAIN d.ents
  THEN [d EXCEPT !.declE = None]
  ELSE [d EXCEPT !.declE = name, !.ents = Added(@, name, NewEntity)]

\* A mutant: a parameter entity is filled into the entity named before.
NameParamEntityAsBefore(d) == d

\* XML_ROLE_PARAM_ENTITY_NAME.
NameParamEntity(d) == [d EXCEPT !.declE = None]

FillEntity(d, field, value) ==
  IF d.declE = None THEN d ELSE [d EXCEPT !.ents[d.declE][field] = value]

\* defineAttribute appends: a second declaration of an attribute comes after the first.
DefineAttribute(d, value) ==
  IF d.complete
  THEN [d EXCEPT !.atts[d.declT] = Append(@, [id |-> d.declA, cdata |-> d.isCdata, value |-> value])]
  ELSE d

NameElementType(d, name) ==
  [d EXCEPT !.declT = name,
            !.atts = IF name \in DOMAIN @ THEN @ ELSE Added(@, name, <<>>)]

Checked(d, value, done) == IF value.err = "NONE" THEN done ELSE [d EXCEPT !.err = value.err]

SyntaxCode(tok) ==
  CASE tok = "PARAM_ENTITY_REF" -> "PARAM_ENTITY_REF"
    [] tok = "XML_DECL" -> "MISPLACED_XML_PI"
    [] OTHER -> "SYNTAX"

\* The switch over the role.  d already has the next handler and level; t is
\* the token with its word and, for a literal, what is between the quotes.
Act(d, role, t) ==
  CASE role = "XML_DECL" -> [d EXCEPT !.standalone = (t.word = "standalone")]
    [] role = "DOCTYPE_SYSTEM_ID" -> [d EXCEPT !.external = TRUE]
    [] role \in {"DOCTYPE_PUBLIC_ID", "ENTITY_PUBLIC_ID", "NOTATION_PUBLIC_ID"} ->
         Checked(d, PublicId(t.lit),
                 IF role = "NOTATION_PUBLIC_ID" THEN d
                 ELSE FillEntity(d, "public", PublicId(t.lit).text))
    [] role = "INSTANCE_START" -> [d EXCEPT !.complete = @ /\ ~d.external]
    [] role = "ATTLIST_ELEMENT_NAME" -> NameElementType(d, t.word)
    [] role = "ATTRIBUTE_NAME" -> [d EXCEPT !.declA = t.word, !.isCdata = FALSE]
    [] role = "ATTRIBUTE_TYPE_CDATA" -> [d EXCEPT !.isCdata = TRUE]
    [] role \in {"IMPLIED_ATTRIBUTE_VALUE", "REQUIRED_ATTRIBUTE_VALUE"} -> DefineAttribute(d, None)
    [] role \in {"DEFAULT_ATTRIBUTE_VALUE", "FIXED_ATTRIBUTE_VALUE"} ->
         Checked(d, AttValue(d, d.isCdata, t.lit), DefineAttribute(d, AttValue(d, d.isCdata, t.lit).text))
    [] role = "ENTITY_VALUE" -> Checked(d, EntValue(t.lit), FillEntity(d, "text", EntValue(t.lit).text))
    [] role = "ENTITY_SYSTEM_ID" -> FillEntity(d, "system", t.lit)
    [] role = "ENTITY_NOTATION_NAME" -> FillEntity(d, "notation", t.word)
    [] role = "GENERAL_ENTITY_NAME" -> NameEntity(d, t.word)
    [] role = "PARAM_ENTITY_NAME" -> NameParamEntity(d)
    [] role = "ERROR" -> [d EXCEPT !.err = SyntaxCode(t.tok)]
    [] role = "GROUP_OPEN" -> OpenGroup(d)
    [] role = "GROUP_SEQUENCE" -> Connect(d, ",", "|")
    [] role = "GROUP_CHOICE" -> Connect(d, "|", ",")
    [] role = "PARAM_ENTITY_REF" -> [d EXCEPT !.complete = FALSE]
    [] OTHER -> d

\* One round of prologProcessor with a token.
PrologStep(d, t) ==
  LET r == XmlTokenRole(d.handler, d.level, t.tok, t.word)
  IN  Act([d EXCEPT !.handler = r.handler, !.level = r.level], r.role, t)
=============================================================================
