---------------------------- MODULE MCXmlDoctype ----------------------------
(***************************************************************************)
(* XmlDoctype on small documents: the entity a and the predefined lt,      *)
(* literals v and w, a literal that is no entity value, groups three deep  *)
(* in an array that starts with two cells.                                 *)
(***************************************************************************)
EXTENDS XmlDoctype

Literal(lit) == IF lit = "bad" THEN [err |-> "INVALID_TOKEN", text |-> lit]
                ELSE [err |-> "NONE", text |-> lit]

MCAttValue(dtd, isCdata, lit) == Literal(lit)

Words == {"a", "b", "lt", "SYSTEM", "PUBLIC", "NDATA", "CDATA", "EMPTY"}

Plain == {"XML_DECL", "BOM", "PROLOG_S", "PI", "INSTANCE_START", "DECL_CLOSE", "OPEN_BRACKET",
          "CLOSE_BRACKET", "PARAM_ENTITY_REF", "PERCENT", "OPEN_PAREN", "CLOSE_PAREN",
          "CLOSE_PAREN_ASTERISK", "OR", "COMMA", "NAME_PLUS"}

MCTokens ==
  {[tok |-> tok, word |-> "", lit |-> ""] : tok \in Plain}
  \union {[tok |-> "DECL_OPEN", word |-> w, lit |-> ""] :
             w \in {"DOCTYPE", "ENTITY", "ATTLIST", "ELEMENT", "NOTATION"}}
  \union {[tok |-> "NAME", word |-> w, lit |-> ""] : w \in Words}
  \union {[tok |-> "POUND_NAME", word |-> w, lit |-> ""] : w \in {"PCDATA", "IMPLIED", "FIXED"}}
  \union {[tok |-> "LITERAL", word |-> "", lit |-> l] : l \in {"v", "w", "bad"}}
=============================================================================
