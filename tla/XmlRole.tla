------------------------------ MODULE XmlRole ------------------------------
(***************************************************************************)
(* The grammar of the prolog (src/xmlnode/xmlrole.c): a handler for every  *)
(* place a declaration can be in, and for every token the role it plays    *)
(* there and the handler that comes next.  Each C function is a set of     *)
(* rules <<handler, token, keyword, next handler, role>>; an empty keyword *)
(* matches every word.  White space keeps the place it is in, and anything *)
(* without a rule is a syntax error.  Without XML_NS, which no build file  *)
(* defines, the tokenizer makes no prefixed names.                         *)
(***************************************************************************)
EXTENDS Integers

\* The keyword of a rule that looks at no word.
AnyWord == ""

PrologRules ==
  UNION {{<<"prolog0", tok, AnyWord, "prolog1", "NONE">> : tok \in {"PROLOG_S", "PI", "COMMENT"}},
         {<<"prolog1", tok, AnyWord, "prolog1", "NONE">> : tok \in {"PI", "COMMENT", "BOM"}},
         {<<"prolog2", tok, AnyWord, "prolog2", "NONE">> : tok \in {"PI", "COMMENT"}},
         {<<h, "DECL_OPEN", "DOCTYPE", "doctype0", "NONE">> : h \in {"prolog0", "prolog1"}},
         {<<h, "INSTANCE_START", AnyWord, "error", "INSTANCE_START">> :
             h \in {"prolog0", "prolog1", "prolog2"}},
         {<<"prolog0", "XML_DECL", AnyWord, "prolog1", "XML_DECL">>,
          <<"prolog0", "BOM", AnyWord, "prolog0", "NONE">>}}

DoctypeRules ==
  UNION {{<<h, "DECL_CLOSE", AnyWord, "prolog2", "DOCTYPE_CLOSE">> :
             h \in {"doctype1", "doctype4", "doctype5"}},
         {<<h, "OPEN_BRACKET", AnyWord, "internalSubset", "NONE">> : h \in {"doctype1", "doctype4"}},
         {<<"doctype0", "NAME", AnyWord, "doctype1", "DOCTYPE_NAME">>,
          <<"doctype1", "NAME", "SYSTEM", "doctype3", "NONE">>,
          <<"doctype1", "NAME", "PUBLIC", "doctype2", "NONE">>,
          <<"doctype2", "LITERAL", AnyWord, "doctype3", "DOCTYPE_PUBLIC_ID">>,
          <<"doctype3", "LITERAL", AnyWord, "doctype4", "DOCTYPE_SYSTEM_ID">>}}

SubsetRules ==
  UNION {{<<"internalSubset", tok, AnyWord, "internalSubset", "NONE">> : tok \in {"PI", "COMMENT"}},
         {<<"internalSubset", "DECL_OPEN", "ENTITY", "entity0", "NONE">>,
          <<"internalSubset", "DECL_OPEN", "ATTLIST", "attlist0", "NONE">>,
          <<"internalSubset", "DECL_OPEN", "ELEMENT", "element0", "NONE">>,
          <<"internalSubset", "DECL_OPEN", "NOTATION", "notation0", "NONE">>,
          <<"internalSubset", "PARAM_ENTITY_REF", AnyWord, "internalSubset", "PARAM_ENTITY_REF">>,
          <<"internalSubset", "CLOSE_BRACKET", AnyWord, "doctype5", "NONE">>}}

EntityRules ==
  {<<"entity0", "PERCENT", AnyWord, "entity1", "NONE">>,
   <<"entity0", "NAME", AnyWord, "entity2", "GENERAL_ENTITY_NAME">>,
   <<"entity1", "NAME", AnyWord, "entity7", "PARAM_ENTITY_NAME">>,
   <<"entity2", "NAME", "SYSTEM", "entity4", "NONE">>,
   <<"entity2", "NAME", "PUBLIC", "entity3", "NONE">>,
   <<"entity2", "LITERAL", AnyWord, "declClose", "ENTITY_VALUE">>,
   <<"entity3", "LITERAL", AnyWord, "entity4", "ENTITY_PUBLIC_ID">>,
   <<"entity4", "LITERAL", AnyWord, "entity5", "ENTITY_SYSTEM_ID">>,
   <<"entity5", "DECL_CLOSE", AnyWord, "internalSubset", "NONE">>,
   <<"entity5", "NAME", "NDATA", "entity6", "NONE">>}

ParamEntityRules ==
  {<<"entity6", "NAME", AnyWord, "declClose", "ENTITY_NOTATION_NAME">>,
   <<"entity7", "NAME", "SYSTEM", "entity9", "NONE">>,
   <<"entity7", "NAME", "PUBLIC", "entity8", "NONE">>,
   <<"entity7", "LITERAL", AnyWord, "declClose", "ENTITY_VALUE">>,
   <<"entity8", "LITERAL", AnyWord, "entity9", "ENTITY_PUBLIC_ID">>,
   <<"entity9", "LITERAL", AnyWord, "declClose", "ENTITY_SYSTEM_ID">>}

NotationRules ==
  {<<"notation0", "NAME", AnyWord, "notation1", "NOTATION_NAME">>,
   <<"notation1", "NAME", "SYSTEM", "notation3", "NONE">>,
   <<"notation1", "NAME", "PUBLIC", "notation2", "NONE">>,
   <<"notation2", "LITERAL", AnyWord, "notation4", "NOTATION_PUBLIC_ID">>,
   <<"notation3", "LITERAL", AnyWord, "declClose", "NOTATION_SYSTEM_ID">>,
   <<"notation4", "LITERAL", AnyWord, "declClose", "NOTATION_SYSTEM_ID">>,
   <<"notation4", "DECL_CLOSE", AnyWord, "internalSubset", "NOTATION_NO_SYSTEM_ID">>}

TokenizedTypes == {"ID", "IDREF", "IDREFS", "ENTITY", "ENTITIES", "NMTOKEN", "NMTOKENS"}

AttlistRules ==
  UNION {{<<"attlist2", "NAME", type, "attlist8", "ATTRIBUTE_TYPE">> : type \in TokenizedTypes},
         {<<"attlist3", tok, AnyWord, "attlist4", "ATTRIBUTE_ENUM_VALUE">> : tok \in {"NMTOKEN", "NAME"}},
         {<<"attlist0", "NAME", AnyWord, "attlist1", "ATTLIST_ELEMENT_NAME">>,
          <<"attlist1", "DECL_CLOSE", AnyWord, "internalSubset", "NONE">>,
          <<"attlist1", "NAME", AnyWord, "attlist2", "ATTRIBUTE_NAME">>,
          <<"attlist2", "NAME", "CDATA", "attlist8", "ATTRIBUTE_TYPE_CDATA">>,
          <<"attlist2", "NAME", "NOTATION", "attlist5", "NONE">>,
          <<"attlist2", "OPEN_PAREN", AnyWord, "attlist3", "NONE">>}}

AttlistEndRules ==
  {<<"attlist4", "CLOSE_PAREN", AnyWord, "attlist8", "NONE">>,
   <<"attlist4", "OR", AnyWord, "attlist3", "NONE">>,
   <<"attlist5", "OPEN_PAREN", AnyWord, "attlist6", "NONE">>,
   <<"attlist6", "NAME", AnyWord, "attlist7", "ATTRIBUTE_NOTATION_VALUE">>,
   <<"attlist7", "CLOSE_PAREN", AnyWord, "attlist8", "NONE">>,
   <<"attlist7", "OR", AnyWord, "attlist6", "NONE">>,
   <<"attlist8", "POUND_NAME", "IMPLIED", "attlist1", "IMPLIED_ATTRIBUTE_VALUE">>,
   <<"attlist8", "POUND_NAME", "REQUIRED", "attlist1", "REQUIRED_ATTRIBUTE_VALUE">>,
   <<"attlist8", "POUND_NAME", "FIXED", "attlist9", "NONE">>,
   <<"attlist8", "LITERAL", AnyWord, "attlist1", "DEFAULT_ATTRIBUTE_VALUE">>,
   <<"attlist9", "LITERAL", AnyWord, "attlist1", "FIXED_ATTRIBUTE_VALUE">>}

ChildTokens == {"NAME", "NAME_QUESTION", "NAME_ASTERISK", "NAME_PLUS"}

ElementRules ==
  UNION {{<<"element2", tok, AnyWord, "element7", "CONTENT_ELEMENT">> : tok \in ChildTokens},
         {<<"element3", tok, AnyWord, "declClose", "GROUP_CLOSE">> :
             tok \in {"CLOSE_PAREN", "CLOSE_PAREN_ASTERISK"}},
         {<<"element0", "NAME", AnyWord, "element1", "ELEMENT_NAME">>,
          <<"element1", "NAME", "EMPTY", "declClose", "CONTENT_EMPTY">>,
          <<"element1", "NAME", "ANY", "declClose", "CONTENT_ANY">>,
          <<"element1", "OPEN_PAREN", AnyWord, "element2", "GROUP_OPEN">>,
          <<"element2", "POUND_NAME", "PCDATA", "element3", "CONTENT_PCDATA">>,
          <<"element2", "OPEN_PAREN", AnyWord, "element6", "GROUP_OPEN">>,
          <<"element3", "OR", AnyWord, "element4", "NONE">>}}

GroupRules ==
  UNION {{<<"element6", tok, AnyWord, "element7", "CONTENT_ELEMENT">> : tok \in ChildTokens},
         {<<"element7", tok, AnyWord, "element7", "GROUP_CLOSE">> :
             tok \in {"CLOSE_PAREN", "CLOSE_PAREN_ASTERISK", "CLOSE_PAREN_QUESTION",
                      "CLOSE_PAREN_PLUS"}},
         {<<"element4", "NAME", AnyWord, "element5", "CONTENT_ELEMENT">>,
          <<"element5", "CLOSE_PAREN_ASTERISK", AnyWord, "declClose", "GROUP_CLOSE">>,
          <<"element5", "OR", AnyWord, "element4", "NONE">>,
          <<"element6", "OPEN_PAREN", AnyWord, "element6", "GROUP_OPEN">>,
          <<"element7", "COMMA", AnyWord, "element6", "GROUP_SEQUENCE">>,
          <<"element7", "OR", AnyWord, "element6", "GROUP_CHOICE">>,
          <<"declClose", "DECL_CLOSE", AnyWord, "internalSubset", "NONE">>}}

Rules == UNION {PrologRules, DoctypeRules, SubsetRules, EntityRules, ParamEntityRules,
                NotationRules, AttlistRules, AttlistEndRules, ElementRules, GroupRules}

Handlers == {r[1] : r \in Rules} \union {"error"}

RulesOf == [h \in Handlers |-> {r \in Rules : r[1] = h}]

\* A depth of groups: the code keeps state->level in the three handlers that
\* open a group and the one that closes them.
LevelAfter(h, level, role) ==
  CASE role = "GROUP_OPEN" /\ h = "element1" -> 1
    [] role = "GROUP_OPEN" /\ h = "element2" -> 2
    [] role = "GROUP_OPEN" /\ h = "element6" -> level + 1
    [] role = "GROUP_CLOSE" /\ h = "element7" -> level - 1
    [] OTHER -> level

\* The role of a token with the word it carries, the next handler and the level.
XmlTokenRole(h, level, tok, word) ==
  LET fits == {r \in RulesOf[h] : r[2] = tok /\ r[3] \in {AnyWord, word}}
      rule == CHOOSE r \in fits : TRUE
      deep == LevelAfter(h, level, rule[5])
  IN  IF h = "error" THEN [handler |-> h, level |-> level, role |-> "NONE"]
      ELSE IF tok = "PROLOG_S" /\ h # "prolog0" THEN [handler |-> h, level |-> level, role |-> "NONE"]
      ELSE IF fits = {} THEN [handler |-> "error", level |-> level, role |-> "ERROR"]
      ELSE [handler |-> IF h = "element7" /\ rule[5] = "GROUP_CLOSE" /\ deep = 0
                        THEN "declClose" ELSE rule[4],
            level |-> deep, role |-> rule[5]]
=============================================================================
