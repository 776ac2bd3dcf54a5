-------------------------- MODULE XmlDoctypeProofs --------------------------
(***************************************************************************)
(* Proofs about XmlDoctype, for every set of tokens, every first size of   *)
(* the array of connectors above 1 and groups of any depth: the array has  *)
(* a cell for the innermost open group, with its level it implements the   *)
(* abstract stack of groups of ContentModel, and the table of entities     *)
(* says what the first declaration of each name said.                      *)
(*                                                                         *)
(* The argument about the array has three parts: where the table of rules  *)
(* may lead from a handler and a level (TokenMoves), what the switch over  *)
(* the role does to the array (ActKeeps, OpenGroupIs, ConnectIs), and the  *)
(* invariant of the two together, GoodState, with the stack the array      *)
(* stands for (StepGood).                                                  *)
(*                                                                         *)
(* For the entities, where a token leads inside a declaration comes from   *)
(* the table of rules (TokenMovesEntity); what the switch fills in, and    *)
(* what it leaves alone, from FillIs and ActLeaves.  The invariant is what *)
(* the table of entities holds at each place of a declaration (InEntity).  *)
(***************************************************************************)
EXTENDS XmlDoctype, FiniteSetTheorems, SequenceTheorems, TLAPS

-----------------------------------------------------------------------------
\* The table of rules

\* The handlers that are inside a content model with groups.
InGroup == {"element2", "element6", "element7"}
Connecting == {"GROUP_SEQUENCE", "GROUP_CHOICE"}
GroupRoles == Connecting \cup {"GROUP_OPEN", "GROUP_CLOSE"}

\* What a rule may do to the place in a content model.
GroupRule(h, next, role) ==
  /\ h # "error"
  /\ role \in Connecting => h = "element7" /\ next = "element6"
  /\ role = "GROUP_OPEN" => \/ h = "element1" /\ next = "element2"
                            \/ h \in {"element2", "element6"} /\ next = "element6"
  /\ role = "GROUP_CLOSE" => \/ h = "element7" /\ next = "element7"
                             \/ h \in {"element3", "element5"} /\ next = "declClose"
  /\ role \notin GroupRoles /\ next \in InGroup =>
       h \in {"element2", "element6"} /\ next = "element7"

LEMMA GroupRules1 ==
  \A r \in PrologRules \cup DoctypeRules \cup SubsetRules : GroupRule(r[1], r[4], r[5])
<1>1. \A r \in PrologRules : GroupRule(r[1], r[4], r[5])
  BY DEF PrologRules, GroupRule, Connecting, GroupRoles, InGroup
<1>2. \A r \in DoctypeRules : GroupRule(r[1], r[4], r[5])
  BY DEF DoctypeRules, GroupRule, Connecting, GroupRoles, InGroup
<1>3. \A r \in SubsetRules : GroupRule(r[1], r[4], r[5])
  BY DEF SubsetRules, GroupRule, Connecting, GroupRoles, InGroup
<1>4. QED BY <1>1, <1>2, <1>3

LEMMA GroupRules2 ==
  \A r \in EntityRules \cup ParamEntityRules \cup NotationRules : GroupRule(r[1], r[4], r[5])
<1>1. \A r \in EntityRules : GroupRule(r[1], r[4], r[5])
  BY DEF EntityRules, GroupRule, Connecting, GroupRoles, InGroup
<1>2. \A r \in ParamEntityRules : GroupRule(r[1], r[4], r[5])
  BY DEF ParamEntityRules, GroupRule, Connecting, GroupRoles, InGroup
<1>3. \A r \in NotationRules : GroupRule(r[1], r[4], r[5])
  BY DEF NotationRules, GroupRule, Connecting, GroupRoles, InGroup
<1>4. QED BY <1>1, <1>2, <1>3

LEMMA GroupRules3 ==
  \A r \in AttlistRules \cup AttlistEndRules \cup ElementRules \cup GroupRules :
    GroupRule(r[1], r[4], r[5])
<1>1. \A r \in AttlistRules : GroupRule(r[1], r[4], r[5])
  BY DEF AttlistRules, TokenizedTypes, GroupRule, Connecting, GroupRoles, InGroup
<1>2. \A r \in AttlistEndRules : GroupRule(r[1], r[4], r[5])
  BY DEF AttlistEndRules, GroupRule, Connecting, GroupRoles, InGroup
<1>3. \A r \in ElementRules : GroupRule(r[1], r[4], r[5])
  BY DEF ElementRules, ChildTokens, GroupRule, Connecting, GroupRoles, InGroup
<1>4. \A r \in GroupRules : GroupRule(r[1], r[4], r[5])
  BY DEF GroupRules, ChildTokens, GroupRule, Connecting, GroupRoles, InGroup
<1>5. QED BY <1>1, <1>2, <1>3, <1>4

LEMMA EveryRule == \A r \in Rules : GroupRule(r[1], r[4], r[5])
  BY GroupRules1, GroupRules2, GroupRules3 DEF Rules

\* Every handler a rule names has rules of its own.
LEMMA PrologHandlers ==
  {"prolog0", "prolog1", "prolog2", "doctype0", "doctype1", "doctype2", "doctype3", "doctype4",
   "doctype5", "internalSubset", "error"} \subseteq Handlers
<1>1. /\ <<"prolog0", "XML_DECL", AnyWord, "prolog1", "XML_DECL">> \in PrologRules
      /\ <<"prolog1", "PI", AnyWord, "prolog1", "NONE">> \in PrologRules
      /\ <<"prolog2", "PI", AnyWord, "prolog2", "NONE">> \in PrologRules
  BY DEF PrologRules
<1>2. /\ <<"doctype0", "NAME", AnyWord, "doctype1", "DOCTYPE_NAME">> \in DoctypeRules
      /\ <<"doctype1", "NAME", "SYSTEM", "doctype3", "NONE">> \in DoctypeRules
      /\ <<"doctype2", "LITERAL", AnyWord, "doctype3", "DOCTYPE_PUBLIC_ID">> \in DoctypeRules
      /\ <<"doctype3", "LITERAL", AnyWord, "doctype4", "DOCTYPE_SYSTEM_ID">> \in DoctypeRules
      /\ <<"doctype4", "DECL_CLOSE", AnyWord, "prolog2", "DOCTYPE_CLOSE">> \in DoctypeRules
      /\ <<"doctype5", "DECL_CLOSE", AnyWord, "prolog2", "DOCTYPE_CLOSE">> \in DoctypeRules
  BY DEF DoctypeRules
<1>3. <<"internalSubset", "CLOSE_BRACKET", AnyWord, "doctype5", "NONE">> \in SubsetRules
  BY DEF SubsetRules
<1>4. QED BY <1>1, <1>2, <1>3 DEF Rules, Handlers

LEMMA EntityHandlers ==
  {"entity0", "entity1", "entity2", "entity3", "entity4", "entity5", "entity6", "entity7",
   "entity8", "entity9", "notation0", "notation1", "notation2", "notation3", "notation4"}
    \subseteq Handlers
<1>1. \A r \in EntityRules \cup ParamEntityRules \cup NotationRules : r[1] \in Handlers
  BY DEF Rules, Handlers
<1>2. {"entity0", "entity1", "entity2", "entity3", "entity4", "entity5"}
        \subseteq {r[1] : r \in EntityRules}
  BY DEF EntityRules
<1>3. {"entity6", "entity7", "entity8", "entity9"} \subseteq {r[1] : r \in ParamEntityRules}
  BY DEF ParamEntityRules
<1>4. {"notation0", "notation1", "notation2", "notation3", "notation4"}
        \subseteq {r[1] : r \in NotationRules}
  BY DEF NotationRules
<1>5. QED BY <1>1, <1>2, <1>3, <1>4

LEMMA ElementHandlers ==
  {"attlist0", "attlist1", "attlist2", "attlist3", "attlist4", "attlist5", "attlist6", "attlist7",
   "attlist8", "attlist9", "element0", "element1", "element2", "element3", "element4", "element5",
   "element6", "element7", "declClose"} \subseteq Handlers
<1>1. \A r \in AttlistRules \cup AttlistEndRules \cup ElementRules \cup GroupRules :
        r[1] \in Handlers
  BY DEF Rules, Handlers
<1>2. /\ <<"attlist0", "NAME", AnyWord, "attlist1", "ATTLIST_ELEMENT_NAME">> \in AttlistRules
      /\ <<"attlist1", "NAME", AnyWord, "attlist2", "ATTRIBUTE_NAME">> \in AttlistRules
      /\ <<"attlist2", "NAME", "CDATA", "attlist8", "ATTRIBUTE_TYPE_CDATA">> \in AttlistRules
      /\ <<"attlist3", "NAME", AnyWord, "attlist4", "ATTRIBUTE_ENUM_VALUE">> \in AttlistRules
  BY DEF AttlistRules
<1>3. {"attlist4", "attlist5", "attlist6", "attlist7", "attlist8", "attlist9"}
        \subseteq {r[1] : r \in AttlistEndRules}
  BY DEF AttlistEndRules
<1>4. /\ <<"element0", "NAME", AnyWord, "element1", "ELEMENT_NAME">> \in ElementRules
      /\ <<"element1", "OPEN_PAREN", AnyWord, "element2", "GROUP_OPEN">> \in ElementRules
      /\ <<"element2", "OPEN_PAREN", AnyWord, "element6", "GROUP_OPEN">> \in ElementRules
      /\ <<"element3", "OR", AnyWord, "element4", "NONE">> \in ElementRules
  BY DEF ElementRules
<1>5. /\ <<"element4", "NAME", AnyWord, "element5", "CONTENT_ELEMENT">> \in GroupRules
      /\ <<"element5", "OR", AnyWord, "element4", "NONE">> \in GroupRules
      /\ <<"element6", "OPEN_PAREN", AnyWord, "element6", "GROUP_OPEN">> \in GroupRules
      /\ <<"element7", "OR", AnyWord, "element6", "GROUP_CHOICE">> \in GroupRules
      /\ <<"declClose", "DECL_CLOSE", AnyWord, "internalSubset", "NONE">> \in GroupRules
  BY DEF GroupRules
<1>6. QED BY <1>1, <1>2, <1>3, <1>4, <1>5

LEMMA EveryNext == \A r \in Rules : r[4] \in Handlers
<1>1. \A r \in PrologRules \cup DoctypeRules : r[4] \in Handlers
  BY PrologHandlers DEF PrologRules, DoctypeRules
<1>2. \A r \in SubsetRules : r[4] \in Handlers
  BY PrologHandlers, EntityHandlers, ElementHandlers DEF SubsetRules
<1>3. \A r \in EntityRules \cup ParamEntityRules \cup NotationRules : r[4] \in Handlers
  BY PrologHandlers, EntityHandlers, ElementHandlers DEF EntityRules, ParamEntityRules, NotationRules
<1>4. \A r \in AttlistRules : r[4] \in Handlers
  BY PrologHandlers, ElementHandlers DEF AttlistRules, TokenizedTypes
<1>5. \A r \in AttlistEndRules : r[4] \in Handlers
  BY ElementHandlers DEF AttlistEndRules
<1>6. \A r \in ElementRules : r[4] \in Handlers
  BY ElementHandlers DEF ElementRules, ChildTokens
<1>7. \A r \in GroupRules : r[4] \in Handlers
  BY PrologHandlers, ElementHandlers DEF GroupRules, ChildTokens
<1>8. QED BY <1>1, <1>2, <1>3, <1>4, <1>5, <1>6, <1>7 DEF Rules

-----------------------------------------------------------------------------
\* XmlTokenRole

\* Where a token may lead from the handler h at a level.
Moves(h, level, next, deep, role) ==
  /\ next \in Handlers
  /\ role \in Connecting => h = "element7" /\ next = "element6" /\ deep = level
  /\ role = "GROUP_OPEN" =>
       \/ h = "element1" /\ next = "element2" /\ deep = 1
       \/ h = "element2" /\ next = "element6" /\ deep = 2
       \/ h = "element6" /\ next = "element6" /\ deep = level + 1
  /\ role = "GROUP_CLOSE" =>
       \/ h = "element7" /\ deep = level - 1 /\ next = IF deep = 0 THEN "declClose" ELSE "element7"
       \/ next = "declClose" /\ deep = level
  /\ role \notin GroupRoles =>
       /\ deep = level
       /\ next \in InGroup => next = h \/ (h \in {"element2", "element6"} /\ next = "element7")

LEMMA StaysPut ==
  ASSUME NEW h \in Handlers, NEW level
  PROVE  Moves(h, level, h, level, "NONE")
  BY DEF Moves, Connecting, GroupRoles

LEMMA Stops ==
  ASSUME NEW h \in Handlers, NEW level
  PROVE  Moves(h, level, "error", level, "ERROR")
  BY PrologHandlers DEF Moves, Connecting, GroupRoles, InGroup

LEMMA RuleMoves ==
  ASSUME NEW h, NEW level, NEW next \in Handlers, NEW role, GroupRule(h, next, role)
  PROVE  LET deep == LevelAfter(h, level, role) IN
         Moves(h, level,
               IF h = "element7" /\ role = "GROUP_CLOSE" /\ deep = 0 THEN "declClose" ELSE next,
               deep, role)
<1> DEFINE deep == LevelAfter(h, level, role)
<1>1. CASE role \in Connecting
  <2>1. deep = level
    BY <1>1 DEF LevelAfter, Connecting
  <2>2. QED BY <1>1, <2>1 DEF GroupRule, Moves, Connecting, GroupRoles
<1>2. CASE role = "GROUP_OPEN"
  <2>1. deep = IF h = "element1" THEN 1 ELSE IF h = "element2" THEN 2 ELSE level + 1
    BY <1>2 DEF LevelAfter, GroupRule
  <2>2. QED BY <1>2, <2>1 DEF GroupRule, Moves, Connecting, GroupRoles
<1>3. CASE role = "GROUP_CLOSE"
  <2>1. deep = IF h = "element7" THEN level - 1 ELSE level
    BY <1>3 DEF LevelAfter, GroupRule
  <2>2. QED BY <1>3, <2>1, ElementHandlers DEF GroupRule, Moves, Connecting, GroupRoles
<1>4. CASE role \notin GroupRoles
  <2>1. deep = level
    BY <1>4 DEF LevelAfter, GroupRoles
  <2>2. QED BY <1>4, <2>1 DEF GroupRule, Moves, Connecting, GroupRoles
<1>5. QED BY <1>1, <1>2, <1>3, <1>4 DEF GroupRoles

LEMMA TokenMoves ==
  ASSUME NEW h \in Handlers \ {"error"}, NEW level, NEW tok, NEW word
  PROVE  \E next, deep, role :
           /\ XmlTokenRole(h, level, tok, word) = [handler |-> next, level |-> deep, role |-> role]
           /\ Moves(h, level, next, deep, role)
<1> DEFINE fits == {r \in RulesOf[h] : r[2] = tok /\ r[3] \in {AnyWord, word}}
           rule == CHOOSE r \in fits : TRUE
           deep == LevelAfter(h, level, rule[5])
<1>1. XmlTokenRole(h, level, tok, word) =
        IF tok = "PROLOG_S" /\ h # "prolog0" THEN [handler |-> h, level |-> level, role |-> "NONE"]
        ELSE IF fits = {} THEN [handler |-> "error", level |-> level, role |-> "ERROR"]
        ELSE [handler |-> IF h = "element7" /\ rule[5] = "GROUP_CLOSE" /\ deep = 0
                          THEN "declClose" ELSE rule[4],
              level |-> deep, role |-> rule[5]]
  BY DEF XmlTokenRole
<1>2. CASE tok = "PROLOG_S" /\ h # "prolog0"
  BY <1>1, <1>2, StaysPut
<1>3. CASE ~(tok = "PROLOG_S" /\ h # "prolog0") /\ fits = {}
  BY <1>1, <1>3, Stops
<1>4. CASE ~(tok = "PROLOG_S" /\ h # "prolog0") /\ fits # {}
  <2>1. rule \in Rules /\ rule[1] = h
    BY <1>4 DEF RulesOf
  <2>2. GroupRule(h, rule[4], rule[5]) /\ rule[4] \in Handlers
    BY <2>1, EveryRule, EveryNext
  <2>3. XmlTokenRole(h, level, tok, word) =
          [handler |-> IF h = "element7" /\ rule[5] = "GROUP_CLOSE" /\ deep = 0
                       THEN "declClose" ELSE rule[4],
           level |-> deep, role |-> rule[5]]
    BY <1>1, <1>4
  <2>4. Moves(h, level,
              IF h = "element7" /\ rule[5] = "GROUP_CLOSE" /\ deep = 0 THEN "declClose" ELSE rule[4],
              deep, rule[5])
    <3> HIDE DEF rule
    <3> QED BY <2>2, RuleMoves
  <2>5. QED BY <2>3, <2>4
<1>5. QED BY <1>2, <1>3, <1>4

-----------------------------------------------------------------------------
\* The switch over the role

Fields == {"handler", "level", "connector", "external", "complete", "standalone", "err", "ents",
           "atts", "declE", "declT", "declA", "isCdata"}

\* The prolog state is a record with these fields.
IsState(s) == s = [f \in Fields |-> s[f]]

\* The place in the content model and the array of connectors are left alone.
Keeps(s, e) ==
  IsState(e) /\ e.handler = s.handler /\ e.level = s.level /\ e.connector = s.connector

LEMMA SetField ==
  ASSUME NEW s, IsState(s), NEW f \in Fields \ {"handler", "level", "connector"}, NEW v
  PROVE  Keeps(s, [s EXCEPT ![f] = v])
  BY DEF IsState, Keeps, Fields

LEMMA KeepsTwice ==
  ASSUME NEW s, NEW e, NEW g, Keeps(s, e), Keeps(e, g)
  PROVE  Keeps(s, g)
  BY DEF Keeps

LEMMA KeepsItself == ASSUME NEW s, IsState(s) PROVE Keeps(s, s)
  BY DEF Keeps

LEMMA FillKeeps ==
  ASSUME NEW s, IsState(s), NEW field, NEW value
  PROVE  Keeps(s, FillEntity(s, field, value))
<1>1. \E v : [s EXCEPT !.ents[s.declE][field] = value] = [s EXCEPT !["ents"] = v]
  OBVIOUS
<1>2. QED BY <1>1, SetField, KeepsItself DEF FillEntity, Fields

LEMMA CheckedKeeps ==
  ASSUME NEW s, IsState(s), NEW value, NEW done, Keeps(s, done)
  PROVE  Keeps(s, Checked(s, value, done))
<1>1. Keeps(s, [s EXCEPT !["err"] = value.err])
  BY SetField DEF Fields
<1>2. QED BY <1>1 DEF Checked

LEMMA DefineKeeps ==
  ASSUME NEW s, IsState(s), NEW value
  PROVE  Keeps(s, DefineAttribute(s, value))
<1>1. \E v : [s EXCEPT !.atts[s.declT] =
                 Append(@, [id |-> s.declA, cdata |-> s.isCdata, value |-> value])]
              = [s EXCEPT !["atts"] = v]
  OBVIOUS
<1>2. QED BY <1>1, SetField, KeepsItself DEF DefineAttribute, Fields

LEMMA NameKeeps ==
  ASSUME NEW s, IsState(s), NEW name
  PROVE  Keeps(s, NameElementType(s, name)) /\ Keeps(s, NameEntity(s, name))
<1>1. ASSUME NEW f \in Fields \ {"handler", "level", "connector"}, NEW v,
             NEW g \in Fields \ {"handler", "level", "connector"}, NEW w
      PROVE  Keeps(s, [[s EXCEPT ![f] = v] EXCEPT ![g] = w])
  <2>1. Keeps(s, [s EXCEPT ![f] = v])
    BY SetField
  <2>2. Keeps([s EXCEPT ![f] = v], [[s EXCEPT ![f] = v] EXCEPT ![g] = w])
    BY <2>1, SetField DEF Keeps
  <2>3. QED BY <2>1, <2>2, KeepsTwice
<1>2. Keeps(s, NameElementType(s, name))
  <2>1. \E w : NameElementType(s, name)
                 = [[s EXCEPT !["declT"] = name] EXCEPT !["atts"] = w]
    BY DEF NameElementType
  <2>2. \A w : Keeps(s, [[s EXCEPT !["declT"] = name] EXCEPT !["atts"] = w])
    BY <1>1 DEF Fields
  <2>3. QED BY <2>1, <2>2
<1>3. Keeps(s, NameEntity(s, name))
  <2>1. Keeps(s, [s EXCEPT !["declE"] = None])
    BY SetField DEF Fields
  <2>2. \A w : Keeps(s, [[s EXCEPT !["declE"] = name] EXCEPT !["ents"] = w])
    BY <1>1 DEF Fields
  <2>3. \/ NameEntity(s, name) = [s EXCEPT !["declE"] = None]
        \/ \E w : NameEntity(s, name) = [[s EXCEPT !["declE"] = name] EXCEPT !["ents"] = w]
    BY DEF NameEntity
  <2>4. QED BY <2>1, <2>2, <2>3
<1>4. QED BY <1>2, <1>3

LEMMA ActKeeps ==
  ASSUME NEW s, IsState(s), NEW role, role \notin Connecting \cup {"GROUP_OPEN"}, NEW t
  PROVE  Keeps(s, Act(s, role, t))
<1>0. \A f \in Fields \ {"handler", "level", "connector"} : \A v : Keeps(s, [s EXCEPT ![f] = v])
  BY SetField
<1>1. CASE role \in {"XML_DECL", "DOCTYPE_SYSTEM_ID", "INSTANCE_START"}
  <2>1. /\ \A v : Keeps(s, [s EXCEPT !["standalone"] = v])
        /\ \A v : Keeps(s, [s EXCEPT !["external"] = v])
        /\ \A v : Keeps(s, [s EXCEPT !["complete"] = v])
    BY <1>0 DEF Fields
  <2>2. QED BY <1>1, <2>1 DEF Act
<1>2. CASE role \in {"DOCTYPE_PUBLIC_ID", "ENTITY_PUBLIC_ID", "NOTATION_PUBLIC_ID"}
  <2>1. Act(s, role, t) =
          Checked(s, PublicId(t.lit), IF role = "NOTATION_PUBLIC_ID" THEN s
                                      ELSE FillEntity(s, "public", PublicId(t.lit).text))
    BY <1>2 DEF Act
  <2>2. QED BY <2>1, FillKeeps, KeepsItself, CheckedKeeps
<1>3. CASE role = "ATTLIST_ELEMENT_NAME"
  BY <1>3, NameKeeps DEF Act
<1>4. CASE role \in {"IMPLIED_ATTRIBUTE_VALUE", "REQUIRED_ATTRIBUTE_VALUE"}
  BY <1>4, DefineKeeps DEF Act
<1>5. CASE role \in {"DEFAULT_ATTRIBUTE_VALUE", "FIXED_ATTRIBUTE_VALUE"}
  <2>1. Act(s, role, t) = Checked(s, AttValue(s, s.isCdata, t.lit),
                                  DefineAttribute(s, AttValue(s, s.isCdata, t.lit).text))
    BY <1>5 DEF Act
  <2>2. QED BY <2>1, DefineKeeps, CheckedKeeps
<1>6. CASE role = "ENTITY_VALUE"
  <2>1. Act(s, role, t)
          = Checked(s, EntValue(t.lit), FillEntity(s, "text", EntValue(t.lit).text))
    BY <1>6 DEF Act
  <2>2. QED BY <2>1, FillKeeps, CheckedKeeps
<1>7. CASE role \in {"ENTITY_SYSTEM_ID", "ENTITY_NOTATION_NAME"}
  BY <1>7, FillKeeps DEF Act
<1>8. CASE role = "GENERAL_ENTITY_NAME"
  BY <1>8, NameKeeps DEF Act
<1>9. CASE role \in {"ATTRIBUTE_TYPE_CDATA", "PARAM_ENTITY_NAME", "ERROR", "PARAM_ENTITY_REF"}
  <2>1. /\ \A v : Keeps(s, [s EXCEPT !["isCdata"] = v])
        /\ \A v : Keeps(s, [s EXCEPT !["declE"] = v])
        /\ \A v : Keeps(s, [s EXCEPT !["err"] = v])
        /\ \A v : Keeps(s, [s EXCEPT !["complete"] = v])
    BY <1>0 DEF Fields
  <2>2. QED BY <1>9, <2>1 DEF Act, NameParamEntity
<1>10. CASE role = "ATTRIBUTE_NAME"
  <2> DEFINE e == [s EXCEPT !["declA"] = t.word]
  <2>1. Keeps(s, e) /\ IsState(e)
    BY <1>0 DEF Fields, Keeps
  <2>2. Act(s, role, t) = [e EXCEPT !["isCdata"] = FALSE]
    BY <1>10 DEF Act
  <2> HIDE DEF e
  <2>3. Keeps(e, [e EXCEPT !["isCdata"] = FALSE])
    BY <2>1, SetField DEF Fields
  <2>4. QED BY <2>1, <2>2, <2>3, KeepsTwice
<1>11. CASE role \notin {"XML_DECL", "DOCTYPE_SYSTEM_ID", "INSTANCE_START", "DOCTYPE_PUBLIC_ID",
                         "ENTITY_PUBLIC_ID", "NOTATION_PUBLIC_ID", "ATTLIST_ELEMENT_NAME",
                         "IMPLIED_ATTRIBUTE_VALUE", "REQUIRED_ATTRIBUTE_VALUE",
                         "DEFAULT_ATTRIBUTE_VALUE", "FIXED_ATTRIBUTE_VALUE", "ENTITY_VALUE",
                         "ENTITY_SYSTEM_ID", "ENTITY_NOTATION_NAME", "GENERAL_ENTITY_NAME",
                         "ATTRIBUTE_TYPE_CDATA", "PARAM_ENTITY_NAME", "ERROR", "PARAM_ENTITY_REF",
                         "ATTRIBUTE_NAME"}
  <2>1. Act(s, role, t) = s
    BY <1>11 DEF Act, Connecting
  <2>2. QED BY <2>1, KeepsItself
<1>12. QED BY <1>1, <1>2, <1>3, <1>4, <1>5, <1>6, <1>7, <1>8, <1>9, <1>10, <1>11

-----------------------------------------------------------------------------
\* The array of connectors as a stack

\* The two connectors a group may use, and the cell of a group that used none.
Joiners == {",", "|"}
Connectors == {"none", ",", "|"}

\* The connectors at 1 .. n, the last first.
Stack(c, n) == [i \in 1..n |-> c[n + 1 - i]]

LEMMA StackSeq ==
  ASSUME NEW c, NEW n \in Nat, \A i \in 1..n : c[i] \in Connectors
  PROVE  /\ Stack(c, n) \in Seq(Connectors) /\ Len(Stack(c, n)) = n
         /\ \A i \in 1..n : Stack(c, n)[i] = c[n + 1 - i]
<1>1. \A i \in 1..n : c[n + 1 - i] \in Connectors
  OBVIOUS
<1>2. QED BY <1>1 DEF Stack

LEMMA StackPush ==
  ASSUME NEW c, NEW e, NEW n \in Nat, \A i \in 1..n : c[i] \in Connectors /\ e[i] = c[i],
         e[n + 1] \in Connectors
  PROVE  Stack(e, n + 1) = <<e[n + 1]>> \o Stack(c, n)
<1>1. /\ Stack(c, n) \in Seq(Connectors) /\ Len(Stack(c, n)) = n
      /\ \A i \in 1..n : Stack(c, n)[i] = c[n + 1 - i]
  BY StackSeq
<1>2. \A i \in 1..(n + 1) : e[i] \in Connectors
  OBVIOUS
<1>3. /\ Stack(e, n + 1) \in Seq(Connectors) /\ Len(Stack(e, n + 1)) = n + 1
      /\ \A i \in 1..(n + 1) : Stack(e, n + 1)[i] = e[n + 2 - i]
  BY <1>2, StackSeq
<1> DEFINE top == <<e[n + 1]>>
<1>4. top \in Seq(Connectors) /\ Len(top) = 1 /\ top[1] = e[n + 1]
  OBVIOUS
<1> HIDE DEF top
<1> DEFINE base == Stack(c, n)
           all == Stack(e, n + 1)
<1> HIDE DEF base, all
<1>5. /\ top \o base \in Seq(Connectors) /\ Len(top \o base) = n + 1
      /\ \A i \in 1..(n + 1) : (top \o base)[i] = IF i <= 1 THEN top[i] ELSE base[i - 1]
  <2>1. base \in Seq(Connectors) /\ Len(base) = n
    BY <1>1 DEF base
  <2>2. Len(top) + Len(base) = n + 1
    BY <1>4, <2>1
  <2>3. /\ top \o base \in Seq(Connectors) /\ Len(top \o base) = Len(top) + Len(base)
        /\ \A i \in 1..(Len(top) + Len(base)) :
             (top \o base)[i] = IF i <= Len(top) THEN top[i] ELSE base[i - Len(top)]
    BY ONLY <1>4, <2>1, ConcatProperties
  <2>4. QED BY <1>4, <2>2, <2>3
<1>6. ASSUME NEW i \in 1..(n + 1) PROVE all[i] = (top \o base)[i]
  <2>1. all[i] = e[n + 2 - i]
    BY <1>3 DEF all
  <2>2. ASSUME i = 1 PROVE all[i] = (top \o base)[i]
    <3>1. (top \o base)[i] = top[1]
      BY <1>5, <2>2
    <3>2. n + 2 - i = n + 1
      BY <2>2
    <3>3. QED BY <1>4, <2>1, <3>1, <3>2
  <2>3. ASSUME i # 1 PROVE all[i] = (top \o base)[i]
    <3>1. i - 1 \in 1..n /\ n + 2 - i \in 1..n /\ n + 1 - (i - 1) = n + 2 - i /\ ~(i <= 1)
      BY <2>3
    <3>2. base[i - 1] = c[n + 2 - i] /\ e[n + 2 - i] = c[n + 2 - i]
      BY <1>1, <3>1 DEF base
    <3>3. (top \o base)[i] = base[i - 1]
      BY <1>5, <3>1
    <3>4. QED BY <2>1, <3>2, <3>3
  <2>4. QED BY <2>2, <2>3
<1>7. all \in Seq(Connectors) /\ Len(all) = n + 1
  BY <1>3 DEF all
<1>8. all = top \o base
  BY <1>5, <1>6, <1>7, SeqEqual
<1>9. QED BY <1>8 DEF top, base, all

LEMMA StackPop ==
  ASSUME NEW c, NEW n \in Nat, n > 0, \A i \in 1..n : c[i] \in Connectors
  PROVE  /\ Stack(c, n) # <<>> /\ Head(Stack(c, n)) = c[n]
         /\ Tail(Stack(c, n)) = Stack(c, n - 1)
<1>1. /\ Stack(c, n) \in Seq(Connectors) /\ Len(Stack(c, n)) = n
      /\ \A i \in 1..n : Stack(c, n)[i] = c[n + 1 - i]
  BY StackSeq
<1>2. /\ Stack(c, n - 1) \in Seq(Connectors) /\ Len(Stack(c, n - 1)) = n - 1
      /\ \A i \in 1..(n - 1) : Stack(c, n - 1)[i] = c[n - i]
  BY StackSeq
<1> HIDE DEF Stack
<1>3. Stack(c, n) # <<>> /\ Head(Stack(c, n)) = c[n]
  BY <1>1
<1>4. /\ Tail(Stack(c, n)) \in Seq(Connectors) /\ Len(Tail(Stack(c, n))) = n - 1
      /\ \A i \in 1..(n - 1) : Tail(Stack(c, n))[i] = Stack(c, n)[i + 1]
  BY <1>1, <1>3
<1>5. \A i \in 1..(n - 1) : Tail(Stack(c, n))[i] = Stack(c, n - 1)[i]
  <2> TAKE i \in 1..(n - 1)
  <2>1. i + 1 \in 1..n /\ n + 1 - (i + 1) = n - i
    OBVIOUS
  <2>2. QED BY <1>1, <1>2, <1>4, <2>1
<1>6. Tail(Stack(c, n)) = Stack(c, n - 1)
  BY <1>2, <1>4, <1>5, SeqEqual
<1>7. QED BY <1>3, <1>6

\* The array c has n cells, numbered from 0.
Cells(c, n) == n \in Nat \ {1} /\ c = [i \in 0..(n - 1) |-> c[i]]

LEMMA Grows ==
  ASSUME NEW c, NEW n, Cells(c, n), NEW level \in Nat \ {0}, level <= n \/ level = 1
  PROVE  \E m : /\ Cells(GrowConnector(c, level), m) /\ level < m /\ n <= m
                /\ \A i \in 0..(n - 1) : GrowConnector(c, level)[i] = c[i]
<1>1. n \in Nat \ {1} /\ DOMAIN c = 0..(n - 1)
  BY DEF Cells
<1>2. Cardinality(DOMAIN c) = n
  BY <1>1, FS_Interval
<1> DEFINE more == IF n = 0 THEN Group0 ELSE 2 * n
           grown == [i \in 0..(more - 1) |-> IF i < n THEN c[i] ELSE "junk"]
<1>3. GrowConnector(c, level) = IF level < n THEN c ELSE grown
  BY <1>2 DEF GrowConnector
<1>5. CASE level < n
  BY <1>1, <1>3, <1>5
<1>6. CASE ~(level < n)
  <2>1. more \in Nat \ {1} /\ n <= more /\ level < more
    BY <1>1, <1>6, GroupAssumption
  <2> HIDE DEF more
  <2>2. Cells(grown, more) /\ \A i \in 0..(n - 1) : grown[i] = c[i]
    BY <1>1, <2>1 DEF Cells
  <2>3. GrowConnector(c, level) = grown
    BY <1>3, <1>6
  <2> HIDE DEF grown
  <2>4. QED BY <2>1, <2>2, <2>3
<1>7. QED BY <1>5, <1>6

LEMMA OpenGroupIs ==
  ASSUME NEW s, IsState(s), NEW n, Cells(s.connector, n), s.level \in Nat \ {0},
         s.level <= n \/ s.level = 1
  PROVE  /\ IsState(OpenGroup(s)) /\ OpenGroup(s).handler = s.handler
         /\ OpenGroup(s).level = s.level
         /\ \E m : Cells(OpenGroup(s).connector, m) /\ s.level < m
         /\ OpenGroup(s).connector[s.level] = "none"
         /\ \A i \in 0..(n - 1) : i # s.level => OpenGroup(s).connector[i] = s.connector[i]
<1> DEFINE k == s.level
           grown == GrowConnector(s.connector, k)
           marked == [grown EXCEPT ![k] = "none"]
<1>1. PICK m : Cells(grown, m) /\ k < m /\ n <= m /\ \A i \in 0..(n - 1) : grown[i] = s.connector[i]
  BY Grows
<1>2. OpenGroup(s) = [s EXCEPT !.connector = marked]
  BY DEF OpenGroup
<1> HIDE DEF grown
<1>3. k \in 0..(m - 1) /\ 0..(n - 1) \subseteq 0..(m - 1)
  BY <1>1 DEF Cells
<1>4. /\ Cells(marked, m) /\ marked[k] = "none"
      /\ \A i \in 0..(n - 1) : i # k => marked[i] = s.connector[i]
  BY <1>1, <1>3 DEF Cells
<1> HIDE DEF marked
<1>5. /\ IsState(OpenGroup(s)) /\ OpenGroup(s).handler = s.handler
      /\ OpenGroup(s).level = s.level /\ OpenGroup(s).connector = marked
  BY <1>2 DEF IsState, Fields
<1>6. QED BY <1>1, <1>4, <1>5

LEMMA ConnectIs ==
  ASSUME NEW s, IsState(s), NEW n, Cells(s.connector, n), s.level \in 1..(n - 1),
         NEW mine, NEW other
  PROVE  LET e == Connect(s, mine, other) IN
         /\ IsState(e) /\ e.handler = s.handler /\ e.level = s.level /\ Cells(e.connector, n)
         /\ \/ e.connector = s.connector
            \/ /\ s.connector[s.level] # other /\ e.connector[s.level] = mine
               /\ \A i \in 1..(s.level - 1) : e.connector[i] = s.connector[i]
<1> DEFINE k == s.level
           e == Connect(s, mine, other)
           joined == [s.connector EXCEPT ![k] = mine]
<1>1. CASE s.connector[k] = other
  <2>1. e = [s EXCEPT !["err"] = "SYNTAX"]
    BY <1>1 DEF Connect
  <2>2. \A v : Keeps(s, [s EXCEPT !["err"] = v])
    BY SetField DEF Fields
  <2>3. Keeps(s, e)
    BY <2>1, <2>2
  <2>4. QED BY <2>3 DEF Keeps
<1>2. CASE s.connector[k] # other
  <2>1. e = [s EXCEPT !.connector = joined]
    BY <1>2 DEF Connect
  <2>2. /\ Cells(joined, n) /\ joined[k] = mine
        /\ \A i \in 1..(k - 1) : joined[i] = s.connector[i]
    <3>1. /\ n \in Nat \ {1} /\ s.connector = [i \in 0..(n - 1) |-> s.connector[i]]
          /\ k \in 0..(n - 1) /\ 1..(k - 1) \subseteq 0..(n - 1) \ {k}
      BY DEF Cells
    <3>2. DOMAIN joined = 0..(n - 1) /\ joined = [i \in 0..(n - 1) |-> joined[i]]
      BY <3>1
    <3>3. joined[k] = mine /\ \A i \in 0..(n - 1) \ {k} : joined[i] = s.connector[i]
      BY <3>1
    <3> HIDE DEF joined
    <3>4. QED BY <3>1, <3>2, <3>3 DEF Cells
  <2> HIDE DEF joined
  <2>3. IsState(e) /\ e.handler = s.handler /\ e.level = s.level /\ e.connector = joined
    BY <2>1 DEF IsState, Fields
  <2>4. QED BY <1>2, <2>2, <2>3
<1>3. QED BY <1>1, <1>2

-----------------------------------------------------------------------------
\* The invariant

\* In a content model the array has a cell above the one of the innermost group
\* (cell 0 is not used) and a connector, or none yet, for each open group.
GoodCells(s, n) ==
  /\ Cells(s.connector, n)
  /\ s.handler \in InGroup => /\ s.level \in 1..(n - 1)
                              /\ \A i \in 1..s.level : s.connector[i] \in Connectors

GoodState(s) ==
  /\ IsState(s) /\ s.handler \in Handlers /\ s.level \in Nat
  /\ \E n : GoodCells(s, n)
  /\ s.handler = "element2" => s.level = 1

GroupInv == GoodState(d)

Groups(s) == IF s.handler \in InGroup THEN Stack(s.connector, s.level) ELSE <<>>

\* From the stack g to the stack h by a step of ContentModel, or none.
StackStep(g, h) ==
  \/ h = g
  \/ h = <<>>
  \/ h = <<"none">> \o g
  \/ g # <<>> /\ h = Tail(g)
  \/ \E c \in Joiners : g # <<>> /\ Head(g) \in {"none", c} /\ h = <<c>> \o Tail(g)

LEMMA ActIs ==
  ASSUME NEW s, GoodState(s), s.handler # "error", NEW t
  PROVE  \E e, role :
           /\ PrologStep(s, t) = Act(e, role, t)
           /\ IsState(e) /\ e.connector = s.connector
           /\ Moves(s.handler, s.level, e.handler, e.level, role)
<1>1. PICK next, deep, role :
        /\ XmlTokenRole(s.handler, s.level, t.tok, t.word)
             = [handler |-> next, level |-> deep, role |-> role]
        /\ Moves(s.handler, s.level, next, deep, role)
  BY TokenMoves DEF GoodState
<1> DEFINE e == [s EXCEPT !.handler = next, !.level = deep]
<1>2. PrologStep(s, t) = Act(e, role, t)
  BY <1>1 DEF PrologStep
<1>3. IsState(e) /\ e.connector = s.connector /\ e.handler = next /\ e.level = deep
  BY DEF GoodState, IsState, Fields
<1> HIDE DEF e
<1>4. QED BY <1>1, <1>2, <1>3

LEMMA StackSame == ASSUME NEW g PROVE StackStep(g, g)
  BY DEF StackStep

LEMMA StackLeaves == ASSUME NEW g PROVE StackStep(g, <<>>)
  BY DEF StackStep

LEMMA StackOpens == ASSUME NEW g PROVE StackStep(g, <<"none">> \o g)
  BY DEF StackStep

LEMMA StackCloses == ASSUME NEW g, g # <<>> PROVE StackStep(g, Tail(g))
  BY DEF StackStep

LEMMA StackJoins ==
  ASSUME NEW g, NEW c \in Joiners, g # <<>>, Head(g) \in {"none", c}
  PROVE  StackStep(g, <<c>> \o Tail(g))
  BY DEF StackStep

\* One round of prologProcessor: the invariant holds, and the stack of open
\* groups moves as ContentModel says.
LEMMA StepGood ==
  ASSUME NEW s, GoodState(s), s.handler # "error", NEW t
  PROVE  GoodState(PrologStep(s, t)) /\ StackStep(Groups(s), Groups(PrologStep(s, t)))
<1> DEFINE x == PrologStep(s, t)
<1> SUFFICES GoodState(x) /\ StackStep(Groups(s), Groups(x))
  OBVIOUS
<1>1. PICK e, role : /\ x = Act(e, role, t)
                     /\ IsState(e) /\ e.connector = s.connector
                     /\ Moves(s.handler, s.level, e.handler, e.level, role)
  BY ActIs
<1>2. PICK n : GoodCells(s, n)
  BY DEF GoodState
<1>3. n \in Nat \ {1} /\ s.level \in Nat /\ Cells(e.connector, n) /\ e.handler \in Handlers
  BY <1>1, <1>2 DEF GoodState, GoodCells, Cells, Moves
<1> HIDE DEF x
\* Outside of the groups the stack is empty.
<1>4. ASSUME NEW m, IsState(x), x.handler = e.handler, x.level = e.level, x.level \in Nat,
             Cells(x.connector, m), x.handler \notin InGroup
      PROVE  GoodState(x) /\ StackStep(Groups(s), Groups(x))
  <2>1. GoodCells(x, m)
    BY <1>4 DEF GoodCells
  <2>2. GoodState(x)
    BY <1>3, <1>4, <2>1 DEF GoodState, InGroup
  <2>3. Groups(x) = <<>>
    BY <1>4 DEF Groups
  <2>4. QED BY <2>2, <2>3, StackLeaves
<1>5. CASE role = "GROUP_OPEN"
  <2>1. x = OpenGroup(e)
    BY <1>1, <1>5 DEF Act
  <2>2. \/ s.handler = "element1" /\ e.handler = "element2" /\ e.level = 1
        \/ /\ s.handler \in {"element2", "element6"} /\ e.handler = "element6"
           /\ e.level = s.level + 1
    BY <1>1, <1>5 DEF Moves, GoodState
  <2>3. e.level \in Nat \ {0} /\ (e.level <= n \/ e.level = 1) /\ e.handler \in InGroup
    BY <1>2, <1>3, <2>2 DEF GoodCells, InGroup
  <2>4. /\ IsState(x) /\ x.handler = e.handler /\ x.level = e.level
        /\ \E m : Cells(x.connector, m) /\ e.level < m
        /\ x.connector[e.level] = "none"
        /\ \A i \in 0..(n - 1) : i # e.level => x.connector[i] = s.connector[i]
    BY <1>1, <1>3, <2>1, <2>3, OpenGroupIs
  <2>5. PICK m : Cells(x.connector, m) /\ e.level < m
    BY <2>4
  <2>6. \A i \in 1..(e.level - 1) : s.connector[i] \in Connectors /\ x.connector[i] = s.connector[i]
    BY <1>2, <1>3, <2>2, <2>3, <2>4 DEF GoodCells, InGroup
  <2>7. \A i \in 1..e.level : x.connector[i] \in Connectors
    <3> TAKE i \in 1..e.level
    <3>1. i = e.level \/ i \in 1..(e.level - 1)
      BY <2>3
    <3>2. x.connector[e.level] \in Connectors
      BY <2>4 DEF Connectors
    <3>3. QED BY <2>6, <3>1, <3>2
  <2>8. GoodCells(x, m)
    <3>1. m \in Nat /\ e.level \in 1..(m - 1)
      BY <2>3, <2>5 DEF Cells
    <3>2. QED BY <2>4, <2>5, <2>7, <3>1 DEF GoodCells
  <2>9. GoodState(x)
    BY <1>3, <2>2, <2>3, <2>4, <2>8 DEF GoodState
  <2>10. Groups(x) = <<"none">> \o Groups(s)
    <3>1. Groups(s) = Stack(s.connector, e.level - 1)
      <4>1. CASE s.handler = "element1"
        <5>1. Groups(s) = <<>> /\ e.level - 1 = 0
          BY <2>2, <4>1 DEF Groups, InGroup
        <5>2. Stack(s.connector, 0) = <<>>
          BY DEF Stack
        <5>3. QED BY <5>1, <5>2
      <4>2. CASE s.handler \in {"element2", "element6"}
        BY <1>3, <2>2, <4>2 DEF Groups, InGroup
      <4>3. QED BY <2>2, <4>1, <4>2
    <3>2. Groups(x) = Stack(x.connector, e.level)
      BY <2>3, <2>4 DEF Groups
    <3> DEFINE k == e.level - 1
    <3>3. k \in Nat /\ k + 1 = e.level /\ x.connector[k + 1] = "none"
      BY <2>3, <2>4
    <3>4. "none" \in Connectors
      BY DEF Connectors
    <3>5. Stack(x.connector, k + 1) = <<x.connector[k + 1]>> \o Stack(s.connector, k)
      BY <2>6, <3>3, <3>4, StackPush
    <3>6. QED BY <3>1, <3>2, <3>3, <3>5
  <2>11. QED BY <2>9, <2>10, StackOpens
<1>6. CASE role \in Connecting
  <2>1. PICK mine \in Joiners, other \in Joiners : mine # other /\ x = Connect(e, mine, other)
    BY <1>1, <1>6 DEF Act, Connecting, Joiners
  <2>2. s.handler = "element7" /\ e.handler = "element6" /\ e.level = s.level
    BY <1>1, <1>6 DEF Moves
  <2>3. e.level \in 1..(n - 1) /\ \A i \in 1..e.level : s.connector[i] \in Connectors
    BY <1>2, <2>2 DEF GoodCells, InGroup
  <2>4. /\ IsState(x) /\ x.handler = e.handler /\ x.level = e.level /\ Cells(x.connector, n)
        /\ \/ x.connector = e.connector
           \/ /\ e.connector[e.level] # other /\ x.connector[e.level] = mine
              /\ \A i \in 1..(e.level - 1) : x.connector[i] = e.connector[i]
    <3>1. IsState(e) /\ Cells(e.connector, n) /\ e.level \in 1..(n - 1)
      BY <1>1, <1>3, <2>3
    <3>2. QED BY <2>1, <3>1, ConnectIs
  <2>5. \A i \in 1..e.level : x.connector[i] \in Connectors
    <3> TAKE i \in 1..e.level
    <3>1. i = e.level \/ i \in 1..(e.level - 1)
      BY <1>3, <2>3
    <3>2. s.connector[i] \in Connectors /\ mine \in Connectors
      BY <2>1, <2>3 DEF Connectors, Joiners
    <3>3. QED BY <1>1, <2>4, <3>1, <3>2
  <2>6. GoodCells(x, n)
    BY <2>3, <2>4, <2>5 DEF GoodCells
  <2>7. GoodState(x)
    BY <1>3, <2>2, <2>4, <2>6 DEF GoodState
  <2>8. Groups(s) = Stack(s.connector, e.level) /\ Groups(x) = Stack(x.connector, e.level)
    BY <2>2, <2>4 DEF Groups, InGroup
  <2>9. CASE x.connector = e.connector
    <3>1. Groups(x) = Groups(s)
      BY <1>1, <2>8, <2>9
    <3>2. QED BY <2>7, <3>1, StackSame
  <2>10. CASE x.connector # e.connector
    <3> DEFINE k == e.level - 1
    <3>1. k \in Nat /\ k + 1 = e.level
      BY <1>3, <2>3
    <3>2. \A i \in 1..k : s.connector[i] \in Connectors /\ x.connector[i] = s.connector[i]
      <4>1. 1..k \subseteq 1..e.level
        BY <1>3, <2>3
      <4>2. \A i \in 1..k : x.connector[i] = s.connector[i]
        BY <1>1, <2>4, <2>10
      <4>3. QED BY <2>3, <4>1, <4>2
    <3>3. x.connector[k + 1] = mine /\ mine \in Connectors
      BY <2>1, <2>4, <2>10, <3>1 DEF Connectors, Joiners
    <3>4. Groups(x) = <<mine>> \o Stack(s.connector, k)
      BY <2>8, <3>1, <3>2, <3>3, StackPush
    <3>5. /\ Groups(s) # <<>> /\ Head(Groups(s)) = s.connector[e.level]
          /\ Tail(Groups(s)) = Stack(s.connector, k)
      <4>1. e.level \in Nat /\ e.level > 0
        BY <1>3, <2>3
      <4>2. QED BY <2>3, <2>8, <4>1, StackPop
    <3>6. s.connector[e.level] \in {"none", mine}
      <4>1. s.connector[e.level] \in Connectors /\ s.connector[e.level] # other
        BY <1>1, <1>3, <2>3, <2>4, <2>10
      <4>2. QED BY <2>1, <4>1 DEF Connectors, Joiners
    <3> HIDE DEF k
    <3>7. StackStep(Groups(s), <<mine>> \o Tail(Groups(s)))
      BY <2>1, <3>5, <3>6, StackJoins
    <3>8. QED BY <2>7, <3>4, <3>5, <3>7
  <2>11. QED BY <2>9, <2>10
<1>7. CASE role \notin Connecting \cup {"GROUP_OPEN"}
  <2>1. IsState(x) /\ x.handler = e.handler /\ x.level = e.level /\ x.connector = s.connector
    BY <1>1, <1>7, ActKeeps DEF Keeps
  <2>2. CASE role = "GROUP_CLOSE"
    <3>1. \/ /\ s.handler = "element7" /\ e.level = s.level - 1
             /\ e.handler = IF e.level = 0 THEN "declClose" ELSE "element7"
          \/ e.handler = "declClose" /\ e.level = s.level
      BY <1>1, <2>2 DEF Moves
    <3>2. CASE e.handler = "declClose"
      <4>1. e.level \in Nat /\ x.handler \notin InGroup
        BY <1>2, <1>3, <2>1, <3>1, <3>2 DEF GoodCells, InGroup
      <4>2. Cells(x.connector, n) /\ x.level \in Nat
        BY <1>1, <1>3, <2>1, <4>1
      <4>3. QED BY <1>4, <2>1, <4>1, <4>2
    <3>3. CASE e.handler # "declClose"
      <4>1. /\ s.handler = "element7" /\ e.handler = "element7"
            /\ e.level = s.level - 1 /\ e.level # 0
        BY <3>1, <3>3
      <4>2. s.level \in 1..(n - 1) /\ \A i \in 1..s.level : s.connector[i] \in Connectors
        BY <1>2, <4>1 DEF GoodCells, InGroup
      <4>3. GoodCells(x, n)
        BY <1>1, <1>3, <2>1, <4>1, <4>2 DEF GoodCells
      <4>4. GoodState(x)
        BY <1>3, <2>1, <4>1, <4>2, <4>3 DEF GoodState
      <4>5. Groups(s) = Stack(s.connector, s.level) /\ Groups(x) = Stack(s.connector, s.level - 1)
        BY <2>1, <4>1 DEF Groups, InGroup
      <4>6. Groups(s) # <<>> /\ Groups(x) = Tail(Groups(s))
        BY <1>3, <4>2, <4>5, StackPop
      <4>7. QED BY <4>4, <4>6, StackCloses
    <3>4. QED BY <3>2, <3>3
  <2>3. CASE role # "GROUP_CLOSE"
    <3>1. /\ e.level = s.level
          /\ e.handler \in InGroup => \/ e.handler = s.handler
                                      \/ s.handler \in {"element2", "element6"} /\ e.handler = "element7"
      BY <1>1, <1>7, <2>3 DEF Moves, GroupRoles
    <3>2. CASE e.handler \notin InGroup
      <4>1. Cells(x.connector, n) /\ x.level \in Nat /\ x.handler \notin InGroup
        BY <1>1, <1>3, <2>1, <3>1, <3>2
      <4>2. QED BY <1>4, <2>1, <4>1
    <3>3. CASE e.handler \in InGroup
      <4>1. s.handler \in InGroup /\ (e.handler = "element2" => s.handler = "element2")
        BY <3>1, <3>3 DEF InGroup
      <4>2. GoodCells(x, n)
        BY <1>1, <1>2, <1>3, <2>1, <3>1, <4>1 DEF GoodCells
      <4>3. GoodState(x)
        BY <1>3, <2>1, <3>1, <4>1, <4>2 DEF GoodState
      <4>4. Groups(x) = Groups(s)
        BY <2>1, <3>1, <3>3, <4>1 DEF Groups
      <4>5. QED BY <4>3, <4>4, StackSame
    <3>4. QED BY <3>2, <3>3
  <2>4. QED BY <2>2, <2>3
<1>8. QED BY <1>5, <1>6, <1>7

-----------------------------------------------------------------------------
\* The theorems

LEMMA OpenGroupsAre == OpenGroups = Groups(d)
  BY DEF OpenGroups, Grouping, Groups, Stack, InGroup

LEMMA InitGood == Init => GroupInv /\ OpenGroups = <<>>
<1> SUFFICES ASSUME Init PROVE GroupInv /\ OpenGroups = <<>>
  OBVIOUS
<1>1. /\ IsState(d) /\ d.handler = "prolog0" /\ d.level = 0
      /\ d.connector = [i \in {} |-> "none"]
  BY DEF Init, PrologInit, IsState, Fields
<1>2. Cells(d.connector, 0)
  <2>1. 0..(0 - 1) = {}
    OBVIOUS
  <2>2. QED BY <1>1, <2>1 DEF Cells
<1>3. GroupInv
  BY <1>1, <1>2, PrologHandlers DEF GroupInv, GoodState, GoodCells, InGroup
<1>4. OpenGroups = <<>>
  BY <1>1 DEF OpenGroups, Grouping
<1>5. QED BY <1>3, <1>4

LEMMA StepInv ==
  ASSUME GroupInv, [Next]_vars
  PROVE  GroupInv' /\ StackStep(OpenGroups, OpenGroups')
<1>1. CASE Next
  <2>1. PICK t : d' = PrologStep(d, t) /\ d.handler # "error"
    BY <1>1 DEF Next, Read
  <2>2. GoodState(d') /\ StackStep(Groups(d), Groups(d'))
    BY <2>1, StepGood DEF GroupInv
  <2>3. OpenGroups' = Groups(d')
    BY DEF OpenGroups, Grouping, Groups, Stack, InGroup
  <2>4. QED BY <2>2, <2>3, OpenGroupsAre DEF GroupInv
<1>2. CASE UNCHANGED vars
  BY <1>2 DEF vars, GroupInv, OpenGroups, Grouping, StackStep
<1>3. QED BY <1>1, <1>2

\* The innermost open group always has a cell of the array, however deep the
\* groups of a content model are and however few cells the array starts with.
THEOREM CellsSuffice == Spec => []ConnectorInBounds
<1>1. GroupInv => ConnectorInBounds
  BY DEF GroupInv, GoodState, GoodCells, Cells, ConnectorInBounds, Grouping, InGroup
<1>2. QED BY InitGood, StepInv, <1>1, PTL DEF Spec

\* The array with its level implements the stack of groups: each group keeps the
\* one connector it uses, whatever the groups inside it do to the array.
THEOREM ArrayIsStack == Spec => GroupsImplemented
<1>1. Init => CM!Init
  BY InitGood DEF CM!Init
<1>2. GroupInv /\ [Next]_vars => [CM!Next]_OpenGroups
  BY StepInv DEF StackStep, Joiners, CM!Next, CM!Open, CM!Close, CM!Join, CM!Leave
<1>3. QED BY <1>1, <1>2, InitGood, StepInv, PTL DEF Spec, GroupsImplemented, CM!Spec

-----------------------------------------------------------------------------
\* The table of rules

ParamPlaces == {"entity7", "entity8", "entity9"}
EntityPlaces == {"entity0", "entity1", "entity2", "entity3", "entity4", "entity5", "entity6"}
                  \cup ParamPlaces
FillRoles == {"ENTITY_VALUE", "ENTITY_PUBLIC_ID", "ENTITY_SYSTEM_ID", "ENTITY_NOTATION_NAME"}
EntityRoles == FillRoles \cup {"GENERAL_ENTITY_NAME", "PARAM_ENTITY_NAME"}
StopRoles == {"ERROR", "INSTANCE_START"}
SubsetRoles == {"NONE", "PARAM_ENTITY_REF", "NOTATION_NO_SYSTEM_ID"}

\* The steps of a general entity declaration.
GeneralMoves(h, tok, word, next, role) ==
  \/ h = "entity2" /\ tok = "NAME" /\ word = "SYSTEM" /\ next = "entity4" /\ role = "NONE"
  \/ h = "entity2" /\ tok = "NAME" /\ word = "PUBLIC" /\ next = "entity3" /\ role = "NONE"
  \/ h = "entity2" /\ tok = "LITERAL" /\ next = "declClose" /\ role = "ENTITY_VALUE"
  \/ h = "entity3" /\ tok = "LITERAL" /\ next = "entity4" /\ role = "ENTITY_PUBLIC_ID"
  \/ h = "entity4" /\ tok = "LITERAL" /\ next = "entity5" /\ role = "ENTITY_SYSTEM_ID"
  \/ h = "entity5" /\ tok = "NAME" /\ next = "entity6" /\ role = "NONE"
  \/ h = "entity6" /\ tok = "NAME" /\ next = "declClose" /\ role = "ENTITY_NOTATION_NAME"

\* Its beginning, and the steps of a parameter entity declaration.
BeginMoves(h, tok, word, next, role) ==
  \/ h = "internalSubset" /\ tok = "DECL_OPEN" /\ word = "ENTITY" /\ next = "entity0" /\ role = "NONE"
  \/ h = "entity0" /\ tok = "PERCENT" /\ next = "entity1" /\ role = "NONE"
  \/ h = "entity0" /\ tok = "NAME" /\ next = "entity2" /\ role = "GENERAL_ENTITY_NAME"
  \/ h = "entity1" /\ tok = "NAME" /\ next = "entity7" /\ role = "PARAM_ENTITY_NAME"
  \/ /\ h \in ParamPlaces /\ tok \in {"NAME", "LITERAL"}
     /\ next \in {"entity8", "entity9", "declClose"} /\ role \in FillRoles \cup {"NONE"}

\* Any other step outside of the entity declarations.
OtherMoves(h, tok, word, next, role) ==
  /\ h \notin EntityPlaces \cup {"declClose", "error"}
  /\ next \notin EntityPlaces \cup {"error"}
  /\ role \notin EntityRoles \cup StopRoles
  /\ tok = "DECL_OPEN" => word # "ENTITY"
  /\ next = "internalSubset" => role \in SubsetRoles

EntityMoves(h, tok, word, next, role) ==
  \/ GeneralMoves(h, tok, word, next, role)
  \/ BeginMoves(h, tok, word, next, role)
  \/ OtherMoves(h, tok, word, next, role)
  \/ h \in {"entity5", "declClose"} /\ tok = "DECL_CLOSE" /\ next = "internalSubset" /\ role = "NONE"
  \/ next = "error" /\ role = "INSTANCE_START" /\ tok = "INSTANCE_START"

\* What a rule of the table does, for a token with the word it looks for.
MovesBy(r) ==
  \A word : r[3] \in {AnyWord, word} => EntityMoves(r[1], r[2], word, r[4], r[5])

LEMMA NoKeyword ==
  AnyWord \notin {"ENTITY", "ATTLIST", "ELEMENT", "NOTATION", "DOCTYPE", "SYSTEM", "PUBLIC"}
BY DEF AnyWord

LEMMA OtherRules ==
  ASSUME NEW r,
         r[1] \notin EntityPlaces \cup {"declClose", "error"},
         r[4] \notin EntityPlaces \cup {"error"},
         r[5] \notin EntityRoles \cup StopRoles,
         r[2] # "DECL_OPEN",
         r[4] = "internalSubset" => r[5] \in SubsetRoles
  PROVE  MovesBy(r)
BY DEF MovesBy, EntityMoves, OtherMoves

LEMMA PrologRulesMove == \A r \in PrologRules \cup DoctypeRules : MovesBy(r)
<1> DEFINE Ends == {<<h, "INSTANCE_START", AnyWord, "error", "INSTANCE_START">> :
                      h \in {"prolog0", "prolog1", "prolog2"}}
           Opens == {<<h, "DECL_OPEN", "DOCTYPE", "doctype0", "NONE">> : h \in {"prolog0", "prolog1"}}
<1>1. \A r \in Ends : MovesBy(r)
  BY DEF MovesBy, EntityMoves
<1>2. \A r \in Opens : MovesBy(r)
  BY NoKeyword DEF MovesBy, EntityMoves, OtherMoves, EntityPlaces, ParamPlaces, EntityRoles, FillRoles,
     StopRoles
<1>3. \A r \in PrologRules \ (Ends \cup Opens) : MovesBy(r)
  <2>1. \A r \in PrologRules \ (Ends \cup Opens) :
          /\ r[1] \notin EntityPlaces \cup {"declClose", "error"}
          /\ r[4] \notin EntityPlaces \cup {"error"}
          /\ r[5] \notin EntityRoles \cup StopRoles
          /\ r[2] # "DECL_OPEN"
          /\ r[4] # "internalSubset"
    BY DEF PrologRules, EntityPlaces, ParamPlaces, EntityRoles, FillRoles, StopRoles
  <2>2. QED BY <2>1, OtherRules
<1>4. \A r \in DoctypeRules : MovesBy(r)
  <2>1. \A r \in DoctypeRules :
          /\ r[1] \notin EntityPlaces \cup {"declClose", "error"}
          /\ r[4] \notin EntityPlaces \cup {"error"}
          /\ r[5] \notin EntityRoles \cup StopRoles
          /\ r[2] # "DECL_OPEN"
          /\ r[4] = "internalSubset" => r[5] \in SubsetRoles
    BY DEF DoctypeRules, EntityPlaces, ParamPlaces, EntityRoles, FillRoles, StopRoles, SubsetRoles
  <2>2. QED BY <2>1, OtherRules
<1>5. QED BY <1>1, <1>2, <1>3, <1>4

LEMMA SubsetRulesMove == \A r \in SubsetRules : MovesBy(r)
<1> DEFINE Opens == {<<"internalSubset", "DECL_OPEN", "ATTLIST", "attlist0", "NONE">>,
                     <<"internalSubset", "DECL_OPEN", "ELEMENT", "element0", "NONE">>,
                     <<"internalSubset", "DECL_OPEN", "NOTATION", "notation0", "NONE">>}
           Entity == <<"internalSubset", "DECL_OPEN", "ENTITY", "entity0", "NONE">>
<1>1. \A r \in Opens : MovesBy(r)
  BY NoKeyword DEF MovesBy, EntityMoves, OtherMoves, EntityPlaces, ParamPlaces, EntityRoles, FillRoles,
     StopRoles
<1>2. MovesBy(Entity)
  BY NoKeyword DEF MovesBy, EntityMoves, BeginMoves
<1>3. \A r \in SubsetRules \ (Opens \cup {Entity}) : MovesBy(r)
  <2>1. \A r \in SubsetRules \ (Opens \cup {Entity}) :
          /\ r[1] \notin EntityPlaces \cup {"declClose", "error"}
          /\ r[4] \notin EntityPlaces \cup {"error"}
          /\ r[5] \notin EntityRoles \cup StopRoles
          /\ r[2] # "DECL_OPEN"
          /\ r[4] = "internalSubset" => r[5] \in SubsetRoles
    BY DEF SubsetRules, EntityPlaces, ParamPlaces, EntityRoles, FillRoles, StopRoles, SubsetRoles
  <2>2. QED BY <2>1, OtherRules
<1>4. QED BY <1>1, <1>2, <1>3

LEMMA EntityRulesMove == \A r \in EntityRules \cup ParamEntityRules : MovesBy(r)
<1>1. \A r \in EntityRules : MovesBy(r)
  BY NoKeyword DEF EntityRules, MovesBy, EntityMoves, BeginMoves, GeneralMoves
<1>2. \A r \in ParamEntityRules : MovesBy(r)
  BY DEF ParamEntityRules, MovesBy, EntityMoves, BeginMoves, GeneralMoves, ParamPlaces, FillRoles
<1>3. QED BY <1>1, <1>2

LEMMA DeclRulesMove ==
  \A r \in NotationRules \cup AttlistRules \cup AttlistEndRules \cup ElementRules : MovesBy(r)
<1> DEFINE Other(r) == /\ r[1] \notin EntityPlaces \cup {"declClose", "error"}
                       /\ r[4] \notin EntityPlaces \cup {"error"}
                       /\ r[5] \notin EntityRoles \cup StopRoles
                       /\ r[2] # "DECL_OPEN"
                       /\ r[4] = "internalSubset" => r[5] \in SubsetRoles
<1>1. \A r \in NotationRules : Other(r)
  BY DEF NotationRules, EntityPlaces, ParamPlaces, EntityRoles, FillRoles, StopRoles, SubsetRoles
<1>2. \A r \in AttlistRules : Other(r)
  BY DEF AttlistRules, TokenizedTypes, EntityPlaces, ParamPlaces, EntityRoles, FillRoles, StopRoles,
     SubsetRoles
<1>3. \A r \in AttlistEndRules : Other(r)
  BY DEF AttlistEndRules, EntityPlaces, ParamPlaces, EntityRoles, FillRoles, StopRoles, SubsetRoles
<1>4. \A r \in ElementRules : Other(r)
  BY DEF ElementRules, ChildTokens, EntityPlaces, ParamPlaces, EntityRoles, FillRoles, StopRoles,
     SubsetRoles
<1>5. QED BY <1>1, <1>2, <1>3, <1>4, OtherRules

LEMMA GroupRulesMove == \A r \in GroupRules : MovesBy(r)
<1> DEFINE Close == <<"declClose", "DECL_CLOSE", AnyWord, "internalSubset", "NONE">>
<1>1. MovesBy(Close)
  BY DEF MovesBy, EntityMoves
<1>2. \A r \in GroupRules \ {Close} :
        /\ r[1] \notin EntityPlaces \cup {"declClose", "error"}
        /\ r[4] \notin EntityPlaces \cup {"error"}
        /\ r[5] \notin EntityRoles \cup StopRoles
        /\ r[2] # "DECL_OPEN"
        /\ r[4] = "internalSubset" => r[5] \in SubsetRoles
  BY DEF GroupRules, ChildTokens, EntityPlaces, ParamPlaces, EntityRoles, FillRoles, StopRoles,
     SubsetRoles
<1>3. QED BY <1>1, <1>2, OtherRules

LEMMA EveryRuleMoves == \A r \in Rules : MovesBy(r)
  BY PrologRulesMove, SubsetRulesMove, EntityRulesMove, DeclRulesMove, GroupRulesMove DEF Rules

\* XmlTokenRole: a token stays in its place, or stops the parser, or moves as a rule says.
LEMMA TokenMovesEntity ==
  ASSUME NEW h \in Handlers \ {"error"}, NEW level, NEW tok, NEW word
  PROVE  LET m == XmlTokenRole(h, level, tok, word) IN
         \/ tok = "PROLOG_S" /\ m.handler = h /\ m.role = "NONE"
         \/ m.handler = "error" /\ m.role = "ERROR"
         \/ EntityMoves(h, tok, word, m.handler, m.role)
<1> DEFINE fits == {r \in RulesOf[h] : r[2] = tok /\ r[3] \in {AnyWord, word}}
           rule == CHOOSE r \in fits : TRUE
           deep == LevelAfter(h, level, rule[5])
           m == XmlTokenRole(h, level, tok, word)
           closed == h = "element7" /\ rule[5] = "GROUP_CLOSE" /\ deep = 0
<1>1. m = IF tok = "PROLOG_S" /\ h # "prolog0" THEN [handler |-> h, level |-> level, role |-> "NONE"]
          ELSE IF fits = {} THEN [handler |-> "error", level |-> level, role |-> "ERROR"]
          ELSE [handler |-> IF closed THEN "declClose" ELSE rule[4], level |-> deep, role |-> rule[5]]
  BY DEF XmlTokenRole
<1> SUFFICES ASSUME ~(tok = "PROLOG_S" /\ h # "prolog0"), fits # {}
             PROVE  EntityMoves(h, tok, word, m.handler, m.role)
  BY <1>1
<1>2. rule \in Rules /\ rule[1] = h /\ rule[2] = tok /\ rule[3] \in {AnyWord, word}
  BY DEF RulesOf
<1>3. EntityMoves(h, tok, word, rule[4], rule[5])
  BY <1>2, EveryRuleMoves DEF MovesBy
<1>4. m.role = rule[5] /\ m.handler = IF closed THEN "declClose" ELSE rule[4]
  BY <1>1
<1> HIDE DEF rule, m, deep, fits
<1>5. CASE closed
  <2>1. OtherMoves(h, tok, word, rule[4], rule[5])
    BY <1>3, <1>5 DEF EntityMoves, GeneralMoves, BeginMoves, ParamPlaces
  <2>2. OtherMoves(h, tok, word, "declClose", rule[5])
    BY <2>1 DEF OtherMoves, EntityPlaces, ParamPlaces
  <2>3. QED BY <1>4, <1>5, <2>2 DEF EntityMoves
<1>6. CASE ~closed
  BY <1>3, <1>4, <1>6
<1>7. QED BY <1>5, <1>6

-----------------------------------------------------------------------------
\* What the switch over the role does to the entities

EntityFields == {"text", "system", "public", "notation"}

\* The table holds records with these fields.
Entities(f) == \A n \in DOMAIN f : DOMAIN f[n] = EntityFields

\* Apart from a public identifier, the table of entities is left as it is.
SameSaid(f, g) ==
  /\ DOMAIN g = DOMAIN f
  /\ Entities(g)
  /\ \A n \in DOMAIN f : g[n].text = f[n].text /\ g[n].system = f[n].system

\* The fields about entities, and the place in the declarations.
Spares(s, e) ==
  /\ e.handler = s.handler /\ e.err = s.err /\ e.declE = s.declE /\ e.complete = s.complete

\* One field of the entity being declared is set.
Fills(s, e, field, value) ==
  /\ Spares(s, e)
  /\ DOMAIN e.ents = DOMAIN s.ents
  /\ s.declE = None => e.ents = s.ents
  /\ \A n \in DOMAIN s.ents : n # s.declE => e.ents[n] = s.ents[n]
  /\ s.declE # None /\ s.declE \in DOMAIN s.ents =>
       e.ents[s.declE] = [s.ents[s.declE] EXCEPT ![field] = value]

LEMMA FillIs ==
  ASSUME NEW s, IsState(s), NEW field, NEW value
  PROVE  Fills(s, FillEntity(s, field, value), field, value)
<1> DEFINE e == FillEntity(s, field, value)
           filled == [s.ents EXCEPT ![s.declE][field] = value]
<1> SUFFICES Fills(s, e, field, value)
  OBVIOUS
<1>1. CASE s.declE = None
  <2>1. e = s
    BY <1>1 DEF FillEntity
  <2> HIDE DEF e
  <2>2. QED BY <1>1, <2>1 DEF Fills, Spares
<1>2. CASE s.declE # None
  <2>1. e = [s EXCEPT !.ents = filled]
    BY <1>2 DEF FillEntity
  <2>2. /\ DOMAIN filled = DOMAIN s.ents
        /\ \A n \in DOMAIN s.ents : n # s.declE => filled[n] = s.ents[n]
        /\ s.declE \in DOMAIN s.ents => filled[s.declE] = [s.ents[s.declE] EXCEPT ![field] = value]
    OBVIOUS
  <2> HIDE DEF filled, e
  <2>3. e.ents = filled /\ Spares(s, e)
    BY <2>1 DEF IsState, Fields, Spares
  <2>4. QED BY <1>2, <2>2, <2>3 DEF Fills
<1>3. QED BY <1>1, <1>2

\* A checked literal is filled in, or is an error.
LEMMA CheckedIs ==
  ASSUME NEW s, IsState(s), NEW value, NEW done
  PROVE  LET e == Checked(s, value, done) IN
         \/ e = done
         \/ e.err # "NONE" /\ e.handler = s.handler
<1>1. CASE value.err = "NONE"
  BY <1>1 DEF Checked
<1>2. CASE value.err # "NONE"
  <2>1. Checked(s, value, done) = [s EXCEPT !.err = value.err]
    BY <1>2 DEF Checked
  <2>2. [s EXCEPT !.err = value.err].err = value.err /\ [s EXCEPT !.err = value.err].handler = s.handler
    BY DEF IsState, Fields
  <2>3. QED BY <1>2, <2>1, <2>2
<1>3. QED BY <1>1, <1>2

LEMMA StopIs ==
  ASSUME NEW s, IsState(s), NEW t
  PROVE  Act(s, "ERROR", t).err # "NONE" /\ Act(s, "ERROR", t).handler = s.handler
<1>1. Act(s, "ERROR", t) = [s EXCEPT !.err = SyntaxCode(t.tok)]
  BY DEF Act
<1>2. SyntaxCode(t.tok) # "NONE"
  BY DEF SyntaxCode
<1>3. QED BY <1>1, <1>2 DEF IsState, Fields

LEMMA NameIs ==
  ASSUME NEW s, IsState(s), NEW name
  PROVE  LET e == NameEntity(s, name) IN
         /\ e.handler = s.handler /\ e.err = s.err /\ e.complete = s.complete
         /\ name \in Predefined \/ ~s.complete \/ name \in DOMAIN s.ents =>
              e.declE = None /\ e.ents = s.ents
         /\ name \notin Predefined /\ s.complete /\ name \notin DOMAIN s.ents =>
              e.declE = name /\ e.ents = Added(s.ents, name, NewEntity)
<1> DEFINE e == NameEntity(s, name)
           new == Added(s.ents, name, NewEntity)
           old == name \in Predefined \/ ~s.complete \/ name \in DOMAIN s.ents
<1>1. CASE old
  <2>1. e = [s EXCEPT !.declE = None]
    BY <1>1 DEF NameEntity
  <2>2. QED BY <1>1, <2>1 DEF IsState, Fields
<1>2. CASE ~old
  <2>1. e = [s EXCEPT !.declE = name, !.ents = new]
    BY <1>2 DEF NameEntity
  <2> HIDE DEF new
  <2>2. QED BY <1>2, <2>1 DEF IsState, Fields, new
<1>3. QED BY <1>1, <1>2

LEMMA PublicIs ==
  ASSUME NEW s, IsState(s), Entities(s.ents),
         NEW field, field \notin {"text", "system"}, NEW value
  PROVE  LET e == FillEntity(s, field, value) IN
         e.handler = s.handler /\ SameSaid(s.ents, e.ents)
<1> DEFINE e == FillEntity(s, field, value)
<1>1. Fills(s, e, field, value)
  BY FillIs
<1> HIDE DEF e
<1>2. ASSUME NEW n \in DOMAIN s.ents
      PROVE  /\ DOMAIN e.ents[n] = EntityFields
             /\ e.ents[n].text = s.ents[n].text /\ e.ents[n].system = s.ents[n].system
  <2>1. DOMAIN s.ents[n] = EntityFields
    BY DEF Entities
  <2>2. CASE s.declE # None /\ n = s.declE
    <3> DEFINE x == s.ents[n]
               y == [x EXCEPT ![field] = value]
    <3>1. e.ents[n] = y
      BY <1>1, <2>2 DEF Fills
    <3>2. DOMAIN y = EntityFields /\ y["text"] = x["text"] /\ y["system"] = x["system"]
      BY <2>1 DEF EntityFields
    <3> HIDE DEF x, y
    <3>3. QED BY <3>1, <3>2 DEF x
  <2>3. CASE ~(s.declE # None /\ n = s.declE)
    BY <1>1, <2>1, <2>3 DEF Fills
  <2>4. QED BY <2>2, <2>3
<1>3. Entities(e.ents)
  BY <1>1, <1>2 DEF Entities, Fills
<1>4. e.handler = s.handler /\ DOMAIN e.ents = DOMAIN s.ents
  BY <1>1 DEF Fills, Spares
<1>5. SameSaid(s.ents, e.ents)
  BY <1>2, <1>3, <1>4 DEF SameSaid
<1>6. QED BY <1>4, <1>5 DEF e

\* Everywhere else the entities are left alone.
LEMMA ActLeaves ==
  ASSUME NEW s, IsState(s), Entities(s.ents), NEW role, role \notin EntityRoles \cup StopRoles, NEW t
  PROVE  LET e == Act(s, role, t) IN
         /\ e.handler = s.handler
         /\ SameSaid(s.ents, e.ents)
         /\ role \in SubsetRoles => e.err = s.err
         /\ role = "NONE" => e = s
<1> DEFINE e == Act(s, role, t)
<1>0. SameSaid(s.ents, s.ents)
  BY DEF SameSaid
<1>a. \A f \in Fields \ {"handler", "ents"} : \A v :
        [s EXCEPT ![f] = v].handler = s.handler /\ [s EXCEPT ![f] = v].ents = s.ents
  BY DEF IsState, Fields
<1>b. \A v, w, x : x = [[s EXCEPT !["declA"] = v] EXCEPT !["isCdata"] = w] =>
        x.handler = s.handler /\ x.ents = s.ents
  BY DEF IsState, Fields
<1>1. CASE role = "PARAM_ENTITY_REF"
  <2>1. e = [s EXCEPT !["complete"] = FALSE]
    BY <1>1 DEF Act
  <2>2. e.handler = s.handler /\ e.ents = s.ents /\ e.err = s.err
    BY <2>1 DEF IsState, Fields
  <2>3. QED BY <1>0, <1>1, <2>2
<1>2. CASE role \in {"NONE", "NOTATION_NO_SYSTEM_ID"}
  <2>1. e = s
    BY <1>2 DEF Act
  <2>2. QED BY <1>0, <2>1
<1> DEFINE Left == e.handler = s.handler /\ SameSaid(s.ents, e.ents)
<1>3. ASSUME role \notin SubsetRoles, Left
      PROVE  /\ e.handler = s.handler
             /\ SameSaid(s.ents, e.ents)
             /\ role \in SubsetRoles => e.err = s.err
             /\ role = "NONE" => e = s
  BY <1>3 DEF SubsetRoles
<1>4. CASE role \in {"XML_DECL", "DOCTYPE_SYSTEM_ID", "ATTRIBUTE_TYPE_CDATA"}
  <2>1. \E f \in {"standalone", "external", "isCdata"} : \E v : e = [s EXCEPT ![f] = v]
    <3>1. CASE role = "XML_DECL"
      BY <3>1 DEF Act
    <3>2. CASE role = "DOCTYPE_SYSTEM_ID"
      BY <3>2 DEF Act
    <3>3. CASE role = "ATTRIBUTE_TYPE_CDATA"
      BY <3>3 DEF Act
    <3>4. QED BY <1>4, <3>1, <3>2, <3>3
  <2>2. e.handler = s.handler /\ e.ents = s.ents
    BY <1>a, <2>1 DEF Fields
  <2>3. QED BY <1>0, <1>3, <1>4, <2>2 DEF SubsetRoles
<1>5. CASE role = "ATTRIBUTE_NAME"
  <2>1. e = [[s EXCEPT !["declA"] = t.word] EXCEPT !["isCdata"] = FALSE]
    BY <1>5 DEF Act
  <2>2. e.handler = s.handler /\ e.ents = s.ents
    <3> HIDE DEF e
    <3> QED BY <1>b, <2>1
  <2>3. QED BY <1>0, <1>3, <1>5, <2>2 DEF SubsetRoles
<1>6. CASE role = "ATTLIST_ELEMENT_NAME"
  <2>1. \E w : e = [[s EXCEPT !["declT"] = t.word] EXCEPT !["atts"] = w]
    BY <1>6 DEF Act, NameElementType
  <2>2. e.handler = s.handler /\ e.ents = s.ents
    <3> HIDE DEF e
    <3>1. PICK w : e = [[s EXCEPT !["declT"] = t.word] EXCEPT !["atts"] = w]
      BY <2>1
    <3>2. QED BY <3>1 DEF IsState, Fields
  <2>3. QED BY <1>0, <1>3, <1>6, <2>2 DEF SubsetRoles
<1>7. \A v : DefineAttribute(s, v).handler = s.handler /\ DefineAttribute(s, v).ents = s.ents
  <2> TAKE v
  <2>1. DefineAttribute(s, v) = s \/ \E w : DefineAttribute(s, v) = [s EXCEPT !["atts"] = w]
    BY DEF DefineAttribute
  <2>2. \A w : [s EXCEPT !["atts"] = w].handler = s.handler /\ [s EXCEPT !["atts"] = w].ents = s.ents
    BY <1>a DEF Fields
  <2>3. QED BY <2>1, <2>2
<1>8. \A value, done : done.handler = s.handler /\ SameSaid(s.ents, done.ents) =>
        /\ Checked(s, value, done).handler = s.handler
        /\ SameSaid(s.ents, Checked(s, value, done).ents)
  <2> TAKE value, done
  <2>1. Checked(s, value, done) = done \/ Checked(s, value, done) = [s EXCEPT !["err"] = value.err]
    BY DEF Checked
  <2>2. "err" \in Fields \ {"handler", "ents"}
    BY DEF Fields
  <2>3. /\ [s EXCEPT !["err"] = value.err].handler = s.handler
        /\ [s EXCEPT !["err"] = value.err].ents = s.ents
    BY <1>a, <2>2
  <2>4. CASE Checked(s, value, done) = done
    BY <2>4
  <2>5. CASE Checked(s, value, done) = [s EXCEPT !["err"] = value.err]
    BY <1>0, <2>3, <2>5
  <2>6. QED BY <2>1, <2>4, <2>5
<1>9. CASE role \in {"IMPLIED_ATTRIBUTE_VALUE", "REQUIRED_ATTRIBUTE_VALUE"}
  <2>1. e = DefineAttribute(s, None)
    BY <1>9 DEF Act
  <2>2. Left
    BY <1>0, <1>7, <2>1
  <2>3. QED BY <1>3, <1>9, <2>2 DEF SubsetRoles
<1>10. CASE role \in {"DEFAULT_ATTRIBUTE_VALUE", "FIXED_ATTRIBUTE_VALUE"}
  <2> DEFINE value == AttValue(s, s.isCdata, t.lit)
  <2>1. e = Checked(s, value, DefineAttribute(s, value.text))
    BY <1>10 DEF Act
  <2> HIDE DEF value
  <2>2. DefineAttribute(s, value.text).handler = s.handler
        /\ SameSaid(s.ents, DefineAttribute(s, value.text).ents)
    BY <1>0, <1>7
  <2>3. Left
    BY <1>8, <2>1, <2>2
  <2>4. QED BY <1>3, <1>10, <2>3 DEF SubsetRoles
<1>11. CASE role \in {"DOCTYPE_PUBLIC_ID", "NOTATION_PUBLIC_ID"}
  <2> DEFINE done == IF role = "NOTATION_PUBLIC_ID" THEN s
                     ELSE FillEntity(s, "public", PublicId(t.lit).text)
  <2>1. e = Checked(s, PublicId(t.lit), done)
    BY <1>11 DEF Act
  <2>2. done.handler = s.handler /\ SameSaid(s.ents, done.ents)
    <3>1. \A v : FillEntity(s, "public", v).handler = s.handler
                 /\ SameSaid(s.ents, FillEntity(s, "public", v).ents)
      <4>1. "public" \notin {"text", "system"}
        OBVIOUS
      <4>2. QED BY <4>1, PublicIs
    <3>2. QED BY <1>0, <3>1
  <2> HIDE DEF done
  <2>3. Left
    BY <1>8, <2>1, <2>2
  <2>4. QED BY <1>3, <1>11, <2>3 DEF SubsetRoles
<1>12. CASE role = "GROUP_OPEN"
  <2>1. \E v : e = [s EXCEPT !["connector"] = v]
    BY <1>12 DEF Act, OpenGroup
  <2>2. e.handler = s.handler /\ e.ents = s.ents
    BY <1>a, <2>1 DEF Fields
  <2>3. QED BY <1>0, <1>3, <1>12, <2>2 DEF SubsetRoles
<1>13. CASE role \in {"GROUP_SEQUENCE", "GROUP_CHOICE"}
  <2>1. \E mine, other : e = Connect(s, mine, other)
    <3>1. CASE role = "GROUP_SEQUENCE"
      BY <3>1 DEF Act
    <3>2. CASE role = "GROUP_CHOICE"
      BY <3>2 DEF Act
    <3>3. QED BY <1>13, <3>1, <3>2
  <2>2. \A mine, other : \E f \in {"err", "connector"} : \E v : Connect(s, mine, other) = [s EXCEPT ![f] = v]
    BY DEF Connect
  <2>3. \E f \in {"err", "connector"} : \E v : e = [s EXCEPT ![f] = v]
    BY <2>1, <2>2
  <2>4. e.handler = s.handler /\ e.ents = s.ents
    BY <1>a, <2>3 DEF Fields
  <2>5. QED BY <1>0, <1>3, <1>13, <2>4 DEF SubsetRoles
<1>14. CASE role \notin {"NONE", "NOTATION_NO_SYSTEM_ID", "PARAM_ENTITY_REF", "XML_DECL",
                         "DOCTYPE_SYSTEM_ID", "ATTRIBUTE_TYPE_CDATA", "ATTRIBUTE_NAME",
                         "ATTLIST_ELEMENT_NAME", "IMPLIED_ATTRIBUTE_VALUE",
                         "REQUIRED_ATTRIBUTE_VALUE", "DEFAULT_ATTRIBUTE_VALUE",
                         "FIXED_ATTRIBUTE_VALUE", "DOCTYPE_PUBLIC_ID", "NOTATION_PUBLIC_ID",
                         "GROUP_OPEN", "GROUP_SEQUENCE", "GROUP_CHOICE"}
  <2>1. e = s
    BY <1>14 DEF Act, EntityRoles, FillRoles, StopRoles
  <2>2. QED BY <1>0, <2>1
<1>15. QED BY <1>1, <1>2, <1>4, <1>5, <1>6, <1>9, <1>10, <1>11, <1>12, <1>13, <1>14

-----------------------------------------------------------------------------
\* The invariant

Declarations == [name : {t.word : t \in Tokens},
                 text : {EntValue(t.lit).text : t \in Tokens} \cup {None},
                 system : {t.lit : t \in Tokens} \cup {None}]
Names(de) == {de[i].name : i \in DOMAIN de}
IsFirst(de, i) == \A j \in 1..(i - 1) : de[j].name # de[i].name

\* The table f says what the first declarations of de say, and nothing else.
Wins(f, de) ==
  \A i \in DOMAIN de : IsFirst(de, i) =>
    f[de[i].name].text = de[i].text /\ f[de[i].name].system = de[i].system
Table(f, de) == DOMAIN f = Names(de) /\ Entities(f) /\ Wins(f, de)

\* The general entity of the declaration dl is filled in with what dl said so
\* far, or it is not the first of its name and is not filled in.
Entry(s, dl, de, text, system) ==
  LET n == dl[2].word IN
  /\ dl[1].word = "ENTITY" /\ dl[2].tok = "NAME"
  /\ \/ /\ s.declE = None /\ (n \in Predefined \/ ~s.complete \/ n \in Names(de))
        /\ Table(s.ents, de)
     \/ /\ s.declE = n /\ n # None /\ n \notin Predefined \cup Names(de) /\ s.complete
        /\ DOMAIN s.ents = Names(de) \cup {n} /\ Entities(s.ents) /\ Wins(s.ents, de)
        /\ s.ents[n].text = text /\ s.ents[n].system = system

\* A declaration that has said all that Declared looks for.
Whole(dl) ==
  /\ Len(dl) > 2
  /\ dl[3].tok # "LITERAL" => Len(dl) > 3 /\ (dl[3].word # "SYSTEM" => Len(dl) > 4)

\* In a general entity declaration, behind its name.
InEntity(s, dl, de) ==
  \/ s.handler = "entity2" /\ Len(dl) = 2 /\ Entry(s, dl, de, None, None)
  \/ /\ s.handler = "entity3" /\ Len(dl) = 3 /\ dl[3].tok = "NAME" /\ dl[3].word = "PUBLIC"
     /\ Entry(s, dl, de, None, None)
  \/ /\ s.handler = "entity4" /\ dl[3].tok = "NAME"
     /\ \/ Len(dl) = 3 /\ dl[3].word = "SYSTEM"
        \/ Len(dl) = 4 /\ dl[3].word = "PUBLIC"
     /\ Entry(s, dl, de, None, None)
  \/ /\ s.handler \in {"entity5", "entity6", "declClose"} /\ Whole(dl)
     /\ Entry(s, dl, de, Declared(dl).text, Declared(dl).system)

\* In a parameter entity declaration, behind the percent sign.
InParam(s, dl, de) ==
  /\ Len(dl) > 1 /\ dl[1].word = "ENTITY" /\ dl[2].tok = "PERCENT"
  /\ \/ s.handler = "entity1"
     \/ s.handler \in ParamPlaces \cup {"declClose"} /\ s.declE = None
  /\ Table(s.ents, de)

Begun(s, dl, de) ==
  s.handler = "entity0" /\ Len(dl) = 1 /\ dl[1].word = "ENTITY" /\ Table(s.ents, de)

Outside(s, dl, de) ==
  /\ s.handler \notin EntityPlaces
  /\ Len(dl) < 2 /\ (Len(dl) = 1 => dl[1].word # "ENTITY")
  /\ Table(s.ents, de)

Phase(s, dl, de) ==
  /\ dl \in Seq(Tokens) /\ de \in Seq(Declarations)
  /\ InEntity(s, dl, de) \/ InParam(s, dl, de) \/ Begun(s, dl, de) \/ Outside(s, dl, de)

GoodEntities(s, dl, de) ==
  /\ s.err = "NONE" /\ s.handler # "error" => Phase(s, dl, de)
  /\ s.err # "NONE" => s.handler # "internalSubset"

-----------------------------------------------------------------------------
\* Facts the steps share

LEMMA Appended ==
  ASSUME NEW S, NEW q \in Seq(S), NEW t \in S
  PROVE  /\ Append(q, t) \in Seq(S) /\ Len(Append(q, t)) = Len(q) + 1 /\ Len(q) \in Nat
         /\ Append(q, t)[Len(q) + 1] = t
         /\ \A i \in 1..Len(q) : Append(q, t)[i] = q[i]
OBVIOUS

\* The state of the entities is the same.
Same(s, x) == x.ents = s.ents /\ x.declE = s.declE /\ x.complete = s.complete

LEMMA EntrySame ==
  ASSUME NEW s, NEW x, NEW dl, NEW dm, NEW de, NEW text, NEW system,
         Entry(s, dl, de, text, system), Same(s, x), dm[1] = dl[1], dm[2] = dl[2]
  PROVE  Entry(x, dm, de, text, system)
BY DEF Entry, Same

LEMMA EntryFilled ==
  ASSUME NEW s, NEW x, NEW dl, NEW de, NEW text, NEW system, NEW field, NEW value,
         Entry(s, dl, de, text, system), Fills(s, x, field, value), field \in EntityFields
  PROVE  Entry(x, dl, de, IF field = "text" THEN value ELSE text,
                          IF field = "system" THEN value ELSE system)
<1> DEFINE n == dl[2].word
<1>1. x.declE = s.declE /\ x.complete = s.complete
  BY DEF Fills, Spares
<1>2. CASE s.declE = None /\ (n \in Predefined \/ ~s.complete \/ n \in Names(de)) /\ Table(s.ents, de)
  <2>1. x.ents = s.ents
    BY <1>2 DEF Fills
  <2>2. QED BY <1>1, <1>2, <2>1 DEF Entry
<1>3. CASE /\ s.declE = n /\ n # None /\ n \notin Predefined \cup Names(de) /\ s.complete
           /\ DOMAIN s.ents = Names(de) \cup {n} /\ Entities(s.ents) /\ Wins(s.ents, de)
           /\ s.ents[n].text = text /\ s.ents[n].system = system
  <2>1. /\ DOMAIN x.ents = DOMAIN s.ents
        /\ x.ents[n] = [s.ents[n] EXCEPT ![field] = value]
        /\ \A k \in DOMAIN s.ents : k # n => x.ents[k] = s.ents[k]
    BY <1>3 DEF Fills
  <2>2. DOMAIN s.ents[n] = EntityFields
    BY <1>3 DEF Entities
  <2>3. /\ DOMAIN x.ents[n] = EntityFields
        /\ x.ents[n]["text"] = IF field = "text" THEN value ELSE text
        /\ x.ents[n]["system"] = IF field = "system" THEN value ELSE system
    <3> DEFINE r == s.ents[n]
               q == [r EXCEPT ![field] = value]
    <3>1. DOMAIN q = EntityFields /\ \A k \in EntityFields : q[k] = IF k = field THEN value ELSE r[k]
      BY <2>2
    <3>2. r["text"] = text /\ r["system"] = system /\ x.ents[n] = q
      BY <1>3, <2>1
    <3>3. {"text", "system"} \subseteq EntityFields
      BY DEF EntityFields
    <3> HIDE DEF r, q
    <3>4. QED BY <3>1, <3>2, <3>3
  <2>4. Entities(x.ents)
    BY <1>3, <2>1, <2>3 DEF Entities
  <2>5. Wins(x.ents, de)
    <3>1. ASSUME NEW i \in DOMAIN de PROVE x.ents[de[i].name] = s.ents[de[i].name]
      <4>1. de[i].name \in Names(de)
        BY DEF Names
      <4>2. QED BY <1>3, <2>1, <4>1
    <3>2. QED BY <1>3, <3>1 DEF Wins
  <2>6. QED BY <1>1, <1>3, <2>1, <2>3, <2>4, <2>5 DEF Entry
<1>4. QED BY <1>2, <1>3 DEF Entry

\* A parameter entity fills in nothing.
LEMMA TableFilled ==
  ASSUME NEW s, NEW x, NEW de, NEW field, NEW value,
         Table(s.ents, de), s.declE = None, Fills(s, x, field, value)
  PROVE  Table(x.ents, de) /\ x.declE = None
BY DEF Fills, Spares

LEMMA TableSaid ==
  ASSUME NEW f, NEW g, NEW de, Table(f, de), SameSaid(f, g)
  PROVE  Table(g, de)
<1>1. \A i \in DOMAIN de : de[i].name \in DOMAIN f
  BY DEF Table, Names
<1>2. QED BY <1>1 DEF Table, SameSaid, Wins

LEMMA WholeStays ==
  ASSUME NEW dl \in Seq(Tokens), NEW t \in Tokens, Whole(dl)
  PROVE  Whole(Append(dl, t)) /\ Declared(Append(dl, t)) = Declared(dl)
<1> DEFINE dm == Append(dl, t)
<1>1. Len(dm) = Len(dl) + 1 /\ Len(dl) \in Nat /\ Len(dl) > 2 /\ \A i \in 1..Len(dl) : dm[i] = dl[i]
  BY Appended DEF Whole
<1> HIDE DEF dm
<1>2. dm[2] = dl[2] /\ dm[3] = dl[3]
  BY <1>1
<1>3. Len(dl) > 3 => dm[4] = dl[4]
  BY <1>1
<1>4. Len(dl) > 4 => dm[5] = dl[5]
  BY <1>1
<1>5. Whole(dm)
  BY <1>1, <1>2 DEF Whole
<1>6. Declared(dm) = Declared(dl)
  <2>1. CASE dl[3].tok = "LITERAL"
    BY <1>2, <2>1 DEF Declared
  <2>2. CASE dl[3].tok # "LITERAL" /\ dl[3].word = "SYSTEM"
    BY <1>2, <1>3, <2>2 DEF Declared, Whole
  <2>3. CASE dl[3].tok # "LITERAL" /\ dl[3].word # "SYSTEM"
    BY <1>2, <1>4, <2>3 DEF Declared, Whole
  <2>4. QED BY <2>1, <2>2, <2>3
<1>7. QED BY <1>5, <1>6 DEF dm

\* The declaration is a possible one.
LEMMA DeclaredIs ==
  ASSUME NEW dl \in Seq(Tokens), Whole(dl)
  PROVE  Declared(dl) \in Declarations /\ Declared(dl).name = dl[2].word
<1>1. Len(dl) \in Nat /\ \A i \in 1..Len(dl) : dl[i] \in Tokens
  OBVIOUS
<1>2. dl[2] \in Tokens /\ dl[3] \in Tokens
  BY <1>1 DEF Whole
<1>3. Len(dl) > 3 => dl[4] \in Tokens
  BY <1>1
<1>4. Len(dl) > 4 => dl[5] \in Tokens
  BY <1>1
<1>5. CASE dl[3].tok = "LITERAL"
  BY <1>2, <1>5 DEF Declared, Declarations
<1>6. CASE dl[3].tok # "LITERAL" /\ dl[3].word = "SYSTEM"
  BY <1>2, <1>3, <1>6 DEF Declared, Declarations, Whole
<1>7. CASE dl[3].tok # "LITERAL" /\ dl[3].word # "SYSTEM"
  BY <1>2, <1>4, <1>7 DEF Declared, Declarations, Whole
<1>8. QED BY <1>5, <1>6, <1>7

\* One more declaration: the first of its name, or not.
LEMMA NamesAfter ==
  ASSUME NEW de \in Seq(Declarations), NEW v \in Declarations
  PROVE  LET dn == Append(de, v) IN
         /\ dn \in Seq(Declarations)
         /\ Names(dn) = Names(de) \cup {v.name}
         /\ \A f : /\ Wins(f, de)
                   /\ v.name \in Names(de) \/ (f[v.name].text = v.text /\ f[v.name].system = v.system)
                   => Wins(f, dn)
<1> DEFINE dn == Append(de, v)
           k == Len(de)
<1>1. /\ dn \in Seq(Declarations) /\ Len(dn) = k + 1 /\ k \in Nat
      /\ dn[k + 1] = v /\ \A i \in 1..k : dn[i] = de[i]
  BY Appended
<1>2. DOMAIN dn = 1..(k + 1) /\ DOMAIN de = 1..k
  BY <1>1
<1> HIDE DEF dn, k
<1>3. DOMAIN dn = DOMAIN de \cup {k + 1} /\ \A i \in DOMAIN de : dn[i] = de[i]
  BY <1>1, <1>2
<1>4. Names(dn) = Names(de) \cup {v.name}
  BY <1>1, <1>3 DEF Names
<1>5. ASSUME NEW f, Wins(f, de),
             v.name \in Names(de) \/ (f[v.name].text = v.text /\ f[v.name].system = v.system)
      PROVE  Wins(f, dn)
  <2> SUFFICES ASSUME NEW i \in DOMAIN dn, IsFirst(dn, i)
               PROVE  f[dn[i].name].text = dn[i].text /\ f[dn[i].name].system = dn[i].system
    BY DEF Wins
  <2>1. CASE i \in 1..k
    <3>1. dn[i] = de[i] /\ \A j \in 1..(i - 1) : dn[j] = de[j]
      BY <1>1, <2>1
    <3>2. IsFirst(de, i)
      BY <3>1 DEF IsFirst
    <3>3. QED BY <1>2, <1>5, <2>1, <3>1, <3>2 DEF Wins
  <2>2. CASE i = k + 1
    <3>1. \A j \in 1..k : de[j].name # v.name
      BY <1>1, <2>2 DEF IsFirst
    <3>2. v.name \notin Names(de)
      BY <1>2, <3>1 DEF Names
    <3>3. QED BY <1>1, <1>5, <2>2, <3>2
  <2>3. QED BY <1>2, <1>1, <2>1, <2>2
<1>6. QED BY <1>1, <1>4, <1>5 DEF dn

-----------------------------------------------------------------------------
\* One token: the history follows, and the table of entities with it

\* What Read makes of its two histories.
DeclAfter(x, dl, t) ==
  IF x.handler = "internalSubset" \/ x.err # "NONE" THEN <<>>
  ELSE IF t.tok = "DECL_OPEN" THEN <<t>>
  ELSE IF dl # <<>> /\ dl[1].word = "ENTITY" /\ t.tok # "PROLOG_S" THEN Append(dl, t)
  ELSE dl
DeclaredAfter(s, x, dl, de, t) ==
  IF t.tok = "DECL_CLOSE" /\ x.err = "NONE" /\ EntityDecl(dl)
     /\ s.complete /\ dl[2].word \notin Predefined
  THEN Append(de, Declared(dl)) ELSE de

After(s, x, dl, de, t) == GoodEntities(x, DeclAfter(x, dl, t), DeclaredAfter(s, x, dl, de, t))

\* The state s, with its history, is about to be acted upon as e.
Ready(s, e, dl, de) ==
  IsState(e) /\ Same(s, e) /\ e.err = "NONE" /\ Phase(s, dl, de)

\* The action fills in a field, or ends in an error.
Filled(e, x, field, value) ==
  \/ Fills(e, x, field, value)
  \/ x.err # "NONE" /\ x.handler = e.handler

LEMMA Stopped ==
  ASSUME NEW s, NEW x, NEW dl, NEW de, NEW t, x.err # "NONE" \/ x.handler = "error",
         x.handler # "internalSubset"
  PROVE  After(s, x, dl, de, t)
BY DEF After, GoodEntities

\* Inside an entity declaration the history takes the token.
LEMMA Continues ==
  ASSUME NEW s, NEW x, NEW dl \in Seq(Tokens), NEW de \in Seq(Declarations), NEW t \in Tokens,
         Len(dl) > 0, dl[1].word = "ENTITY", x.handler # "internalSubset",
         t.tok \notin {"DECL_OPEN", "PROLOG_S", "DECL_CLOSE"},
         \/ x.err # "NONE"
         \/ InEntity(x, Append(dl, t), de)
         \/ InParam(x, Append(dl, t), de)
  PROVE  After(s, x, dl, de, t)
<1>1. CASE x.err # "NONE"
  BY <1>1, Stopped
<1>2. CASE x.err = "NONE"
  <2>1. DeclAfter(x, dl, t) = Append(dl, t) /\ DeclaredAfter(s, x, dl, de, t) = de
    BY <1>2 DEF DeclAfter, DeclaredAfter
  <2>2. Append(dl, t) \in Seq(Tokens)
    BY Appended
  <2>3. QED BY <1>2, <2>1, <2>2 DEF After, GoodEntities, Phase
<1>3. QED BY <1>1, <1>2

LEMMA FilledIs ==
  ASSUME NEW e, IsState(e), NEW field, NEW value, NEW x, NEW v,
         \/ x = FillEntity(e, field, value)
         \/ x = Checked(e, v, FillEntity(e, field, value))
  PROVE  Filled(e, x, field, value)
<1>1. Fills(e, FillEntity(e, field, value), field, value)
  BY FillIs
<1>2. CASE x = FillEntity(e, field, value)
  BY <1>1, <1>2 DEF Filled
<1>3. CASE x = Checked(e, v, FillEntity(e, field, value))
  BY <1>1, <1>3, CheckedIs DEF Filled
<1>4. QED BY <1>2, <1>3

\* What each role fills in.
LEMMA RoleFills ==
  ASSUME NEW e, IsState(e), NEW t
  PROVE  /\ Filled(e, Act(e, "ENTITY_VALUE", t), "text", EntValue(t.lit).text)
         /\ Filled(e, Act(e, "ENTITY_SYSTEM_ID", t), "system", t.lit)
         /\ \E v : Filled(e, Act(e, "ENTITY_PUBLIC_ID", t), "public", v)
         /\ Filled(e, Act(e, "ENTITY_NOTATION_NAME", t), "notation", t.word)
<1>0. /\ \A f, v : Filled(e, FillEntity(e, f, v), f, v)
      /\ \A f, v, w : Filled(e, Checked(e, w, FillEntity(e, f, v)), f, v)
  BY FilledIs
<1>1. Act(e, "ENTITY_VALUE", t)
        = Checked(e, EntValue(t.lit), FillEntity(e, "text", EntValue(t.lit).text))
  BY DEF Act
<1>2. Act(e, "ENTITY_SYSTEM_ID", t) = FillEntity(e, "system", t.lit)
  BY DEF Act
<1>3. Act(e, "ENTITY_PUBLIC_ID", t)
        = Checked(e, PublicId(t.lit), FillEntity(e, "public", PublicId(t.lit).text))
  BY DEF Act
<1>4. Act(e, "ENTITY_NOTATION_NAME", t) = FillEntity(e, "notation", t.word)
  BY DEF Act
<1>5. QED BY <1>0, <1>1, <1>2, <1>3, <1>4

\* Some field is filled in, or there is an error.
LEMMA RoleFillsSome ==
  ASSUME NEW e, IsState(e), NEW t, NEW role \in FillRoles
  PROVE  \E f, v : Filled(e, Act(e, role, t), f, v)
BY RoleFills DEF FillRoles

LEMMA SpaceStep ==
  ASSUME NEW s, NEW e, NEW dl, NEW de, NEW t, Ready(s, e, dl, de),
         e.handler = s.handler, t.tok = "PROLOG_S", s.handler # "error"
  PROVE  After(s, e, dl, de, t)
<1>1. DeclaredAfter(s, e, dl, de, t) = de
  BY DEF DeclaredAfter
<1>2. CASE s.handler = "internalSubset"
  <2>1. Outside(s, dl, de)
    BY <1>2 DEF Ready, Phase, InEntity, InParam, Begun, Outside, EntityPlaces, ParamPlaces
  <2>2. DeclAfter(e, dl, t) = <<>> /\ <<>> \in Seq(Tokens) /\ Len(<<>>) = 0
    BY <1>2 DEF DeclAfter
  <2>3. Outside(e, <<>>, de)
    BY <2>1, <2>2 DEF Ready, Same, Outside
  <2>4. QED BY <1>1, <2>2, <2>3 DEF After, GoodEntities, Phase, Ready
<1>3. CASE s.handler # "internalSubset"
  <2>1. DeclAfter(e, dl, t) = dl
    BY <1>3 DEF DeclAfter, Ready
  <2>2. \A text, system : Entry(s, dl, de, text, system) => Entry(e, dl, de, text, system)
    BY EntrySame DEF Ready
  <2>3. Phase(e, dl, de)
    <3>1. CASE InEntity(s, dl, de)
      BY <2>2, <3>1 DEF Ready, Phase, InEntity
    <3>2. CASE InParam(s, dl, de)
      BY <3>2 DEF Ready, Phase, InParam, Same
    <3>3. CASE Begun(s, dl, de) \/ Outside(s, dl, de)
      BY <3>3 DEF Ready, Phase, Begun, Outside, Same
    <3>4. QED BY <3>1, <3>2, <3>3 DEF Ready, Phase
  <2>4. QED BY <1>1, <1>3, <2>1, <2>3 DEF After, GoodEntities, Ready
<1>4. QED BY <1>2, <1>3

LEMMA CloseStep ==
  ASSUME NEW s, NEW e, NEW dl, NEW de, NEW t, Ready(s, e, dl, de),
         s.handler \in {"entity5", "declClose"}, t.tok = "DECL_CLOSE", e.handler = "internalSubset"
  PROVE  After(s, e, dl, de, t)
<1> DEFINE dn == DeclaredAfter(s, e, dl, de, t)
<1>1. DeclAfter(e, dl, t) = <<>> /\ <<>> \in Seq(Tokens) /\ Len(<<>>) = 0
  BY DEF DeclAfter
<1>2. ASSUME dn \in Seq(Declarations), Table(s.ents, dn)
      PROVE  After(s, e, dl, de, t)
  <2>1. Outside(e, <<>>, dn)
    BY <1>1, <1>2 DEF Outside, Ready, Same, EntityPlaces, ParamPlaces
  <2>2. QED BY <1>1, <1>2, <2>1 DEF After, GoodEntities, Phase, Ready
<1>3. CASE InParam(s, dl, de) \/ Outside(s, dl, de)
  <2>1. ~EntityDecl(dl)
    BY <1>3 DEF InParam, Outside, EntityDecl, Ready, Phase
  <2>2. dn = de
    BY <2>1 DEF DeclaredAfter
  <2>3. Table(s.ents, de) /\ de \in Seq(Declarations)
    BY <1>3 DEF InParam, Outside, Ready, Phase
  <2>4. QED BY <1>2, <2>2, <2>3
<1>4. CASE InEntity(s, dl, de)
  <2> DEFINE n == dl[2].word
             v == Declared(dl)
  <2>1. Whole(dl) /\ Entry(s, dl, de, v.text, v.system)
    BY <1>4 DEF InEntity
  <2>2. EntityDecl(dl)
    BY <2>1 DEF Whole, Entry, EntityDecl
  <2>3. dn = IF s.complete /\ n \notin Predefined THEN Append(de, v) ELSE de
    BY <2>2 DEF DeclaredAfter, Ready
  <2>4. v \in Declarations /\ v.name = n /\ de \in Seq(Declarations)
    BY <2>1, DeclaredIs DEF Ready, Phase
  <2>5. /\ Append(de, v) \in Seq(Declarations)
        /\ Names(Append(de, v)) = Names(de) \cup {n}
        /\ \A f : /\ Wins(f, de)
                  /\ n \in Names(de) \/ (f[n].text = v.text /\ f[n].system = v.system)
                  => Wins(f, Append(de, v))
    BY <2>4, NamesAfter
  <2> HIDE DEF n, v, dn
  <2>6. CASE /\ s.declE = None /\ (n \in Predefined \/ ~s.complete \/ n \in Names(de))
             /\ Table(s.ents, de)
    <3>1. CASE s.complete /\ n \notin Predefined
      <4>1. Table(s.ents, Append(de, v))
        BY <2>5, <2>6, <3>1 DEF Table
      <4>2. QED BY <1>2, <2>3, <2>5, <3>1, <4>1
    <3>2. CASE ~(s.complete /\ n \notin Predefined)
      BY <1>2, <2>3, <2>4, <2>6, <3>2
    <3>3. QED BY <3>1, <3>2
  <2>7. CASE /\ s.declE = n /\ n # None /\ n \notin Predefined \cup Names(de) /\ s.complete
             /\ DOMAIN s.ents = Names(de) \cup {n} /\ Entities(s.ents) /\ Wins(s.ents, de)
             /\ s.ents[n].text = v.text /\ s.ents[n].system = v.system
    <3>1. Table(s.ents, Append(de, v))
      BY <2>5, <2>7 DEF Table
    <3>2. QED BY <1>2, <2>3, <2>5, <2>7, <3>1
  <2>8. QED BY <2>1, <2>6, <2>7 DEF Entry, n
<1>5. InEntity(s, dl, de) \/ InParam(s, dl, de) \/ Outside(s, dl, de)
  BY DEF Ready, Phase, Begun
<1>6. QED BY <1>3, <1>4, <1>5

LEMMA OtherStep ==
  ASSUME NEW s, NEW e, NEW dl, NEW de, NEW t \in Tokens, Ready(s, e, dl, de), NEW role,
         OtherMoves(s.handler, t.tok, t.word, e.handler, role)
  PROVE  After(s, Act(e, role, t), dl, de, t)
<1> DEFINE x == Act(e, role, t)
<1>1. Outside(s, dl, de)
  BY DEF OtherMoves, Ready, Phase, InEntity, InParam, Begun, EntityPlaces, ParamPlaces
<1>2. Entities(e.ents) /\ role \notin EntityRoles \cup StopRoles /\ Table(e.ents, de)
  BY <1>1 DEF OtherMoves, Ready, Same, Outside, Table
<1>3. /\ x.handler = e.handler /\ SameSaid(e.ents, x.ents)
      /\ role \in SubsetRoles => x.err = "NONE"
  BY <1>2, ActLeaves DEF Ready
<1> HIDE DEF x
<1>4. Table(x.ents, de)
  BY <1>2, <1>3, TableSaid
<1>5. DeclaredAfter(s, x, dl, de, t) = de
  BY <1>1 DEF DeclaredAfter, EntityDecl, Outside, Ready, Phase
<1>6. x.handler \notin EntityPlaces \cup {"error"}
  BY <1>3 DEF OtherMoves
<1>7. CASE x.err # "NONE"
  <2>1. x.handler # "internalSubset"
    BY <1>3, <1>7 DEF OtherMoves
  <2>2. QED BY <1>7, <2>1, Stopped DEF x
<1>8. CASE x.err = "NONE"
  <2> DEFINE dm == DeclAfter(x, dl, t)
  <2>1. \/ dm = <<>>
        \/ dm = <<t>> /\ t.word # "ENTITY"
        \/ dm = dl
    BY <1>1 DEF DeclAfter, Outside, OtherMoves, Ready, Phase
  <2>2. dm \in Seq(Tokens) /\ Len(dm) < 2 /\ (Len(dm) = 1 => dm[1].word # "ENTITY")
    <3>1. <<>> \in Seq(Tokens) /\ Len(<<>>) = 0
      OBVIOUS
    <3>2. <<t>> \in Seq(Tokens) /\ Len(<<t>>) = 1 /\ <<t>>[1] = t
      OBVIOUS
    <3>3. dl \in Seq(Tokens) /\ Len(dl) < 2 /\ (Len(dl) = 1 => dl[1].word # "ENTITY")
      BY <1>1 DEF Outside, Ready, Phase
    <3> HIDE DEF dm
    <3>4. CASE dm = <<>>
      BY <3>1, <3>4
    <3>5. CASE dm = <<t>> /\ t.word # "ENTITY"
      <4>1. dm[1].word = t.word
        BY <3>2, <3>5
      <4>2. QED BY <3>2, <3>5, <4>1
    <3>6. CASE dm = dl
      BY <3>3, <3>6
    <3>7. QED BY <2>1, <3>4, <3>5, <3>6
  <2> HIDE DEF dm
  <2>3. Outside(x, dm, de)
    BY <1>4, <1>6, <2>2 DEF Outside
  <2>4. QED BY <1>5, <1>8, <2>2, <2>3 DEF After, GoodEntities, Phase, Ready, x, dm
<1>9. QED BY <1>7, <1>8

LEMMA BeginStep ==
  ASSUME NEW s, NEW e, NEW dl, NEW de, NEW t \in Tokens, Ready(s, e, dl, de), NEW role,
         BeginMoves(s.handler, t.tok, t.word, e.handler, role)
  PROVE  After(s, Act(e, role, t), dl, de, t)
<1> DEFINE x == Act(e, role, t)
           dm == Append(dl, t)
<1>0. /\ dl \in Seq(Tokens) /\ de \in Seq(Declarations) /\ IsState(e) /\ e.err = "NONE"
      /\ e.ents = s.ents /\ e.declE = s.declE /\ e.complete = s.complete
  BY DEF Ready, Phase, Same
<1>1. /\ Len(dm) = Len(dl) + 1 /\ Len(dl) \in Nat /\ dm[Len(dl) + 1] = t
      /\ \A i \in 1..Len(dl) : dm[i] = dl[i]
  BY <1>0, Appended
<1>2. Act(e, "NONE", t) = e
  BY DEF Act
<1>3. CASE /\ s.handler = "internalSubset" /\ t.tok = "DECL_OPEN" /\ t.word = "ENTITY"
           /\ e.handler = "entity0" /\ role = "NONE"
  <2>1. x = e
    BY <1>2, <1>3
  <2> HIDE DEF x, dm
  <2>2. Outside(s, dl, de)
    BY <1>3 DEF Ready, Phase, InEntity, InParam, Begun, ParamPlaces
  <2>3. DeclAfter(e, dl, t) = <<t>> /\ DeclaredAfter(s, e, dl, de, t) = de
    BY <1>0, <1>3 DEF DeclAfter, DeclaredAfter
  <2>4. <<t>> \in Seq(Tokens) /\ Len(<<t>>) = 1 /\ <<t>>[1] = t
    OBVIOUS
  <2>5. Begun(e, <<t>>, de)
    BY <1>0, <1>3, <2>2, <2>4 DEF Begun, Outside
  <2>6. After(s, e, dl, de, t)
    BY <1>0, <1>3, <2>3, <2>4, <2>5 DEF After, GoodEntities, Phase
  <2>7. QED BY <2>1, <2>6 DEF x
<1>4. CASE s.handler = "entity0" /\ t.tok = "PERCENT" /\ e.handler = "entity1" /\ role = "NONE"
  <2>1. x = e
    BY <1>2, <1>4
  <2> HIDE DEF x, dm
  <2>2. Begun(s, dl, de)
    BY <1>4 DEF Ready, Phase, InEntity, InParam, Outside, EntityPlaces, ParamPlaces
  <2>3. InParam(e, dm, de)
    BY <1>0, <1>1, <1>4, <2>2 DEF Begun, InParam
  <2>4. After(s, e, dl, de, t)
    BY <1>0, <1>4, <2>2, <2>3, Continues DEF Begun, dm
  <2>5. QED BY <2>1, <2>4 DEF x
<1>5. CASE /\ s.handler = "entity0" /\ t.tok = "NAME" /\ e.handler = "entity2"
           /\ role = "GENERAL_ENTITY_NAME"
  <2> DEFINE n == t.word
  <2>1. x = NameEntity(e, n)
    BY <1>5 DEF Act
  <2>2. /\ x.handler = "entity2" /\ x.err = "NONE" /\ x.complete = e.complete
        /\ n \in Predefined \/ ~e.complete \/ n \in DOMAIN e.ents =>
             x.declE = None /\ x.ents = e.ents
        /\ n \notin Predefined /\ e.complete /\ n \notin DOMAIN e.ents =>
             x.declE = n /\ x.ents = Added(e.ents, n, NewEntity)
    BY <1>0, <1>5, <2>1, NameIs
  <2> HIDE DEF x, dm
  <2>3. Begun(s, dl, de)
    BY <1>5 DEF Ready, Phase, InEntity, InParam, Outside, EntityPlaces, ParamPlaces
  <2>4. Len(dm) = 2 /\ dm[1].word = "ENTITY" /\ dm[2] = t /\ Table(e.ents, de)
    BY <1>0, <1>1, <2>3 DEF Begun
  <2>5. Entry(x, dm, de, None, None)
    <3>1. CASE n \in Predefined \/ ~e.complete \/ n \in DOMAIN e.ents
      BY <1>5, <2>2, <2>4, <3>1 DEF Entry, Table
    <3>2. CASE ~(n \in Predefined \/ ~e.complete \/ n \in DOMAIN e.ents)
      <4> DEFINE f == e.ents
                 g == Added(f, n, NewEntity)
      <4>1. /\ DOMAIN g = DOMAIN f \cup {n} /\ g[n] = NewEntity
            /\ \A k \in DOMAIN f : k # n => g[k] = f[k]
        BY DEF Added
      <4>2. /\ DOMAIN NewEntity = EntityFields
            /\ NewEntity.text = None /\ NewEntity.system = None
        BY DEF NewEntity, EntityFields
      <4> HIDE DEF f, g
      <4>3. DOMAIN f = Names(de) /\ Entities(f) /\ Wins(f, de) /\ n \notin DOMAIN f
        BY <2>4, <3>2 DEF Table, f
      <4>4. Entities(g)
        BY <4>1, <4>2, <4>3 DEF Entities
      <4>5. Wins(g, de)
        BY <4>1, <4>3 DEF Wins, Names
      <4>6. x.ents = g /\ x.declE = n /\ x.complete /\ n \notin Predefined
        BY <2>2, <3>2 DEF f, g
      <4>7. n # None
        BY NamesAssumption
      <4>8. QED BY <1>5, <2>4, <4>1, <4>2, <4>3, <4>4, <4>5, <4>6, <4>7 DEF Entry
    <3>3. QED BY <3>1, <3>2
  <2>6. InEntity(x, dm, de)
    BY <2>2, <2>4, <2>5 DEF InEntity
  <2>7. QED BY <1>0, <1>5, <2>2, <2>3, <2>6, Continues DEF Begun, x, dm
<1>6. CASE /\ s.handler = "entity1" /\ t.tok = "NAME" /\ e.handler = "entity7"
           /\ role = "PARAM_ENTITY_NAME"
  <2>1. x = [e EXCEPT !.declE = None]
    BY <1>6 DEF Act, NameParamEntity
  <2>2. x.handler = "entity7" /\ x.err = "NONE" /\ x.declE = None /\ x.ents = s.ents
    BY <1>0, <1>6, <2>1 DEF IsState, Fields
  <2> HIDE DEF x, dm
  <2>3. InParam(s, dl, de)
    BY <1>6 DEF Ready, Phase, InEntity, Begun, Outside, EntityPlaces, ParamPlaces
  <2>4. InParam(x, dm, de)
    BY <1>0, <1>1, <2>2, <2>3 DEF InParam, ParamPlaces
  <2>5. QED BY <1>0, <1>6, <2>2, <2>3, <2>4, Continues DEF InParam, x, dm
<1>7. CASE /\ s.handler \in ParamPlaces /\ t.tok \in {"NAME", "LITERAL"}
           /\ e.handler \in {"entity8", "entity9", "declClose"} /\ role \in FillRoles \cup {"NONE"}
  <2>1. \/ x = e
        \/ \E f, v : Filled(e, x, f, v)
    BY <1>0, <1>2, <1>7, RoleFillsSome
  <2> HIDE DEF x, dm
  <2>2. InParam(s, dl, de)
    BY <1>7 DEF Ready, Phase, InEntity, Begun, Outside, EntityPlaces, ParamPlaces
  <2>3. Table(s.ents, de) /\ s.declE = None
    BY <1>7, <2>2 DEF InParam, ParamPlaces
  <2>4. x.handler = e.handler
    BY <2>1 DEF Filled, Fills, Spares
  <2>5. x.err # "NONE" \/ (x.err = "NONE" /\ Table(x.ents, de) /\ x.declE = None)
    <3>1. CASE x = e
      BY <1>0, <2>3, <3>1
    <3>2. ASSUME NEW f, NEW v, Filled(e, x, f, v)
          PROVE  x.err # "NONE" \/ (x.err = "NONE" /\ Table(x.ents, de) /\ x.declE = None)
      <4>1. CASE Fills(e, x, f, v)
        BY <1>0, <2>3, <4>1, TableFilled
      <4>2. QED BY <3>2, <4>1 DEF Filled
    <3>3. QED BY <2>1, <3>1, <3>2
  <2>6. Len(dm) > 1 /\ dm[1].word = "ENTITY" /\ dm[2].tok = "PERCENT"
    BY <1>1, <2>2 DEF InParam
  <2>7. x.handler \in ParamPlaces \cup {"declClose"}
    BY <1>7, <2>4 DEF ParamPlaces
  <2>8. x.err # "NONE" \/ InParam(x, dm, de)
    BY <2>5, <2>6, <2>7 DEF InParam
  <2>9. Len(dl) > 0 /\ dl[1].word = "ENTITY" /\ x.handler # "internalSubset"
    BY <1>1, <1>7, <2>2, <2>4 DEF InParam
  <2>10. QED BY <1>0, <1>7, <2>8, <2>9, Continues DEF x, dm
<1>8. QED BY <1>3, <1>4, <1>5, <1>6, <1>7 DEF BeginMoves

\* The name of the entity is the second token whatever follows.
LEMMA EntryGrows ==
  ASSUME NEW s, NEW x, NEW dl \in Seq(Tokens), NEW t \in Tokens, NEW de, NEW text, NEW system,
         Entry(s, dl, de, text, system), Same(s, x), Len(dl) > 1
  PROVE  Entry(x, Append(dl, t), de, text, system)
<1>1. Append(dl, t)[1] = dl[1] /\ Append(dl, t)[2] = dl[2]
  BY Appended
<1>2. QED BY <1>1, EntrySame

LEMMA GeneralStep ==
  ASSUME NEW s, NEW e, NEW dl, NEW de, NEW t \in Tokens, Ready(s, e, dl, de), NEW role,
         GeneralMoves(s.handler, t.tok, t.word, e.handler, role)
  PROVE  After(s, Act(e, role, t), dl, de, t)
<1> DEFINE x == Act(e, role, t)
           dm == Append(dl, t)
<1>0. /\ dl \in Seq(Tokens) /\ de \in Seq(Declarations) /\ IsState(e) /\ e.err = "NONE" /\ Same(s, e)
  BY DEF Ready, Phase
<1>1. /\ Len(dm) = Len(dl) + 1 /\ Len(dl) \in Nat /\ dm[Len(dl) + 1] = t
      /\ \A i \in 1..Len(dl) : dm[i] = dl[i]
  BY <1>0, Appended
<1>2. InEntity(s, dl, de)
  BY DEF GeneralMoves, Ready, Phase, InParam, Begun, Outside, EntityPlaces, ParamPlaces
<1>3. /\ Len(dl) > 1 /\ dl[1].word = "ENTITY" /\ t.tok \notin {"DECL_OPEN", "PROLOG_S", "DECL_CLOSE"}
      /\ e.handler \notin {"internalSubset", "error"}
  BY <1>2 DEF InEntity, Entry, Whole, GeneralMoves
<1>4. \A text, system : Entry(s, dl, de, text, system) => Entry(e, dm, de, text, system)
  BY <1>0, <1>3, EntryGrows
<1> HIDE DEF dm, x
\* It is enough that the token leads to a place of the declaration, or to an error.
<1>5. ASSUME x.handler = e.handler, x.err # "NONE" \/ InEntity(x, dm, de)
      PROVE  After(s, x, dl, de, t)
  BY <1>0, <1>3, <1>5, Continues DEF dm
<1>6. \A field \in EntityFields : \A value, text, system :
        Filled(e, x, field, value) /\ Entry(e, dm, de, text, system) =>
          /\ x.handler = e.handler
          /\ \/ x.err # "NONE"
             \/ Entry(x, dm, de, IF field = "text" THEN value ELSE text,
                                 IF field = "system" THEN value ELSE system)
  BY EntryFilled DEF Filled, Fills, Spares
<1>7. ASSUME NEW text, NEW system, Entry(e, dm, de, text, system), role = "NONE"
      PROVE  x.handler = e.handler /\ Entry(x, dm, de, text, system)
  BY <1>7 DEF x, Act
<1>8. CASE /\ s.handler = "entity2" /\ t.tok = "NAME" /\ t.word = "SYSTEM"
           /\ e.handler = "entity4" /\ role = "NONE"
  <2>1. Len(dl) = 2 /\ Entry(s, dl, de, None, None)
    BY <1>2, <1>8 DEF InEntity
  <2>2. Len(dm) = 3 /\ dm[3] = t
    BY <1>1, <2>1
  <2>3. x.handler = e.handler /\ Entry(x, dm, de, None, None)
    BY <1>4, <1>7, <1>8, <2>1
  <2>4. InEntity(x, dm, de)
    BY <1>8, <2>2, <2>3 DEF InEntity
  <2>5. QED BY <1>5, <2>3, <2>4 DEF x
<1>9. CASE /\ s.handler = "entity2" /\ t.tok = "NAME" /\ t.word = "PUBLIC"
           /\ e.handler = "entity3" /\ role = "NONE"
  <2>1. Len(dl) = 2 /\ Entry(s, dl, de, None, None)
    BY <1>2, <1>9 DEF InEntity
  <2>2. Len(dm) = 3 /\ dm[3] = t
    BY <1>1, <2>1
  <2>3. x.handler = e.handler /\ Entry(x, dm, de, None, None)
    BY <1>4, <1>7, <1>9, <2>1
  <2>4. InEntity(x, dm, de)
    BY <1>9, <2>2, <2>3 DEF InEntity
  <2>5. QED BY <1>5, <2>3, <2>4 DEF x
<1>10. CASE /\ s.handler = "entity2" /\ t.tok = "LITERAL"
            /\ e.handler = "declClose" /\ role = "ENTITY_VALUE"
  <2> DEFINE text == EntValue(t.lit).text
  <2>1. Len(dl) = 2 /\ Entry(s, dl, de, None, None)
    BY <1>2, <1>10 DEF InEntity
  <2>2. Len(dm) = 3 /\ dm[3] = t
    BY <1>1, <2>1
  <2>3. Filled(e, x, "text", text)
    BY <1>0, <1>10, RoleFills DEF x
  <2> HIDE DEF text
  <2>4. x.handler = e.handler /\ (x.err # "NONE" \/ Entry(x, dm, de, text, None))
    BY <1>4, <1>6, <2>1, <2>3 DEF EntityFields
  <2>5. Whole(dm) /\ Declared(dm).text = text /\ Declared(dm).system = None
    BY <1>10, <2>2 DEF Whole, Declared, text
  <2>6. x.err # "NONE" \/ InEntity(x, dm, de)
    BY <1>10, <2>4, <2>5 DEF InEntity
  <2>7. QED BY <1>5, <2>4, <2>6 DEF x
<1>11. CASE /\ s.handler = "entity3" /\ t.tok = "LITERAL"
            /\ e.handler = "entity4" /\ role = "ENTITY_PUBLIC_ID"
  <2>1. Len(dl) = 3 /\ dl[3].tok = "NAME" /\ dl[3].word = "PUBLIC" /\ Entry(s, dl, de, None, None)
    BY <1>2, <1>11 DEF InEntity
  <2>2. Len(dm) = 4 /\ dm[3] = dl[3]
    BY <1>1, <2>1
  <2>3. PICK v : Filled(e, x, "public", v)
    BY <1>0, <1>11, RoleFills DEF x
  <2>4. x.handler = e.handler /\ (x.err # "NONE" \/ Entry(x, dm, de, None, None))
    BY <1>4, <1>6, <2>1, <2>3 DEF EntityFields
  <2>5. x.err # "NONE" \/ InEntity(x, dm, de)
    BY <1>11, <2>1, <2>2, <2>4 DEF InEntity
  <2>6. QED BY <1>5, <2>4, <2>5 DEF x
<1>12. CASE /\ s.handler = "entity4" /\ t.tok = "LITERAL"
            /\ e.handler = "entity5" /\ role = "ENTITY_SYSTEM_ID"
  <2>1. /\ dl[3].tok = "NAME" /\ Entry(s, dl, de, None, None)
        /\ \/ Len(dl) = 3 /\ dl[3].word = "SYSTEM"
           \/ Len(dl) = 4 /\ dl[3].word = "PUBLIC"
    BY <1>2, <1>12 DEF InEntity
  <2>2. /\ dm[3] = dl[3]
        /\ Len(dl) = 3 => Len(dm) = 4 /\ dm[4] = t
        /\ Len(dl) = 4 => Len(dm) = 5 /\ dm[5] = t
    <3>1. \A k \in Nat : Len(dl) = k => dm[k + 1] = t /\ Len(dm) = k + 1
      BY <1>1
    <3>2. 3 \in 1..Len(dl)
      BY <1>1, <2>1
    <3>3. dm[3] = dl[3]
      BY <1>1, <3>2
    <3>4. Len(dl) = 3 => Len(dm) = 4 /\ dm[4] = t
      <4>1. 3 \in Nat /\ 3 + 1 = 4
        OBVIOUS
      <4>2. Len(dl) = 3 => dm[3 + 1] = t /\ Len(dm) = 3 + 1
        BY <3>1, <4>1
      <4>3. QED BY <4>1, <4>2
    <3>5. Len(dl) = 4 => Len(dm) = 5 /\ dm[5] = t
      <4>1. 4 \in Nat /\ 4 + 1 = 5
        OBVIOUS
      <4>2. Len(dl) = 4 => dm[4 + 1] = t /\ Len(dm) = 4 + 1
        BY <3>1, <4>1
      <4>3. QED BY <4>1, <4>2
    <3>6. QED BY <3>3, <3>4, <3>5
  <2>3. Filled(e, x, "system", t.lit)
    BY <1>0, <1>12, RoleFills DEF x
  <2>4. x.handler = e.handler /\ (x.err # "NONE" \/ Entry(x, dm, de, None, t.lit))
    BY <1>4, <1>6, <2>1, <2>3 DEF EntityFields
  <2>5. Whole(dm) /\ Declared(dm).text = None /\ Declared(dm).system = t.lit
    BY <2>1, <2>2 DEF Whole, Declared
  <2>6. x.err # "NONE" \/ InEntity(x, dm, de)
    BY <1>12, <2>4, <2>5 DEF InEntity
  <2>7. QED BY <1>5, <2>4, <2>6 DEF x
<1>13. ASSUME s.handler \in {"entity5", "entity6"}
       PROVE  Whole(dm) /\ Entry(e, dm, de, Declared(dm).text, Declared(dm).system)
  <2>1. Whole(dl) /\ Entry(s, dl, de, Declared(dl).text, Declared(dl).system)
    BY <1>2, <1>13 DEF InEntity
  <2>2. Whole(dm) /\ Declared(dm) = Declared(dl)
    BY <1>0, <2>1, WholeStays DEF dm
  <2>3. QED BY <1>4, <2>1, <2>2
<1>14. CASE /\ s.handler = "entity5" /\ t.tok = "NAME" /\ e.handler = "entity6" /\ role = "NONE"
  <2>1. x.handler = e.handler /\ Entry(x, dm, de, Declared(dm).text, Declared(dm).system)
    BY <1>7, <1>13, <1>14
  <2>2. InEntity(x, dm, de)
    BY <1>13, <1>14, <2>1 DEF InEntity
  <2>3. QED BY <1>5, <2>1, <2>2 DEF x
<1>15. CASE /\ s.handler = "entity6" /\ t.tok = "NAME"
            /\ e.handler = "declClose" /\ role = "ENTITY_NOTATION_NAME"
  <2>1. Filled(e, x, "notation", t.word)
    BY <1>0, <1>15, RoleFills DEF x
  <2>2. /\ x.handler = e.handler
        /\ x.err # "NONE" \/ Entry(x, dm, de, Declared(dm).text, Declared(dm).system)
    BY <1>6, <1>13, <1>15, <2>1 DEF EntityFields
  <2>3. x.err # "NONE" \/ InEntity(x, dm, de)
    BY <1>13, <1>15, <2>2 DEF InEntity
  <2>4. QED BY <1>5, <2>2, <2>3 DEF x
<1>16. QED BY <1>8, <1>9, <1>10, <1>11, <1>12, <1>14, <1>15 DEF GeneralMoves, x

\* One round of prologProcessor.
LEMMA EntityStep ==
  ASSUME NEW s, GoodState(s), s.handler # "error", s.err = "NONE",
         NEW dl, NEW de, GoodEntities(s, dl, de), NEW t \in Tokens
  PROVE  After(s, PrologStep(s, t), dl, de, t)
<1> DEFINE m == XmlTokenRole(s.handler, s.level, t.tok, t.word)
           e == [s EXCEPT !.handler = m.handler, !.level = m.level]
           x == Act(e, m.role, t)
<1>1. PrologStep(s, t) = x
  BY DEF PrologStep
<1>2. Ready(s, e, dl, de) /\ e.handler = m.handler
  BY DEF GoodState, IsState, Fields, Ready, Same, GoodEntities
<1>3. \/ t.tok = "PROLOG_S" /\ m.handler = s.handler /\ m.role = "NONE"
      \/ m.handler = "error" /\ m.role = "ERROR"
      \/ EntityMoves(s.handler, t.tok, t.word, m.handler, m.role)
  BY TokenMovesEntity DEF GoodState
<1> HIDE DEF m, e
<1>4. Act(e, "NONE", t) = e
  BY DEF Act
<1>5. CASE t.tok = "PROLOG_S" /\ m.handler = s.handler /\ m.role = "NONE"
  BY <1>1, <1>2, <1>4, <1>5, SpaceStep
<1>6. CASE m.handler = "error" /\ m.role = "ERROR"
  <2>1. x.err # "NONE" /\ x.handler = "error"
    BY <1>2, <1>6, StopIs DEF Ready
  <2>2. QED BY <1>1, <2>1, Stopped
<1>7. CASE GeneralMoves(s.handler, t.tok, t.word, m.handler, m.role)
  BY <1>1, <1>2, <1>7, GeneralStep
<1>8. CASE BeginMoves(s.handler, t.tok, t.word, m.handler, m.role)
  BY <1>1, <1>2, <1>8, BeginStep
<1>9. CASE OtherMoves(s.handler, t.tok, t.word, m.handler, m.role)
  BY <1>1, <1>2, <1>9, OtherStep
<1>10. CASE /\ s.handler \in {"entity5", "declClose"} /\ t.tok = "DECL_CLOSE"
            /\ m.handler = "internalSubset" /\ m.role = "NONE"
  BY <1>1, <1>2, <1>4, <1>10, CloseStep
<1>11. CASE m.handler = "error" /\ m.role = "INSTANCE_START"
  <2>1. Act(e, "INSTANCE_START", t) = [e EXCEPT !.complete = @ /\ ~e.external]
    BY DEF Act
  <2>2. x.handler = "error"
    BY <1>2, <1>11, <2>1 DEF Ready, IsState, Fields
  <2>3. QED BY <1>1, <2>2, Stopped
<1>12. QED BY <1>3, <1>5, <1>6, <1>7, <1>8, <1>9, <1>10, <1>11 DEF EntityMoves

-----------------------------------------------------------------------------
\* The theorem

EntityInv == GoodEntities(d, decl, declared)

LEMMA InitEntity == Init => EntityInv
<1> SUFFICES ASSUME Init PROVE EntityInv
  OBVIOUS
<1>1. /\ d.handler = "prolog0" /\ d.err = "NONE" /\ d.ents = [n \in {} |-> NewEntity]
      /\ decl = <<>> /\ declared = <<>>
  BY DEF Init, PrologInit
<1>2. /\ <<>> \in Seq(Tokens) /\ <<>> \in Seq(Declarations) /\ Len(<<>>) = 0
      /\ DOMAIN <<>> = {}
  OBVIOUS
<1>3. Table(d.ents, <<>>)
  BY <1>1, <1>2 DEF Table, Names, Entities, Wins
<1>4. Outside(d, decl, declared)
  BY <1>1, <1>2, <1>3 DEF Outside, EntityPlaces, ParamPlaces
<1>5. QED BY <1>1, <1>2, <1>4 DEF EntityInv, GoodEntities, Phase

LEMMA StepEntity ==
  ASSUME GroupInv, EntityInv, [Next]_vars
  PROVE  EntityInv'
<1>1. CASE Next
  <2>1. PICK t \in Tokens : Read(t) /\ d.err = "NONE" /\ d.handler # "error"
    BY <1>1 DEF Next
  <2>2. After(d, d', decl, declared, t)
    BY <2>1, EntityStep DEF GroupInv, EntityInv, Read
  <2>3. decl' = DeclAfter(d', decl, t) /\ declared' = DeclaredAfter(d, d', decl, declared, t)
    BY <2>1 DEF Read, DeclAfter, DeclaredAfter
  <2>4. QED BY <2>2, <2>3 DEF After, EntityInv
<1>2. CASE UNCHANGED vars
  BY <1>2 DEF vars, EntityInv
<1>3. QED BY <1>1, <1>2

\* Whatever the declarations of a document are, and in whatever order parameter
\* entities and predefined names come between them: of several declarations of a
\* general entity the first is the one in the table, in full, and it stays.
THEOREM DeclaredOnce == Spec => []FirstDeclarationWins
<1>1. EntityInv => FirstDeclarationWins
  <2> SUFFICES ASSUME EntityInv, d.handler = "internalSubset"
               PROVE  /\ DOMAIN d.ents = {declared[i].name : i \in DOMAIN declared}
                      /\ \A i \in DOMAIN declared :
                           (\A j \in 1..(i - 1) : declared[j].name # declared[i].name) =>
                             /\ d.ents[declared[i].name].text = declared[i].text
                             /\ d.ents[declared[i].name].system = declared[i].system
    BY DEF FirstDeclarationWins
  <2>1. Outside(d, decl, declared)
    BY DEF EntityInv, GoodEntities, Phase, InEntity, InParam, Begun, ParamPlaces
  <2>2. QED BY <2>1 DEF Outside, Table, Names, Wins, IsFirst
<1>2. QED BY InitGood, StepInv, InitEntity, StepEntity, <1>1, PTL DEF Spec
=============================================================================
