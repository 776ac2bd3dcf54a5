--------------------------- MODULE MCXmlDocument ---------------------------
(***************************************************************************)
(* XmlDocument on documents that together use every token of content and   *)
(* the declarations of a small DTD, and fail in every way a parser built   *)
(* by expat.c can fail.                                                    *)
(***************************************************************************)
EXTENDS XmlDocument

WellFormed == {
  "<a>t\r\nu\r</a>\r",
  "<a b='1' c=\"x&amp;'\">&lt;q&#65;&apos;</a>",
  "<a><b/><c d='&quot;'>x]y]]z</c>t</a>",
  "<a><![CDATA[x]]y\r<&]]>z<![CDATA[]]></a> ",
  "<a~^>~^b</a~^>",
  "<a><?p q?><!-- - --></a >\n<?p?>",
  "<?xml version='1.0' standalone='yes'?> <a/>\r\n<!--c-->",
  "<!DOCTYPE a [<!ENTITY e 'p<b>q</b>'>]><a>&e;r&e;</a>",
  "<!DOCTYPE a [<!ENTITY e \"&#38;lt;\">]><a b='&e;'>&e;</a>",
  "<!DOCTYPE a [<!ATTLIST a i NMTOKEN ' x  y ' j CDATA 'z'>]><a j=' k' />",
  "<!DOCTYPE a [<!ATTLIST a i NMTOKEN #IMPLIED>]><a i='\tx&#32;\r\ny '/>",
  "<!DOCTYPE a [%p;<!ENTITY e 'x'>]><a b='&e;'>&e;</a>",
  "<!DOCTYPE a SYSTEM 's'><a>&v;</a>"}

Broken == {
  "", " ", "<", "<a>\r", "<a>x]]", "<a>x]]>y</a>", "<a></b>", "<a/><b/>", "<a b='1' b='2'/>",
  "<a>&u;</a>", "<a b='&u;'/>", "<a>\f</a>", "<a>&#0;</a>", "<a>~", "<a b='<'/>", "<a><![CDATA[x]]",
  "<a><?xml version='1.0'?></a>", "<?xml version='1.0' encoding='utf-16'?><a/>", "<?xml version='2'", 
  "<!DOCTYPE a [<!ENTITY e '&f;'><!ENTITY f '&e;'>]><a>&e;</a>",
  "<!DOCTYPE a [<!ENTITY e '<b>'>]><a>&e;</b></a>",
  "<!DOCTYPE a [<!ENTITY e '&e;'>]><a b='&e;'/>",
  "<!DOCTYPE a [<!ELEMENT a (b,(c|d,e))>]><a/>"}

MCDocs == WellFormed \union Broken

MCSizes == {1, 3, 11}
=============================================================================
