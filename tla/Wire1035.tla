------------------------------ MODULE Wire1035 ------------------------------
(***************************************************************************)
(* The messages of src/dns/1035.c: a client appends questions and records, *)
(* whose names are compressed by a table of the labels already written,    *)
(* and a receiver parses the packet.  Bytes are numbers, offsets start at  *)
(* 0, names are sequences of bytes with dots between their labels.         *)
(***************************************************************************)
EXTENDS Integers, Sequences, FiniteSets

CONSTANTS
  Names,       \* the names a client uses
  HostTypes,   \* the types of records that hold a name: some of NS, CNAME, PTR
  Texts,       \* the data of TXT records
  Used,        \* the sections of records that a client fills
  Headers,     \* the headers: [id, bits, count of flags as in message_packet]
  TableLimit,  \* where _host stops filling the table of labels (19)
  CacheSize,   \* the names message_parse remembers (20)
  MaxPacket,   \* MAX_PACKET_LEN (4000)
  MaxRecords   \* bound: questions and records of a message

Dot == 46
A == 1
NS == 2
CNAME == 5
PTR == 12
SRV == 33
TXT == 16
Hosts == {NS, CNAME, PTR}  \* the types whose data is a name
QuestionSize == 16   \* sizeof(struct question), with 64-bit pointers
ResourceSize == 56   \* sizeof(struct resource)

short2net(i) == <<(i \div 256) % 256, i % 256>>
long2net(l) == short2net(l \div 65536) \o short2net(l)

\* A packet is followed by zeroes.
Byte(p, o) == IF o < Len(p) THEN p[o + 1] ELSE 0
net2short(p, o) == 256 * Byte(p, o) + Byte(p, o + 1)
net2long(p, o) == 65536 * net2short(p, o) + net2short(p, o + 2)
Bytes(p, o, n) == [k \in 1..n |-> Byte(p, o + k - 1)]

IsPointer(byte) == byte >= 64

Least(i, j) == IF i <= j THEN i ELSE j

\* The top two bits of a pointer are flipped, not masked.
Flipped(b) == IF b < 128 THEN b + 64 ELSE IF b < 192 THEN b - 64 ELSE b - 192

\* Where the pointer at o leads.
ldecomp(p, o) == Least(256 * Flipped(Byte(p, o)) + Byte(p, o + 1), 4095)

-----------------------------------------------------------------------------
(* Building. *)

\* The labels of a name, each after its length; a dot at the end adds none.
Labels(name) ==
  LET enc[i \in 1..(Len(name) + 2)] ==
        IF i > Len(name) THEN <<>>
        ELSE LET dots == {k \in i..Len(name) : name[k] = Dot}
                 j == IF dots = {} THEN Len(name) + 1 ELSE CHOOSE k \in dots : \A h \in dots : k <= h
             IN  <<j - i>> \o SubSeq(name, i, j - 1) \o enc[j + 1]
  IN  enc[1]

\* Where the label at q is read from: while a message is built, m->_buf is not
\* its start but where its next byte goes.
Followed(p, q) == IF IsPointer(Byte(p, q)) THEN Len(p) + ldecomp(p, q) ELSE q

\* A mutant: a label is enough, what follows it is not compared.
lmatchFirst(label, x, p, o) == \A k \in 0..label[x + 1] : label[x + k + 1] = Byte(p, o + k)

\* A mutant: only whole names are looked for, not their ends.
lmatchWhole(label, x, p, o) ==
  x = 0 /\ \A k \in 0..(Len(label) - 2) : Byte(label, k) = Byte(p, o + k)

\* _lmatch: the labels of label from x on are those of the packet from o on.
lmatch(label, x, p, o) ==
  LET same[i \in 0..Len(label), q \in 0..(2 * 4096)] ==
        LET to == Followed(p, q)
            n == Byte(label, i)
        IN  /\ \A k \in 0..n : Byte(label, i + k) = Byte(p, to + k)
            /\ \/ Byte(label, i + n + 1) = 0 /\ Byte(p, to + n + 1) = 0
               \/ /\ Byte(label, i + n + 1) # 0 \/ Byte(p, to + n + 1) # 0
                  /\ same[i + n + 1, to + n + 1]
  IN  same[x, o]

\* Where the labels of a label sequence begin.
Starts(label) ==
  LET from[x \in 0..Len(label)] == IF x >= Len(label) THEN <<>> ELSE <<x>> \o from[x + label[x + 1] + 1]
  IN  from[0]

\* The entries of the table that label may point to from x on.  stray is what
\* follows the labels in the array on the stack, which nobody wrote: a zero, or
\* a byte that no label begins with (a pointer is read as a zero).
Known(m, label, x, stray) ==
  {y \in DOMAIN m.labels : lmatch(label \o <<0, stray>>, x, m.buf, m.labels[y])}

\* The labels before cut are written and go into the table while it has room;
\* end is a zero or a pointer.
Write(m, label, cut, end) ==
  LET new == SelectSeq(Starts(label), LAMBDA x : x < cut)
      full == Least(Len(m.labels) + Len(new), TableLimit - 1)
  IN  [m EXCEPT !.buf = @ \o SubSeq(label, 1, cut) \o end,
                !.labels = @ \o [k \in 1..(full - Len(@)) |-> Len(m.buf) + new[k]]]

\* The longest end of the name that the table knows becomes a pointer.
Compress(m, label, stray) ==
  LET hits == SelectSeq(Starts(label), LAMBDA x : Known(m, label, x, stray) # {})
      first(ys) == CHOOSE y \in ys : \A z \in ys : y <= z
      to == m.labels[first(Known(m, label, hits[1], stray))]
  IN  IF Len(label) >= 256 THEN m
      ELSE IF hits = <<>> THEN Write(m, label, Len(label), <<0>>)
      ELSE Write(m, label, hits[1], <<192 + (to \div 256), to % 256>>)

\* _host
host(m, name, stray) == Compress(m, Labels(name), stray)

Put(m, bytes) == [m EXCEPT !.buf = @ \o bytes]

message_qd(m, name, type, class, stray) ==
  Put(host([m EXCEPT !.count["qd"] = @ + 1], name, stray), short2net(type) \o short2net(class))

\* message_an, message_ns and message_ar.
rrappend(m, sec, name, type, class, ttl, stray) ==
  Put(host([m EXCEPT !.count[sec] = @ + 1], name, stray), short2net(type) \o short2net(class) \o long2net(ttl))

rdata_long(m, l) == Put(m, short2net(4) \o long2net(l))
rdata_raw(m, data) ==
  LET n == IF Len(m.buf) + Len(data) > 4096 THEN 0 ELSE Len(data)
  IN  Put(m, short2net(n) \o SubSeq(data, 1, n))

\* The length of what follows the first at bytes.
Length(m, at) == short2net(Len(m.buf) - at)

\* A mutant: no room was left, the offsets in the table are too low by two.
rdata_nameEarly(m, fields, name, stray) ==
  LET Squeeze(m2, at) == [m2 EXCEPT !.buf = SubSeq(@, 1, at) \o Length(m2, at) \o SubSeq(@, at + 1, Len(@))]
  IN  Squeeze(host(Put(m, fields), name, stray), Len(m.buf))

\* message_rdata_name and, with three fields before the name, message_rdata_srv:
\* room for the length is left in front and filled when the name is written.
rdata_name(m, fields, name, stray) ==
  LET Fill(m2, at) == [m2 EXCEPT !.buf = SubSeq(@, 1, at) \o Length(m2, at + 2) \o SubSeq(@, at + 3, Len(@))]
  IN  Fill(host(Put(m, <<0, 0>> \o fields), name, stray), Len(m.buf))

Bit(b) == IF b THEN 1 ELSE 0

\* message_packet: the header goes in front of what was appended.
message_packet(m) ==
  LET h == m.header
  IN  short2net(h.id)
      \o <<128 * Bit(h.qr) + 8 * h.opcode + 4 * Bit(h.aa) + 2 * Bit(h.tc) + Bit(h.rd),
           128 * Bit(h.ra) + 16 * h.z + h.rcode>>
      \o short2net(m.count["qd"]) \o short2net(m.count["an"])
      \o short2net(m.count["ns"]) \o short2net(m.count["ar"])
      \o SubSeq(m.buf, 13, Len(m.buf))

-----------------------------------------------------------------------------
(* Parsing.  r is the message being filled: where it reads (at), the memory  *)
(* it used (len), the names it remembers, what it found, and whether it gave *)
(* up because there was no room.                                             *)

\* The expanded name at o: [ok, text], text with a dot after every label.
Expand(p, o, len) ==
  LET follow[q \in 0..4096] ==
        IF ~IsPointer(Byte(p, q)) \/ Byte(p, ldecomp(p, q)) = 0
        THEN (IF IsPointer(Byte(p, q)) THEN ldecomp(p, q) ELSE q) ELSE follow[ldecomp(p, q)]
      name[q \in 0..4096, n \in 0..512] ==  \* n bytes of text came before
        LET l == follow[q]
            size == Byte(p, l)
            rest == name[l + size + 1, n + size + 1]
        IN  IF Byte(p, q) = 0 THEN [ok |-> TRUE, text |-> <<>>]
            ELSE IF n + size > 255 \/ len + n + size > 4096 THEN [ok |-> FALSE, text |-> <<>>]
            ELSE [rest EXCEPT !.text = Bytes(p, l + 1, size) \o <<Dot>> \o @]
  IN  name[o, 0]

\* The zero or the pointer that ends the labels at o.
LabelsEnd(p, o) ==
  LET skip[q \in 0..(2 * 4096)] ==
        IF Byte(p, q) = 0 \/ IsPointer(Byte(p, q)) THEN q ELSE skip[q + Byte(p, q) + 1]
  IN  skip[o]

\* The byte after the labels at o.
After(p, o) == LabelsEnd(p, o) + (IF Byte(p, LabelsEnd(p, o)) = 0 THEN 1 ELSE 2)

\* _label: a name that was seen before shares its memory; one that is too long
\* is left where it is, and nothing is skipped.
Remember(r, x, after) ==
  LET seen == \E k \in DOMAIN r.names : r.names[k] = x.text
  IN  IF ~x.ok THEN [r EXCEPT !.name = x.text]
      ELSE [r EXCEPT !.name = x.text,
                     !.at = after,
                     !.len = IF seen THEN @ ELSE @ + Len(x.text) + 1,
                     !.names = IF seen \/ Len(@) >= CacheSize THEN @ ELSE Append(@, x.text)]

label(r, p) == Remember(r, Expand(p, r.at, r.len), After(p, r.at))

\* my: memory in units of eight bytes.
Reserve(len, size) == len + ((-len) % 8) + size

Find(r, rr, data) == [r EXCEPT !.found = Append(@, [rr EXCEPT !.data = data])]

\* The switch over the types, at the n bytes of data.
rdata(r, p, rr, n) ==
  LET Named(r2, fields) == Find(r2, rr, fields \o r2.name)
  IN  CASE rr.type = A -> IF r.len + 16 > MaxPacket THEN [r EXCEPT !.full = TRUE]
                          ELSE Find([r EXCEPT !.at = @ + 4, !.len = @ + 16], rr, Bytes(p, r.at, 4))
        [] rr.type \in Hosts -> Named(label(r, p), <<>>)
        [] rr.type = SRV -> Named(label([r EXCEPT !.at = @ + 6], p), Bytes(p, r.at, 6))
        [] OTHER -> Find([r EXCEPT !.at = @ + n], rr, Bytes(p, r.at, n))

\* The fields behind the name of a record; the data is copied before it is read.
Fixed(r, p, sec, n) ==
  IF n + r.at + 10 > MaxPacket \/ r.len + n > MaxPacket THEN [r EXCEPT !.full = TRUE]
  ELSE rdata([r EXCEPT !.at = @ + 10, !.len = @ + n], p,
             [sec |-> sec, name |-> r.name, type |-> net2short(p, r.at), class |-> net2short(p, r.at + 2),
              ttl |-> net2long(p, r.at + 4), data |-> <<>>], n)

\* One record of _rrparse.
record(r, p, sec) ==
  LET Rest(r2) == Fixed(r2, p, sec, net2short(p, r2.at + 8))
  IN  IF r.full THEN r ELSE Rest(label(r, p))

Times(n, r, Step(_)) == LET upto[k \in 0..n] == IF k = 0 THEN r ELSE Step(upto[k - 1]) IN upto[n]

question(r, p) ==
  LET Rest(r2) == Find([r2 EXCEPT !.at = @ + 4],
                       [sec |-> "qd", name |-> r2.name, type |-> net2short(p, r2.at),
                        class |-> net2short(p, r2.at + 2), ttl |-> 0, data |-> <<>>], <<>>)
  IN  Rest(label(r, p))

ParsedHeader(p) ==
  LET a == Byte(p, 2)
      b == Byte(p, 3)
  IN  [id |-> net2short(p, 0), qr |-> a >= 128, opcode |-> (a \div 8) % 16, aa |-> (a \div 4) % 2 = 1,
       tc |-> (a \div 2) % 2 = 1, rd |-> a % 2 = 1, ra |-> b >= 128, z |-> (b \div 16) % 8, rcode |-> b % 16]

message_parse(p) ==
  LET qd == net2short(p, 4)
      an == net2short(p, 6)
      ns == net2short(p, 8)
      ar == net2short(p, 10)
      empty == [at |-> 12, len |-> 0, names |-> <<>>, name |-> <<>>, found |-> <<>>, full |-> FALSE]
      most == MaxPacket - 8
      r0 == [empty EXCEPT !.len = Reserve(@, QuestionSize * qd)]
      r1 == Times(qd, r0, LAMBDA r : question(r, p))
      r2 == [r1 EXCEPT !.len = Reserve(Reserve(Reserve(@, ResourceSize * an), ResourceSize * ns), ResourceSize * ar)]
      r3 == Times(an, r2, LAMBDA r : record(r, p, "an"))
      r4 == Times(ns, r3, LAMBDA r : record(r, p, "ns"))
  IN  IF QuestionSize * qd > most \/ \E n \in {an, ns, ar} : ResourceSize * n > most
      THEN [empty EXCEPT !.full = TRUE]
      ELSE Times(ar, r4, LAMBDA r : record(r, p, "ar"))

-----------------------------------------------------------------------------

VARIABLES
  m,     \* the message being built: header, count, buf and the table of labels
  said   \* history: what the client appended

vars == <<m, said>>

Sections == <<"qd", "an", "ns", "ar">>

Init ==
  /\ \E h \in Headers : m = [header |-> h, count |-> [s \in {"qd", "an", "ns", "ar"} |-> 0],
                             buf |-> [k \in 1..12 |-> 0], labels |-> <<>>]
  /\ said = <<>>

\* Names are written with a dot at the end or without, and parsed with one.
Dotted(name) == IF name = <<>> \/ name[Len(name)] = Dot THEN name ELSE Append(name, Dot)

Say(sec, name, type, class, ttl, data) ==
  said' = Append(said, [sec |-> sec, name |-> Dotted(name), type |-> type, class |-> class, ttl |-> ttl, data |-> data])

Stray == {0, 1}

Ask ==
  \E name \in Names, stray \in Stray :
    m' = message_qd(m, name, PTR, 32769, stray) /\ Say("qd", name, PTR, 32769, 0, <<>>)

Address(sec) ==
  \E name \in Names, stray \in Stray :
    /\ m' = rdata_long(rrappend(m, sec, name, A, 32769, 120, stray), 16909060)
    /\ Say(sec, name, A, 32769, 120, <<1, 2, 3, 4>>)

\* NS and CNAME records are written and read as PTR records are.
Pointer(sec) ==
  \E name, to \in Names, type \in HostTypes, stray, stray2 \in Stray :
    /\ m' = rdata_name(rrappend(m, sec, name, type, 1, 70000, stray), <<>>, to, stray2)
    /\ Say(sec, name, type, 1, 70000, Dotted(to))

Service(sec) ==
  \E name, to \in Names, stray, stray2 \in Stray :
    LET fields == short2net(0) \o short2net(0) \o short2net(5298) IN
    /\ m' = rdata_name(rrappend(m, sec, name, SRV, 32769, 120, stray), fields, to, stray2)
    /\ Say(sec, name, SRV, 32769, 120, fields \o Dotted(to))

Text(sec) ==
  \E name \in Names, data \in Texts, stray \in Stray :
    /\ m' = rdata_raw(rrappend(m, sec, name, TXT, 32769, 0, stray), data)
    /\ Say(sec, name, TXT, 32769, 0, data)

\* The sections are filled in their order (1035.h: "all called in order!").
Position(sec) == CHOOSE k \in 1..4 : Sections[k] = sec
Open(sec) == \A k \in DOMAIN said : Position(said[k].sec) <= Position(sec)

Next ==
  /\ Len(said) < MaxRecords
  /\ \/ Open("qd") /\ Ask
     \/ \E sec \in Used : Open(sec) /\ (Address(sec) \/ Pointer(sec) \/ Service(sec) \/ Text(sec))

Spec == Init /\ [][Next]_vars

-----------------------------------------------------------------------------

(* What a receiver parses is what the sender appended, record for record and
   in the same order, whatever its names share with the ones before and
   however full the table of labels was; and when memory runs out, what it
   parsed before is right. *)
ParsedAsBuilt ==
  LET p == message_packet(m)
      r == message_parse(p)
  IN  /\ ParsedHeader(p) = m.header
      /\ r.found = SubSeq(said, 1, Len(r.found))
      /\ ~r.full => r.found = said /\ r.at = Len(p)

(* Every pointer of the packet leads backwards, to a label that the table
   remembered: expanding a name ends. *)
PointersGoBack ==
  \A y \in DOMAIN m.labels :
    LET end == LabelsEnd(m.buf, m.labels[y]) IN
    IsPointer(Byte(m.buf, end)) =>
      /\ ldecomp(m.buf, end) < m.labels[y]
      /\ \E z \in 1..(y - 1) : m.labels[z] = ldecomp(m.buf, end)

(* A name that was written label by label and is in the table is not written
   that way again, so the table is not filled by the names everybody ends in. *)
WrittenOnce ==
  LET whole == {y \in DOMAIN m.labels : Byte(m.buf, LabelsEnd(m.buf, m.labels[y])) = 0}
      text == [y \in whole |-> Expand(m.buf, m.labels[y], 0).text]
  IN  \A y, z \in whole : text[y] = text[z] => y = z
=============================================================================
