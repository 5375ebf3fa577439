----------------------------- MODULE ClientHello -----------------------------
(***************************************************************************)
(* The ClientHello record and what the methods make of it (zerodpi-core    *)
(* methods/sni.rs, tls_padding.rs, mixed_case_sni.rs, tls_record_split.rs, *)
(* sni_boundary_frag.rs, tls_record_frag.rs, ccs_prefix.rs).               *)
(*                                                                         *)
(* A record is a sequence of cells: every field of a fixed size is one     *)
(* cell holding its value, every other byte is a cell of its own, and      *)
(* lengths count cells.                                                    *)
(*                                                                         *)
(*   record     type, version, length, body                                *)
(*   handshake  type, length, body                                         *)
(*   body       random, session id, cipher suites, compression, extensions *)
(*   extension  type, data;  server_name data: list length, 0, name        *)
(*                                                                         *)
(* where session id, suites, compression, extensions, data and name each   *)
(* begin with a length cell. Offsets are zero-based, as in the code. An    *)
(* operator that returns an Option returns a set: the values it can        *)
(* return, none for None.                                                  *)
(***************************************************************************)
EXTENDS Integers, Sequences, SequencesExt, FiniteSets

RecordHeader == 3
HandshakeHeader == 2
ExtensionHeader == 2
HandshakeType == 22
CcsType == 20
HelloType == 1
SniType == 0
PaddingType == 21

\* &s[a..b]
Slice(s, a, b) == SubSeq(s, a + 1, b)

Take(s, n) == SubSeq(s, 1, n)
Drop(s, n) == SubSeq(s, n + 1, Len(s))

\* slice::chunks
Chunks(s, n) ==
  [i \in 1..((Len(s) + n - 1) \div n) |->
     SubSeq(s, (i - 1) * n + 1, IF i * n <= Len(s) THEN i * n ELSE Len(s))]

-----------------------------------------------------------------------------
(* Parsing *)

\* The offset behind the length-prefixed vector at p; an offset at or beyond
\* the end stays there, so that one test at the end finds every overrun.
Skip(body, p) == IF p < Len(body) THEN p + 1 + body[p + 1] ELSE p

\* The offset of the extension list's length cell: random, session id,
\* cipher suites and compression methods come first.
ExtensionsAt(body) == Skip(body, Skip(body, Skip(body, 1)))

\* The name an SNI extension's data holds: a list whose first entry is a
\* host_name that is not empty.
NameIn(data) ==
  IF /\ Len(data) >= 1 /\ 1 + data[1] <= Len(data)
     /\ data[1] >= 2 /\ data[2] = 0
     /\ data[3] > 0 /\ 2 + data[3] <= data[1]
  THEN {data[3]} ELSE {}

\* find_sni_boundary indexes the handshake length behind a message type it
\* has checked: a record body that ends there is out of bounds.
SniPanics(data) ==
  /\ Len(data) > RecordHeader /\ data[1] = HandshakeType
  /\ RecordHeader + data[3] <= Len(data)
  /\ data[3] \in 1..(HandshakeHeader - 1) /\ data[4] = HelloType

\* find_sni_boundary: where the SNI extension's header ends, where the name
\* starts and how long it is. The record and the handshake message may be
\* followed by other data, the first SNI extension decides, and extensions
\* behind it are not looked at.
SniBoundary(data) ==
  LET recordEnd == RecordHeader + data[3]
      helloEnd == RecordHeader + HandshakeHeader + data[5]
      body == Slice(data, RecordHeader + HandshakeHeader, helloEnd)
      at == ExtensionsAt(body)
      list == Slice(body, at + 1, at + 1 + body[at + 1])
      walk[e \in 0..Len(list)] ==
        LET after == e + ExtensionHeader + list[e + 2] IN
        IF e + ExtensionHeader > Len(list) \/ after > Len(list) THEN {}
        ELSE IF list[e + 1] # SniType THEN walk[after]
        ELSE {[header_end |-> RecordHeader + HandshakeHeader + at + 1 + e + ExtensionHeader,
               name_start |-> RecordHeader + HandshakeHeader + at + 1 + e + ExtensionHeader + 3,
               name_len |-> n] :
                n \in NameIn(Slice(list, e + ExtensionHeader, after))}
  IN
  IF \/ Len(data) < RecordHeader \/ data[1] # HandshakeType
     \/ recordEnd > Len(data) \/ data[3] < HandshakeHeader
     \/ data[4] # HelloType \/ helloEnd > recordEnd
     \/ at >= Len(body) \/ at + 1 + body[at + 1] > Len(body)
  THEN {}
  ELSE walk[0]

\* parse_client_hello: stricter. The record is the whole buffer, its message
\* the whole record, the extension list the rest of the message, and every
\* extension is complete; of several SNI extensions the last counts.
Layout(record) ==
  LET start == RecordHeader + HandshakeHeader
      body == Drop(record, start)
      at == ExtensionsAt(body)
      none == [sni |-> {}, whole |-> FALSE]
      walk[q \in 0..Len(body)] ==
        LET after == q + ExtensionHeader + body[q + 2] IN
        IF q = Len(body) THEN [sni |-> {}, whole |-> TRUE]
        ELSE IF q + ExtensionHeader > Len(body) \/ after > Len(body) THEN none
        ELSE LET rest == walk[after] IN
             IF rest.sni = {} /\ body[q + 1] = SniType
             THEN [rest EXCEPT !.sni = {start + q}] ELSE rest
      found == walk[at + 1]
  IN
  IF \/ Len(record) < start \/ record[1] # HandshakeType
     \/ Len(record) # RecordHeader + record[3]
     \/ record[4] # HelloType
     \/ HandshakeHeader + record[5] # record[3]
     \/ at >= Len(body) \/ at + 1 + body[at + 1] # Len(body)
     \/ ~found.whole
  THEN {}
  ELSE {[ext_len_off |-> start + at, ext_start |-> start + at + 1, sni |-> found.sni]}

-----------------------------------------------------------------------------
(* Socket-side transforms: each maps a record to the records it may become *)

\* build_padded: the extension goes in front of the SNI extension or to the
\* end; three nested lengths grow.
BuildPadded(record, layout, pad_len, position) ==
  LET add == ExtensionHeader + pad_len
      insert_at == CHOOSE o \in (IF position = "before" /\ layout.sni # {}
                                 THEN layout.sni ELSE {Len(record)}) : TRUE
  IN
  <<record[1], record[2], record[3] + add, record[4], record[5] + add>>
    \o Slice(record, RecordHeader + HandshakeHeader, layout.ext_len_off)
    \o <<record[layout.ext_len_off + 1] + add>>
    \o Slice(record, layout.ext_start, insert_at)
    \o <<PaddingType, pad_len>> \o [i \in 1..pad_len |-> 0]
    \o Drop(record, insert_at)

\* The room `limit`, the largest body, leaves for padding bytes.
PadLimit(record, limit) ==
  IF Len(record) - RecordHeader + ExtensionHeader < limit
  THEN limit - (Len(record) - RecordHeader + ExtensionHeader) ELSE 0

\* TlsPadding::apply, for any size sampled from `sizes`.
Padded(record, sizes, position, limit) ==
  LET room == PadLimit(record, limit)
      clamp(n) == IF n <= room THEN n ELSE room
  IN
  UNION {{BuildPadded(record, l, clamp(n), position) : n \in {k \in sizes : clamp(k) > 0}} :
           l \in Layout(record)}

\* A letter in lower case is one of these cells, in upper case it is
\* LetterShift higher; a digit, dot or hyphen is another cell.
Letters == 101..104
LetterShift == 10
Lower(c) == IF c - LetterShift \in Letters THEN c - LetterShift ELSE c
IsLetter(c) == Lower(c) \in Letters
SwapCase(c) == IF c \in Letters THEN c + LetterShift ELSE Lower(c)

\* The names the random branch can make: any casing of the letters but the
\* one the name has; nothing to do without letters.
RandomCase(name) ==
  {n \in {[i \in DOMAIN name |-> IF i \in s THEN SwapCase(name[i]) ELSE name[i]] :
            s \in SUBSET {i \in DOMAIN name : IsLetter(name[i])}} : n # name}

\* MixedCaseSni::apply. Flipping every letter answers even without one.
MixedCase(record, flip_all) ==
  UNION {LET name == Slice(record, b.name_start, b.name_start + b.name_len) IN
         {Take(record, b.name_start) \o n \o Drop(record, b.name_start + b.name_len) :
            n \in IF flip_all
                  THEN {[i \in DOMAIN name |->
                          IF IsLetter(name[i]) THEN SwapCase(name[i]) ELSE name[i]]}
                  ELSE RandomCase(name)} :
           b \in SniBoundary(record)}

\* unwrap_or(record): what does not parse is forwarded as it is.
OrSame(results, record) == IF results = {} THEN {record} ELSE results

-----------------------------------------------------------------------------
(* Cuts *)

\* cut_offset and split_offset: behind the extension's length field, in the
\* middle of the name, or behind its n-th byte, clamped to its end ("first"
\* stands for index 1, "end" for an index no name reaches).
CutOffset(b, point) ==
  CASE point = "extension_length" -> b.header_end
    [] point = "middle" -> b.name_start + b.name_len \div 2
    [] OTHER -> b.name_start + (IF point = "first" THEN 1 ELSE b.name_len)

\* SniBoundaryFrag::split_offset: two parts that are not empty.
SplitOffset(record, point) ==
  {c \in {CutOffset(b, point) : b \in SniBoundary(record)} : c > 0 /\ c < Len(record)}

BuildRecord(record, body) == <<record[1], record[2], Len(body)>> \o body

\* TlsRecordSplit::split: two records, the cut strictly inside the body;
\* what follows the record in the buffer follows the second one.
RecordSplit(data, point) ==
  LET end == RecordHeader + data[3] IN
  {<<BuildRecord(data, Slice(data, RecordHeader, c)),
     BuildRecord(data, Slice(data, c, end)) \o Drop(data, end)>> :
     c \in {c \in {CutOffset(b, point) : b \in SniBoundary(data)} :
              c > RecordHeader /\ c < end}}

\* fragment_payload: every record of the payload is cut into records of at
\* most frag_size body cells; a payload that ends inside a record is refused.
FragmentPayload(data, frag_size) ==
  LET walk[o \in 0..Len(data)] ==
        LET end == o + RecordHeader + data[o + 3]
            body == Slice(data, o + RecordHeader, end)
            pieces == IF body = <<>> THEN <<<<>>>> ELSE Chunks(body, frag_size)
        IN
        IF o = Len(data) THEN {<<>>}
        ELSE IF o + RecordHeader > Len(data) \/ end > Len(data) THEN {}
        ELSE {FlattenSeq([i \in DOMAIN pieces |->
                 BuildRecord(Drop(data, o), pieces[i])]) \o rest : rest \in walk[end]}
  IN walk[0]

\* CcsPrefix::record
CcsRecord == <<CcsType, 3, 1, 1>>

-----------------------------------------------------------------------------
(* The server's record layer *)

\* The complete records of a stream, in order.
RecordsOf(stream) ==
  LET walk[o \in 0..Len(stream)] ==
        IF o + RecordHeader > Len(stream) THEN <<>>
        ELSE LET end == o + RecordHeader + stream[o + 3] IN
             IF end > Len(stream) THEN <<>>
             ELSE <<[type |-> stream[o + 1], body |-> Slice(stream, o + RecordHeader, end)]>>
                    \o walk[end]
  IN walk[0]

\* The handshake messages: the bodies of the handshake records, whatever
\* records they came in.
HandshakeOf(stream) ==
  LET hs == SelectSeq(RecordsOf(stream), LAMBDA r : r.type = HandshakeType)
  IN FlattenSeq([i \in DOMAIN hs |-> hs[i].body])
=============================================================================
