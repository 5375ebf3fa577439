------------------------------ MODULE HelloPath ------------------------------
(***************************************************************************)
(* One connection's bytes from the client to the server: the proxy task    *)
(* reads the ClientHello, transforms it and writes it in pieces            *)
(* (zerodpi-core proxy.rs, tcp_segmentation.rs), the kernel sends          *)
(* segments, the capture backend rewrites, splits and delays them          *)
(* (Emission), the server reassembles fragments, segments and records.     *)
(* Sends fail, the interceptor is stopped with workers under way, the      *)
(* kernel retransmits what was not acknowledged.                           *)
(*                                                                         *)
(* The handshake stage of the bypass is over when the task reads the       *)
(* ClientHello; Connection and Handler model it. To the options of         *)
(* Emission a configuration adds pad, position, flip (of the transforms),  *)
(* point (of the cuts), packets and lengths (of tls_frag) and nodelay.     *)
(***************************************************************************)
EXTENDS Emission

CONSTANTS
  Cases,      \* pairs of a configuration and the client's writes
  PadBody,    \* tls_padding's largest record body (16383)
  ReadBody,   \* read_one_tls_record's largest record body (16384)
  First,      \* the sequence number of the stream's first byte
  MaxFaults   \* bound: failed sends and stops

ASSUME HelloAssumption == PadBody <= ReadBody /\ First < Modulus

VARIABLES
  cfg, input,   \* the configuration and what the client writes
  pc,           \* the task: start, read, relay, done, failed, panicked
  client,       \* the client's writes not read yet
  hello,        \* the record or write that was read first
  todo,         \* pieces to write: [data, cut]
  index,        \* the relay's write_index
  range,        \* does tls_frag apply to the relay's writes?
  sock,         \* writes the kernel has not sent
  sent,         \* the stream the kernel has sent
  seen,         \* data packets the data stage has rewritten
  wire,         \* IP packets in flight
  workers,      \* the segments each delayed worker still has
  tap,          \* the interceptor: running, stopping, ended
  held,         \* the server's incomplete IP packets
  queue,        \* the server's segments: [from, data]
  got,          \* the stream the server has
  id, faults    \* IP packets numbered, faults so far

task == <<pc, client, hello, todo, index, range>>
net == <<sent, seen, wire, workers, id>>
server == <<held, queue, got>>
vars == <<cfg, input, task, sock, net, tap, server, faults>>

Init ==
  /\ \E case \in Cases : cfg = case[1] /\ input = case[2]
  /\ pc = "start" /\ client = input /\ hello = <<>> /\ todo = <<>>
  /\ index = 0 /\ range = FALSE
  /\ sock = <<>> /\ sent = <<>> /\ seen = 0 /\ wire = <<>> /\ workers = <<>>
  /\ tap = (IF IsSocketOnly(cfg) THEN "ended" ELSE "running")
  /\ held = {} /\ queue = <<>> /\ got = <<>>
  /\ id = 0 /\ faults = 0

-----------------------------------------------------------------------------
(* The proxy task *)

Intercepted == ~IsSocketOnly(cfg)
HasMethod(m) == m \in Listed(cfg)

\* Does the task read the first record itself, or one write, or leave all to
\* the relay? The two paths differ: the intercepting one reads whatever the
\* list once the bypass waits for data, the socket path what a method needs.
ReadsRecord ==
  IF Intercepted
  THEN WaitsForData(cfg) /\ ~(SocketCut(cfg) = {"tls_frag"} /\ cfg.packets # {})
  ELSE \/ SocketTransforms(cfg) # {}
       \/ SocketCut(cfg) \in {{"sni_boundary_frag"}, {"tls_record_split"}}
       \/ HasMethod("tls_frag") /\ cfg.packets = {}
ReadsWrite == Intercepted /\ WaitsForData(cfg) /\ ~ReadsRecord

Piece(data) == [data |-> data, cut |-> FALSE]

\* connected: the ChangeCipherSpec prefix leaves before anything else.
Start ==
  /\ pc = "start"
  /\ pc' = (IF ReadsRecord \/ ReadsWrite THEN "read" ELSE "relay")
  /\ todo' = (IF HasMethod("ccs_prefix") /\ (Intercepted => WaitsForData(cfg))
              THEN <<Piece(CcsRecord)>> ELSE <<>>)
  /\ range' = (HasMethod("tls_frag") /\ ~Intercepted /\ ~ReadsRecord)
  /\ UNCHANGED <<cfg, input, client, hello, index, sock, net, tap, server, faults>>

\* apply_socket_transforms: padding, then the case of the name.
Transforms(record) ==
  LET padded == IF HasMethod("tls_padding")
                THEN OrSame(Padded(record, cfg.pad, cfg.position, PadBody), record)
                ELSE {record}
  IN IF HasMethod("mixed_case_sni")
     THEN UNION {OrSame(MixedCase(r, cfg.flip), r) : r \in padded} ELSE padded

\* sni_boundary_frag: two writes, cut where the name starts or inside it.
BoundaryPieces(record, offsets) ==
  {<<Piece(Take(record, c)), Piece(Drop(record, c))>> : c \in offsets}

\* tls_record_split: two records, a write each.
SplitPieces(record) ==
  {<<Piece(r[1]), Piece(r[2])>> : r \in RecordSplit(record, cfg.point)}

\* One write, which tls_frag in its tlshello mode cuts as it is written.
WholePiece(record) ==
  <<[data |-> record, cut |-> SocketCut(cfg) = {"tls_frag"} /\ cfg.packets = {}]>>

\* Variation: the offset is resolved against the record that was read.
PiecesOfStale(read, record) ==
  LET cuts == CASE SocketCut(cfg) = {"sni_boundary_frag"} ->
                     BoundaryPieces(record, SplitOffset(read, cfg.point))
                [] SocketCut(cfg) = {"tls_record_split"} -> SplitPieces(record)
                [] OTHER -> {}
  IN IF cuts = {} THEN WholePiece(record) ELSE CHOOSE c \in cuts : TRUE

\* How the transformed record is written; a cut that finds no SNI writes the
\* record whole.
PiecesOf(read, record) ==
  LET cuts == CASE SocketCut(cfg) = {"sni_boundary_frag"} ->
                     BoundaryPieces(record, SplitOffset(record, cfg.point))
                [] SocketCut(cfg) = {"tls_record_split"} -> SplitPieces(record)
                [] OTHER -> {}
  IN IF cuts = {} THEN WholePiece(record) ELSE CHOOSE c \in cuts : TRUE

\* Do the methods that look for the SNI run into the indexing panic?
Panics(record) ==
  /\ SniPanics(record)
  /\ HasMethod("mixed_case_sni") \/ SocketCut(cfg) \in {{"sni_boundary_frag"}, {"tls_record_split"}}

\* read_one_tls_record, the transforms and the choice of the writes. With
\* tls_frag listed the relay goes on cutting: behind write 1, or on the
\* socket path without a cut of the record, from write 1.
ReadRecord ==
  LET stream == FlattenSeq(client)
      end == RecordHeader + stream[3]
      rest == Drop(stream, end)
      cuts == HasMethod("tls_frag") /\ SocketCut(cfg) # {"tls_frag"}
      late == HasMethod("tls_frag") /\ ~Intercepted /\ cfg.packets # {} /\ ~cuts
  IN
  /\ pc = "read" /\ ReadsRecord /\ todo = <<>>
  /\ Len(stream) >= RecordHeader /\ stream[3] <= ReadBody /\ end <= Len(stream)
  /\ hello' = Take(stream, end)
  /\ client' = (IF rest = <<>> THEN <<>> ELSE <<rest>>)
  /\ IF Panics(Take(stream, end))
     THEN pc' = "panicked" /\ UNCHANGED <<todo, range, index>>
     ELSE /\ pc' = "relay"
          /\ \E r \in Transforms(Take(stream, end)) : todo' = PiecesOf(Take(stream, end), r)
          /\ range' = (cuts \/ late)
          /\ index' = (IF cuts THEN 1 ELSE 0)
  /\ UNCHANGED <<cfg, input, sock, net, tap, server, faults>>

\* The range mode of tls_frag on the intercepting path: one write of the
\* client, transformed if it parses, cut if the range includes write 1.
ReadWrite ==
  /\ pc = "read" /\ ReadsWrite /\ todo = <<>> /\ client # <<>>
  /\ hello' = Head(client) /\ client' = Tail(client)
  /\ IF SniPanics(Head(client)) /\ HasMethod("mixed_case_sni")
     THEN pc' = "panicked" /\ UNCHANGED <<todo, range, index>>
     ELSE /\ pc' = "relay" /\ range' = TRUE /\ index' = 1
          /\ \E r \in Transforms(Head(client)) :
               todo' = <<[data |-> r, cut |-> 1 \in cfg.packets]>>
  /\ UNCHANGED <<cfg, input, sock, net, tap, server, faults>>

\* The client closes before its record is complete, or the record is larger
\* than a record may be.
ReadFails ==
  LET stream == FlattenSeq(client) IN
  /\ pc = "read" /\ todo = <<>>
  /\ IF ReadsRecord
     THEN \/ Len(stream) < RecordHeader
          \/ Len(stream) >= RecordHeader /\ stream[3] > ReadBody
          \/ Len(stream) >= RecordHeader /\ RecordHeader + stream[3] > Len(stream)
     ELSE client = <<>>
  /\ pc' = "failed"
  /\ UNCHANGED <<cfg, input, client, hello, todo, index, range, sock, net, tap, server, faults>>

\* The relay reads a write of the client and counts it.
RelayRead ==
  /\ pc = "relay" /\ todo = <<>> /\ client # <<>>
  /\ index' = index + 1
  /\ todo' = <<[data |-> Head(client), cut |-> range /\ index' \in cfg.packets]>>
  /\ client' = Tail(client)
  /\ UNCHANGED <<cfg, input, pc, hello, range, sock, net, tap, server, faults>>

RelayEnds ==
  /\ pc = "relay" /\ todo = <<>> /\ client = <<>>
  /\ pc' = "done"
  /\ UNCHANGED <<cfg, input, client, hello, todo, index, range, sock, net, tap, server, faults>>

\* Variation: the last chunk is cut to the sampled length.
WritePieceShort ==
  /\ todo # <<>> /\ pc # "panicked"
  /\ LET p == Head(todo) IN
     \E n \in IF p.cut THEN cfg.lengths ELSE {Len(p.data)} :
       LET k == IF n < Len(p.data) THEN n ELSE Len(p.data)
           more == k < Len(p.data) /\ Len(p.data) - k >= n
       IN
       /\ sock' = Append(sock, Take(p.data, k))
       /\ todo' = (IF more THEN <<[p EXCEPT !.data = Drop(@, k)]>> \o Tail(todo)
                   ELSE Tail(todo))
  /\ UNCHANGED <<cfg, input, pc, client, hello, index, range, net, tap, server, faults>>

\* write_all and flush of a piece, or of the next chunk of a piece that
\* write_fragmented cuts.
WritePiece ==
  /\ todo # <<>> /\ pc # "panicked"
  /\ LET p == Head(todo) IN
     \E n \in IF p.cut THEN cfg.lengths ELSE {Len(p.data)} :
       LET k == IF n < Len(p.data) THEN n ELSE Len(p.data) IN
       /\ sock' = Append(sock, Take(p.data, k))
       /\ todo' = (IF k < Len(p.data) THEN <<[p EXCEPT !.data = Drop(@, k)]>> \o Tail(todo)
                   ELSE Tail(todo))
  /\ UNCHANGED <<cfg, input, pc, client, hello, index, range, net, tap, server, faults>>

-----------------------------------------------------------------------------
(* The kernel and the capture loop *)

\* configured_upstream_nodelay
Nodelay ==
  cfg.nodelay \/ Listed(cfg) \cap {"sni_boundary_frag", "tls_record_split", "ccs_prefix"} # {}

\* A running interceptor asks the data stage about the first data packet, in
\* fragment-all mode about every one.
Asked == tap = "running" /\ DataMembers(cfg) # {} /\ (seen = 0 \/ FragmentAllData(cfg))

\* The packet passes the capture loop. Once asked to stop, WinDivert passes
\* packets on untouched and NFQUEUE keeps them until its rules are gone.
Capture(pkt) ==
  /\ tap = "stopping" => cfg.backend = "windivert"
  /\ id' = id + 1
  /\ IF Asked /\ Rewritten(cfg, pkt, seen > 0)
     THEN \E view \in {Staged(cfg, pkt, First, seen > 0)} :
          \E o \in Emissions(cfg, id, pkt, view) :
            /\ o.ok \/ faults < MaxFaults
            /\ faults' = (IF o.ok THEN faults ELSE faults + 1)
            /\ wire' = wire \o o.now
            /\ workers' = (IF o.later = <<>> THEN workers ELSE Append(workers, o.later))
     ELSE wire' = Append(wire, Whole(id, pkt)) /\ UNCHANGED <<workers, faults>>
  /\ seen' = (IF Asked THEN seen + 1 ELSE seen)

Segment(from, data) == [seq |-> (First + from) % Modulus, psh |-> 1, data |-> data]

\* The kernel sends one write as a segment, or without TCP_NODELAY what has
\* gathered.
Transmit ==
  \E k \in {1} \cup (IF Nodelay THEN {} ELSE {Len(sock)}) :
    /\ sock # <<>>
    /\ \E data \in {FlattenSeq(Take(sock, k))} : \E pkt \in {Segment(Len(sent), data)} :
         Capture(pkt) /\ sent' = sent \o data
    /\ sock' = Drop(sock, k)
    /\ UNCHANGED <<cfg, input, task, tap, server>>

\* What was sent and is neither acknowledged nor under way is sent again.
Retransmit ==
  /\ wire = <<>> /\ workers = <<>> /\ Len(got) < Len(sent)
  /\ \E pkt \in {Segment(Len(got), Drop(sent, Len(got)))} : Capture(pkt)
  /\ UNCHANGED <<cfg, input, task, sock, sent, tap, server>>

\* A delayed worker wakes up: it sends its next segment, fails to and gives
\* up, or sees the shutdown request.
WorkerWakes ==
  \E i \in DOMAIN workers :
    LET rest == Tail(workers[i])
        without == RemoveAt(workers, i)
    IN
    /\ \/ /\ tap = "running"
          /\ wire' = Append(wire, Head(workers[i]))
          /\ workers' = (IF rest = <<>> THEN without ELSE [workers EXCEPT ![i] = rest])
          /\ UNCHANGED faults
       \/ /\ tap = "running" /\ faults < MaxFaults
          /\ workers' = without /\ faults' = faults + 1 /\ UNCHANGED wire
       \/ /\ tap # "running" /\ workers' = without /\ UNCHANGED <<wire, faults>>
    /\ UNCHANGED <<cfg, input, task, sock, sent, seen, id, tap, server>>

\* The interceptor is asked to stop.
StopRequested ==
  /\ tap = "running" /\ faults < MaxFaults
  /\ tap' = "stopping" /\ faults' = faults + 1
  /\ UNCHANGED <<cfg, input, task, sock, net, server>>

\* EmissionWorkers::finish joins the workers; then the rules go.
TapEnds ==
  /\ tap = "stopping" /\ workers = <<>>
  /\ tap' = "ended"
  /\ UNCHANGED <<cfg, input, task, sock, net, server, faults>>

-----------------------------------------------------------------------------
(* The server *)

\* The data of a packet of which all fragments are there.
Assembled(parts) ==
  LET last == {p \in parts : ~p.more}
      end == CHOOSE n \in {p.off * Unit + Len(p.data) : p \in last} : TRUE
      at(n) == {p \in parts : p.off * Unit < n /\ n <= p.off * Unit + Len(p.data)}
  IN
  IF last # {} /\ \A n \in 1..end : at(n) # {}
  THEN {[n \in 1..end |-> LET p == CHOOSE p \in at(n) : TRUE IN p.data[n - p.off * Unit]]}
  ELSE {}

\* The stream offset a sequence number means to a server that has `have`
\* cells: the one nearest to what it waits for.
OffsetOf(seq, have) ==
  LET ahead == (seq + 2 * Modulus - ((First + have) % Modulus)) % Modulus IN
  IF ahead < Modulus \div 2 THEN have + ahead
  ELSE IF have + ahead >= Modulus THEN have + ahead - Modulus ELSE 0

\* How far below the stream's first byte a segment starts.
Below(seq, have) ==
  LET ahead == (seq + 2 * Modulus - ((First + have) % Modulus)) % Modulus IN
  IF ahead >= Modulus \div 2 /\ have + ahead < Modulus THEN Modulus - have - ahead ELSE 0

\* The stream a queue of segments makes: of two that hold a byte the one
\* that starts earlier gives it, of two that start together the one that
\* came first.
Stream(segs) ==
  LET holds(n) == {i \in DOMAIN segs : segs[i].from < n /\ n <= segs[i].from + Len(segs[i].data)}
      wins(i, j) == \/ segs[i].from < segs[j].from
                    \/ segs[i].from = segs[j].from /\ i <= j
      run[n \in Nat] == IF holds(n + 1) = {} THEN n ELSE run[n + 1]
  IN [n \in 1..run[0] |->
        LET i == CHOOSE i \in holds(n) : \A j \in holds(n) : wins(i, j)
        IN segs[i].data[n - segs[i].from]]

\* The segment a TCP packet is to a server that has `have` cells.
Received(packet, have) ==
  [from |-> OffsetOf(packet[1], have),
   data |-> Drop(packet, TcpHeader + Below(packet[1], have))]

\* An IP packet arrives; with its last fragment the TCP packet does, and the
\* stream grows by what the queue now continues.
Deliver ==
  LET p == Head(wire)
      same == {q \in held : q.id = p.id} \cup {p}
      whole == IF p.off = 0 /\ ~p.more THEN {p.data} ELSE Assembled(same)
  IN
  /\ wire # <<>>
  /\ wire' = Tail(wire)
  /\ held' = IF whole = {} THEN held \cup {p} ELSE held \ same
  /\ \/ whole = {} /\ UNCHANGED <<queue, got>>
     \/ \E data \in whole : \E segs \in {Append(queue, Received(data, Len(got)))} :
          \E stream \in {Stream(<<[from |-> 0, data |-> got]>> \o segs)} :
            /\ got' = stream
            /\ queue' = SelectSeq(segs, LAMBDA s : s.from + Len(s.data) > Len(stream))
  /\ UNCHANGED <<cfg, input, task, sock, sent, seen, workers, id, tap, faults>>

\* Nothing is left to do.
Finished ==
  /\ pc \in {"done", "failed", "panicked"} /\ sock = <<>> /\ wire = <<>>
  /\ workers = <<>> /\ tap # "stopping" /\ Len(got) >= Len(sent)
  /\ UNCHANGED vars

TaskSteps == Start \/ ReadRecord \/ ReadWrite \/ ReadFails \/ RelayRead \/ RelayEnds \/ WritePiece
NetSteps == Transmit \/ Retransmit \/ WorkerWakes \/ TapEnds \/ Deliver

Next == TaskSteps \/ NetSteps \/ StopRequested \/ Finished

Spec == Init /\ [][Next]_vars
FairSpec == Spec /\ WF_vars(TaskSteps) /\ WF_vars(NetSteps)
-----------------------------------------------------------------------------
(* Properties *)

Original == FlattenSeq(input)

HelloTypeOK ==
  /\ pc \in {"start", "read", "relay", "done", "failed", "panicked"}
  /\ tap \in {"running", "stopping", "ended"}
  /\ index \in 0..Len(Original) /\ faults \in 0..MaxFaults
  /\ \A i \in DOMAIN wire : wire[i].off = 0 => wire[i].data[1] \in 0..(Modulus - 1)

\* Whatever the backend makes of the packets (segments out of order, with a
\* false prefix in front, delayed behind later ones, fragments, decoys,
\* sends that fail half way, retransmissions of what was cut differently),
\* the server's stream is the one the task wrote.
StreamIntact ==
  ~HasMethod("tls_record_frag") => IsPrefix(got, sent)

\* The handshake messages the server assembles from the records are the
\* client's: cutting a record, cutting writes, prefixes and shaping move no
\* byte of them, and a transform leaves what it cannot parse as it is.
HandshakeIntact ==
  (SocketTransforms(cfg) = {} \/ Layout(hello) \cup SniBoundary(hello) = {})
     => IsPrefix(HandshakeOf(got), HandshakeOf(Original))

\* The record with every letter of its name in lower case.
Lowered(record) ==
  LET name == UNION {(b.name_start + 1)..(b.name_start + b.name_len) : b \in SniBoundary(record)}
  IN [i \in DOMAIN record |-> IF i \in name THEN Lower(record[i]) ELSE record[i]]

\* The record without the padding extension at offset o.
Unpadded(record, o) ==
  LET l == CHOOSE l \in Layout(record) : TRUE
      less == ExtensionHeader + record[o + 2]
  IN [i \in 1..(Len(record) - less) |->
        IF i \in {3, 5, l.ext_len_off + 1} THEN record[i] - less
        ELSE record[IF i <= o THEN i ELSE i + less]]

\* A transformed ClientHello is still one, with the same name to a server
\* that ignores case: it is the client's own with the letters recased and,
\* if there was room, one padding extension more, all lengths agreeing.
HelloEquivalent ==
  LET message == HandshakeOf(got)
      record == <<hello[1], hello[2], HandshakeHeader + message[2]>>
                  \o Take(message, HandshakeHeader + message[2])
  IN
  (/\ SocketTransforms(cfg) # {} /\ Layout(hello) # {}
   /\ Len(message) >= HandshakeHeader /\ Len(message) >= HandshakeHeader + message[2])
    => /\ Layout(record) # {}
       /\ \/ Lowered(record) = Lowered(hello)
          \/ /\ HasMethod("tls_padding")
             /\ \E o \in RecordHeader..(Len(record) - ExtensionHeader) :
                  /\ record[o + 1] = PaddingType
                  /\ o + ExtensionHeader + record[o + 2] <= Len(record)
                  /\ Lowered(Unpadded(record, o)) = Lowered(hello)

\* Padding fills a record up to its limit and never past it.
PaddingBounded ==
  LET body == Len(hello) - RecordHeader IN
  HasMethod("tls_padding") =>
    \A r \in Range(RecordsOf(FlattenSeq(sock))) : Len(r.body) <= PadBody \/ Len(r.body) <= body

\* Does s hold the name the client's ClientHello asks for?
Shows(s) ==
  \E b \in SniBoundary(hello) :
    \E i \in 0..(Len(s) - b.name_len) :
      \A k \in 1..b.name_len : Lower(s[i + k]) = Lower(hello[b.name_start + k])

\* A cut inside or in front of the name puts it into no single write, for
\* tls_record_split into no single record, also when padding has moved it
\* or its case was changed.
NameHidden ==
  cfg.point # "end" =>
    /\ SocketCut(cfg) = {"sni_boundary_frag"} => \A i \in DOMAIN sock : Len(sock[i]) > 0
         /\ (cfg.point # "extension_length" => ~Shows(sock[i]))
    /\ SocketCut(cfg) = {"tls_record_split"} /\ cfg.point # "extension_length" =>
         \A r \in Range(RecordsOf(sent)) : ~Shows(r.body)

\* A delayed worker is joined before its interceptor has ended: nothing is
\* injected into a connection whose rules are gone.
NoWorkerOutlives == tap = "ended" => workers = <<>>

\* Everything the client wrote arrives: sends that fail, segments a stop
\* abandons and a replaced ClientHello are made good by retransmission.
AllArrives ==
  <>[](\/ pc \in {"failed", "panicked"}
       \/ /\ pc = "done" /\ sock = <<>> /\ Len(got) >= Len(sent)
          /\ Len(HandshakeOf(got)) >= Len(HandshakeOf(Original))
          /\ Len(RecordsOf(got)) >= Len(RecordsOf(Original)))

\* What the server makes of the records is the client's handshake, within the limits
\* of a record and with the name cut where the configuration says: the conjuncts above.
HelloInv ==
  /\ HelloTypeOK /\ HandshakeIntact /\ HelloEquivalent
  /\ PaddingBounded /\ NameHidden /\ NoWorkerOutlives
=============================================================================
