----------------------------- MODULE MCHelloPath -----------------------------
(* Instances of HelloPath. *)
EXTENDS HelloPath

Base ==
  [list |-> <<>>, immediate |-> {"fake_tls"}, every |-> {}, forward |-> TRUE,
   backend |-> "nfqueue", raw |-> TRUE, frag_size |-> 6,
   segments |-> 2, reverse |-> FALSE, overlap |-> <<>>, delay |-> FALSE,
   ip_size |-> 9, repeats |-> 2,
   pad |-> {3}, position |-> "before", flip |-> TRUE, point |-> "middle",
   packets |-> {}, lengths |-> {9}, nodelay |-> TRUE]

List(ms) == [Base EXCEPT !.list = ms]

-----------------------------------------------------------------------------
(* What clients write. *)

Ext(type, data) == <<type, Len(data)>> \o data
Sni(name) == Ext(SniType, <<Len(name) + 2, 0, Len(name)>> \o name)
Record(exts) ==
  LET list == FlattenSeq(exts)
      body == <<99, 0, 1, 50, 1, 0, Len(list)>> \o list
  IN <<HandshakeType, 3, Len(body) + 2, HelloType, Len(body)>> \o body

Name == <<101, 46, 112>>
Alpn == Ext(5, <<7>>)
Hello == Record(<<Sni(Name), Alpn>>)
HelloLast == Record(<<Alpn, Sni(Name)>>)
Nameless == Record(<<Alpn, Ext(6, <<>>)>>)
Digits == Record(<<Sni(<<46, 47>>)>>)
\* An extension's length runs past the list; the list is shorter than the
\* message.
Overrun == [Hello EXCEPT ![Len(Hello) - 1] = 4]
Loose == [Hello EXCEPT ![12] = @ - 1]
AppData == <<23, 3, 2, 60, 61>>

InOne == {<<Hello>>}
InTwo == {<<Take(HelloLast, 9), Drop(HelloLast, 9) \o AppData>>}
Shapes == {<<Hello>>, <<Nameless>>, <<Digits>>, <<Overrun>>, <<Loose>>}
WithData == {<<Hello, AppData>>}
Broken == {<<Take(Hello, 7)>>, <<<<23, 3, 40, 1>>>>}

-----------------------------------------------------------------------------
(* Configurations, with the inputs that tell them apart. *)

Cuts == {<<"sni_boundary_frag">>, <<"tls_record_split">>}
Points == {"extension_length", "middle", "first", "end"}

TransformCases ==
  {[List(<<"tls_padding">>) EXCEPT !.pad = {3, 9}, !.position = p] : p \in {"before", "after"}}
    \X (Shapes \cup Broken \cup {<<HelloLast>>})
  \cup {[List(<<"mixed_case_sni">>) EXCEPT !.flip = f] : f \in BOOLEAN} \X (Shapes \cup InTwo)
  \cup {List(<<"tls_padding", "mixed_case_sni">> \o c) : c \in Cuts \cup {<<"ccs_prefix">>}}
    \X {<<Hello>>, <<Nameless>>}

CutCases ==
  {[List(c) EXCEPT !.point = p] : c \in Cuts, p \in Points} \X (InOne \cup InTwo)
  \cup {[List(<<"tls_frag">>) EXCEPT !.lengths = {9, 14}, !.nodelay = n] : n \in BOOLEAN}
    \X (WithData \cup Broken)
  \cup {[List(l) EXCEPT !.packets = {1, 2}, !.lengths = {3, 20}] :
          l \in {<<"tls_frag">>, <<"wrong_seq", "tls_frag">>, <<"tls_record_split", "tls_frag">>,
                 <<"tls_padding", "tls_frag">>, <<"wrong_seq", "mixed_case_sni", "tls_frag">>}}
    \X (WithData \cup InTwo)
  \cup {[List(<<"wrong_seq", "tls_frag">>) EXCEPT !.packets = {2}]} \X {<<>>, <<AppData>>}

Backends == {[b |-> "nfqueue", r |-> TRUE], [b |-> "nfqueue", r |-> FALSE],
             [b |-> "windivert", r |-> FALSE]}
On(c, b) == [c EXCEPT !.backend = b.b, !.raw = b.r]

ShaperCases ==
  {On([List(<<"disorder">>) EXCEPT !.segments = s, !.reverse = r, !.delay = d, !.every = e], b) :
     s \in {2, 3}, r \in BOOLEAN, d \in BOOLEAN, e \in {{}, {"disorder"}}, b \in Backends}
    \X WithData
  \cup {On([List(<<"seqovl">>) EXCEPT !.segments = s, !.reverse = r, !.delay = d, !.overlap = o], b) :
          s \in {2, 3}, r \in BOOLEAN, d \in BOOLEAN, b \in Backends,
          o \in {[i \in 1..n |-> 70 + i] : n \in {4, 8, 12, 30}}}
    \X InOne
  \cup {On([List(<<"ip_frag">>) EXCEPT !.every = e], b) : e \in {{}, {"ip_frag"}}, b \in Backends}
    \X WithData

DecoyCases ==
  {On([List(<<"fake_tls">>) EXCEPT !.forward = f], b) : f \in BOOLEAN, b \in Backends} \X WithData
  \cup {On(List(<<"fake_tls", m>>), b) : m \in {"ip_frag", "disorder"}, b \in Backends} \X InOne

\* Rewriting lengthens the stream the kernel counts: one packet, nothing
\* behind it.
RewriteCases ==
  {On(List(<<"tls_record_frag">>), b) : b \in Backends}
    \X {<<Hello>>, <<Take(Hello, 7)>>, <<CcsRecord \o Hello>>}

AllCases == TransformCases \cup CutCases \cup ShaperCases \cup DecoyCases \cup RewriteCases

FakeHello == <<HandshakeType, 3, 2, HelloType, 0>>
=============================================================================
