----------------------------- MODULE MCHandler -----------------------------
(* Handler on one flow, with every shape of segment it tells apart. *)
EXTENDS Handler

Segment(syn, ack, fin, rst, len) ==
  [syn |-> syn, ack |-> ack, fin |-> fin, rst |-> rst, len |-> len]

MCSegments ==
  {Segment(TRUE, FALSE, FALSE, FALSE, 0),    \* SYN
   Segment(TRUE, TRUE, FALSE, FALSE, 0),     \* SYN-ACK
   Segment(FALSE, TRUE, FALSE, FALSE, 0),    \* ACK
   Segment(FALSE, TRUE, FALSE, FALSE, 1),    \* data
   Segment(FALSE, TRUE, TRUE, FALSE, 0),     \* FIN
   Segment(FALSE, TRUE, TRUE, FALSE, 1),     \* data with FIN
   Segment(FALSE, FALSE, FALSE, TRUE, 0)}    \* RST
=============================================================================
