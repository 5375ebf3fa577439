------------------------------ MODULE MCSession ------------------------------
(* Instances of Session. *)
EXTENDS Session

Config(mode, balanced, pinned, auto, discover, tap) ==
  [mode |-> mode, balanced |-> balanced, pinned |-> pinned, auto |-> auto,
   periodic |-> TRUE, discover |-> discover, plane |-> tap]

\* The three modes; a local and a remote interceptor; one target and a balanced
\* pool; a choice by the user; a pinned target.
MCConfigs ==
  {Config("sni", FALSE, FALSE, FALSE, TRUE, "local"),
   Config("sni", TRUE, FALSE, TRUE, TRUE, "remote"),
   Config("plus", FALSE, FALSE, TRUE, FALSE, "remote"),
   Config("ip", TRUE, TRUE, TRUE, FALSE, "none")}

\* Lists of one and of two whose first entry passed, and one where nothing passed.
MCResults ==
  {[list |-> <<"a">>, good |-> 1], [list |-> <<"b", "a">>, good |-> 1],
   [list |-> <<"b", "a">>, good |-> 0]}

\* Two reloads of a generation that rescans once; a reload, a rescan and a change of
\* network; two rescans and a change of network.
MCBounds ==
  {[reloads |-> 2, rescans |-> 1, moves |-> 0],
   [reloads |-> 1, rescans |-> 1, moves |-> 1],
   [reloads |-> 0, rescans |-> 2, moves |-> 1]}
=============================================================================
