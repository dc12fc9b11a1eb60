----------------------------- MODULE MCNetwork ------------------------------
(***************************************************************************)
(* Networks for TLC: two sources share a sink, or a source has two sinks.  *)
(* Where there is a connection to spare, one is made again after it was    *)
(* lost.                                                                   *)
(***************************************************************************)
EXTENDS Network

Shared == {<<"q1", "f">>, <<"q2", "f">>, <<"b", "p1">>}
Spread == {<<"q1", "f">>, <<"b", "p1">>, <<"b", "p2">>}
Single == {<<"q1", "f">>, <<"b", "p1">>}
Loop == {<<"q1", "f">>, <<"q2", "f">>}

Of(pat, links, spare, sends, answers) ==
  [pattern |-> pat, links |-> links, connects |-> Cardinality(links) + spare,
   sends |-> sends, answers |-> answers]

MCNetworks ==
  {Of("reqrep", Shared, 0, 2, 0), Of("reqrep", Spread, 0, 2, 0), Of("reqrep", Single, 1, 2, 0),
   Of("survey", Spread, 0, 1, 0), Of("survey", Single, 1, 2, 0),
   Of("bus", Shared, 0, 1, 1), Of("bus", Single, 1, 1, 1), Of("loop", Loop, 1, 2, 0),
   Of("pair", Shared, 1, 2, 1),
   Of("pipeline", Shared, 1, 2, 0), Of("pipeline", Spread, 1, 2, 0),
   Of("pubsub", Spread, 1, 2, 0)}
=============================================================================
