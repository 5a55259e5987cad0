------------------------------ MODULE MCReplay ------------------------------
(* TLC instance of replay mode: a few captures and sheets, and the files made of them. *)
EXTENDS Replay

P(ip, ts)      == [ip |-> ip, kind |-> "SCAN", ts |-> ts]
Want(ip, f, t) == [valid |-> TRUE, ip |-> ip, attack |-> "SCAN", window |-> TRUE, from |-> f, to |-> t]
Skip           == [Want("a", 0, 0) EXCEPT !.valid = FALSE]
Other          == [Want("a", 0, 0) EXCEPT !.attack = "FLOOD", !.window = FALSE]

Scan  == <<P("a", 8), P("b", 8), P("a", 9)>>                  \* reports a at 9
Slow  == <<P("a", 2), P("a", 5)>>                             \* forgotten in between
Old   == <<P("a", 0), P("a", 1)>>                             \* no time to count from
Late  == <<P("b", 6), P("b", 5), P("a", 5)>>                  \* reports b before the start
Flood == <<P("a", 9), P("a", 9), P("a", 9), P("b", 9), P("b", 9)>>

On(packets, readable, items) ==
  [opens |-> TRUE, packets |-> packets, readable |-> readable,
   sheet |-> [loads |-> TRUE, items |-> items]]

MCFiles ==
  {On(Scan, 3, <<Skip, Want("a", 0, 1)>>),
   On(Scan, 2, <<Want("a", 1, 1), Other>>),
   On(Slow, 2, <<Want("a", 0, 9), Other>>),
   On(Old, 2, <<Want("a", 5, 6), Want("a", 5, 7), Want("a", 5, 8), Want("a", 5, 9), Other>>),
   On(Flood, 5, <<Want("b", 0, 0)>>),
   On(Late, 3, <<Want("a", 0, 9), Want("b", 0, 0)>>),
   On(Scan, 0, <<Want("a", 0, 1)>>),
   On(Scan, 3, <<>>),
   [On(Scan, 3, <<>>) EXCEPT !.sheet.loads = FALSE],
   [On(<<>>, 0, <<Want("a", 0, 1)>>) EXCEPT !.opens = FALSE]}
=============================================================================
