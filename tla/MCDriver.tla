------------------------------ MODULE MCDriver ------------------------------
(* Three modules: Main uses what A defines through B, which B may stop or  *)
(* start importing, and A and B may change places.                         *)
EXTENDS Driver

Src(imps, uses, ok, text) == [imps |-> imps, uses |-> uses, ok |-> ok, text |-> text]

MCSources ==
  [m \in {"Main", "A", "B"} |->
     CASE m = "Main" -> {Src({"B"}, {"A", "B"}, TRUE, 0), Src({"A"}, {"A"}, TRUE, 0)}
       [] m = "B"    -> {Src({"A"}, {"A"}, TRUE, 0), Src({}, {}, TRUE, 0)}
       [] m = "A"    -> {Src({}, {}, TRUE, 0), Src({}, {}, TRUE, 1), Src({}, {}, FALSE, 0),
                         Src({"B"}, {"B"}, TRUE, 0)}]
=============================================================================
