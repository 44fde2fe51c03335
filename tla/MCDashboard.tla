---------------------------- MODULE MCDashboard ----------------------------
(* The console for TLC: a group with a child and a site outside, one of     *)
(* which the filter matches, orders that differ by column.                  *)
EXTENDS Dashboard

McParent == [s \in Sites |-> IF s = 2 THEN 1 ELSE 0]
McRank   == [name |-> [s \in Sites |-> 4 - s]]
McCmds   == [list |-> 1, detail |-> 2, reports |-> 2, settings |-> 1, windows |-> 1]
McBegins == [c \in DOMAIN McCmds |-> IF c \in {"detail", "reports"} THEN {1, 2} ELSE Sites]
=============================================================================
