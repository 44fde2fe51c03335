----------------------------- MODULE MCServices -----------------------------
(* The services for TLC: four files and two databases, a database of two    *)
(* rows, two probes of which the second is of another region or of none,    *)
(* two clients, two keys, and a group with its child.                       *)
EXTENDS Services

\* Files: a group with a child and a push monitor outside; a reference to an
\* alert the file does not list; a changed alert and other parents; a name that
\* is listed twice, which Validate refuses.
S == INSTANCE Store
Entry(n, k, b, alert, kids) ==
  [name |-> n, kind |-> k, body |-> b, dns |-> "d", paused |-> FALSE,
   alert |-> alert, monitors |-> kids]
Alert(n, b) == [name |-> n, body |-> b]
McFiles ==
  {[alerts   |-> <<Alert("A", "x")>>,
    monitors |-> <<Entry("g", "group", "unset", "A",
                         <<Entry("m", "http", "unset", "A", <<>>)>>),
                   Entry("n", "push", "custom", "", <<>>)>>],
   [alerts   |-> <<>>,
    monitors |-> <<Entry("m", "http", "custom", "A", <<>>)>>],
   [alerts   |-> <<Alert("A", "y"), Alert("B", "x")>>,
    monitors |-> <<Entry("n", "http", "default", "B", <<>>),
                   Entry("g", "group", "unset", "",
                         <<Entry("p", "http", "unset", "B", <<>>)>>)>>],
   [alerts   |-> <<Alert("A", "y")>>,
    monitors |-> <<Entry("n", "http", "default", "B", <<>>),
                   Entry("n", "group", "unset", "", <<>>)>>]}

\* Databases: an empty one, and one with an alert, a group and its child.
SiteRow(n, k, alert, parent) ==
  [name |-> n, kind |-> k, body |-> "unset", dns |-> "d", paused |-> FALSE,
   alert |-> alert, parent |-> parent, token |-> 0]
Grown == S!AddSite(S!AddSite(S!AddAlert(S!EmptyDb, Alert("A", "x")),
                             SiteRow("g", "group", 1, 0)), SiteRow("m", "http", 1, 1))
Two   == S!AddSite(S!AddSite(S!EmptyDb, SiteRow("g", "push", 0, 0)),
                   SiteRow("m", "http", 0, 0))

McDatabases == {S!EmptyDb, Grown}

McDeployments == {[p \in Probes |-> IF p = "p1" THEN "east" ELSE r] : r \in {"west", ""}}
McRegions == [s \in ProbedSites |-> {"east"}]
McParent  == <<0, 1>>
=============================================================================
