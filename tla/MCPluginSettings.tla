--------------------------- MODULE MCPluginSettings ---------------------------
(***************************************************************************)
(* Instances of PluginSettings for TLC.  Contents has one record for every *)
(* package the actions tell apart.                                         *)
(***************************************************************************)
EXTENDS PluginSettings

CONSTANTS h1, h2, p1, p2, i1, i2, v1

TwoHosts == {h1, h2}
TwoPackages == {p1, p2}
TwoIids == {i1, i2}
TwoNames == {1, 2}

\* One path comes before all names, the other one after them.
Paths == [p \in TwoPackages |-> IF p = p1 THEN 0 ELSE 3]

Package(name, iid, fate, offers) ==
    [name |-> name, iid |-> iid, outcome |-> fate, offers |-> offers]

Ignored == Package(1, i1, "ignored", {})
Unreadable == Package(1, i1, "unreadable", {})
Throws == Package(1, i1, "throws", {"task"})

\* Of two packages that load, names and iids may agree or not.
AllContents ==
    {Ignored, Unreadable, Throws}
    \cup {Package(n, i1, "broken", {}) : n \in TwoNames}
    \cup {Package(1, i, "loads", {"task", "factory"}) : i \in TwoIids}
    \cup {Package(2, i1, "loads", f) : f \in {{"task"}, {"task", "factory"}}}
===============================================================================
