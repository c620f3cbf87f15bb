-------------------------- MODULE MCOfficialReport --------------------------
\* Two processes and two assets whose lead, side and entry change from cycle
\* to cycle; a cycle may see nothing, or its top contract without a close.
EXTENDS OfficialReport

Sight(rank, side, entry, canon) ==
    [rank |-> rank, best |-> IF rank = <<>> THEN "btc" ELSE rank[1],
     side |-> side, entry |-> entry, canon |-> canon]

Split == [a \in Assets |-> IF a = "btc" THEN "YES" ELSE "NO"]
AllNo == [a \in Assets |-> "NO"]

\* btc leads and both are entries; eth leads without a canonical, btc has
\* turned and nothing is an entry.
MCViews ==
    {Sight(<<"btc", "eth">>, Split, Assets, Assets),
     Sight(<<"eth", "btc">>, AllNo, {}, {"btc"})}
=============================================================================
