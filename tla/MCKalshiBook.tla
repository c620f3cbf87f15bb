---------------------------- MODULE MCKalshiBook ----------------------------
\* Two contracts, one of which may replace the other.
EXTENDS KalshiBook

CONSTANTS a, b

MCTickers == {a, b}
MCPrices == {1, 2}
\* The first contract has two levels, the better one two deep; the second
\* contract has one.
MCMaxQty == [t \in MCTickers |->
               [p \in MCPrices |-> IF t = a THEN p ELSE IF p = 1 THEN 1 ELSE 0]]
=============================================================================
