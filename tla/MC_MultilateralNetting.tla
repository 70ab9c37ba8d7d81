----------------------- MODULE MC_MultilateralNetting -----------------------
(***************************************************************************)
(* Arguments for multilateral_net: every sequence of at most two           *)
(* obligations; graphs whose cycles overlap (two triangles that share an   *)
(* edge, two-cycles beside a triangle, a self-obligation, two symbols)     *)
(* with every choice of quantities, and payments that are no multiples of  *)
(* them, so that proportional reductions round; one of them also with all  *)
(* quantities at one (negative) price; every graph of four unit            *)
(* edges on three accounts, self-obligations and parallel edges included,  *)
(* with every order of its edges, up to the names of accounts; and two     *)
(* graphs in which the search has to back out of a dead end that touches   *)
(* its own path.                                                           *)
(***************************************************************************)
EXTENDS CycleSearch

CONSTANTS S1, S2

MCAccounts == 1..4
MCSymbols  == {S1, S2}
Amounts    == {<<1, 7>>, <<2, -5>>, <<3, 7>>}
Priced     == {<<1, -3>>, <<2, -6>>, <<3, -9>>}

Ob(s, edge, amount) == NetObligation(s, edge[1], edge[2], amount[1], amount[2])

Short ==
    {<<>>} \cup
    UNION {[1..n -> {Ob(s, <<a, b>>, <<q, 5>>) :
                        s \in MCSymbols, a \in 1..3, b \in 1..3, q \in 1..2}] : n \in 1..2}

Graph(s, edges, amounts) ==
    {[i \in DOMAIN edges |-> Ob(s[i], edges[i], amount[i])] :
        amount \in [DOMAIN edges -> amounts]}

Unit(edge) == Ob(S1, edge, <<1, 2>>)

UnitGraphs ==
    {[i \in 1..4 |-> Unit(IF i = 1 THEN first ELSE others[i])] :
        first \in {<<1, 1>>, <<1, 2>>}, others \in [2..4 -> (1..3) \X (1..3)]}
    \cup
    {<<Unit(<<1, 2>>), Unit(<<2, 3>>), Unit(<<3, 2>>), Unit(<<2, 4>>), Unit(<<4, 1>>)>>,
     <<Unit(<<1, 3>>), Unit(<<3, 4>>), Unit(<<4, 3>>), Unit(<<1, 4>>), Unit(<<4, 1>>)>>}

One(n) == [i \in 1..n |-> S1]

TwoTriangles == <<<<1, 2>>, <<2, 3>>, <<3, 1>>, <<2, 4>>, <<4, 1>>>>

MCArguments ==
    Short
    \cup UnitGraphs
    \cup Graph(One(5), TwoTriangles, Amounts)
    \cup Graph(One(5), TwoTriangles, Priced)
    \cup Graph(One(5), <<<<1, 2>>, <<2, 1>>, <<2, 3>>, <<3, 1>>, <<3, 3>>>>, Amounts)
    \cup Graph(<<S1, S2, S1, S2, S2>>, <<<<1, 2>>, <<1, 2>>, <<2, 1>>, <<2, 3>>, <<3, 1>>>>,
               Amounts)
=============================================================================
