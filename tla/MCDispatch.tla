------------------------------ MODULE MCDispatch ------------------------------
(* Dispatch on a small instance: a run locked to its mesh, a GPU job with  *)
(* a choice of cells and of cards, and a small TPU job; two metros with    *)
(* storage and one without.  The two TPU jobs do not fit one cell, nor the *)
(* three of them the bar.                                                  *)
EXTENDS Dispatch

MCMetro == [ja |-> "ny", sj |-> "sv", td |-> "tpe"]
Pair(c, a) == [cell |-> c, arch |-> a]
MCPairs == {Pair("ja", "v6p"), Pair("sj", "v6e"), Pair("td", "v6e"),
            Pair("ja", "h100"), Pair("sj", "h100"), Pair("sj", "b200")}
MCQueue == <<"locked", "gpu", "small">>
Shape(a, n) == [arch |-> a, chips |-> n]
Asking(power, archs, locked, pin) ==
  [power |-> power, tolerance |-> 20, archs |-> archs, locked |-> locked, metros |-> {}, max |-> NoPrice,
   pin |-> pin, priority |-> IF locked THEN 1 ELSE 0]
MCAsks == [locked |-> {Asking(Shape("v6e", 16), {"v6e", "v6p"}, TRUE, NoPool)},
           gpu |-> {Asking(Shape("h100", 8), {"h100", "b200"}, FALSE, pin) : pin \in {NoPool, "g9"}},
           small |-> {Asking(Shape("v6e", 8), {"v6e"}, FALSE, NoPool)}]
MCChips == [p \in MCPairs |-> IF p.arch = "v6e" THEN 16 ELSE 8]
MCArchPrice == [a \in Archs |-> CASE a = "v6p" -> 14 [] a = "v6e" -> 8 [] a = "h100" -> 5
                                  [] a = "b200" -> 11 [] OTHER -> NoPrice]
MCCellPrice == [p \in MCPairs |-> CASE p.cell = "td" -> 4
                                     [] p = Pair("sj", "h100") -> 6
                                     [] OTHER -> MCArchPrice[p.arch]]
MCDearPrice == [p \in MCPairs |-> 2 * MCArchPrice[p.arch]]
MCFloor == [g5 |-> [a \in Archs |-> IF a = "v6e" THEN 16 ELSE 0]]
MCPreferred == <<"g5">>
MCBalance == [g5 |-> 60]
MCLimitOrder == [g5 |-> [a \in Archs |-> IF a = "v6e" THEN 10 ELSE NoPrice]]
=============================================================================
