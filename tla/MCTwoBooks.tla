------------------------------ MODULE MCTwoBooks ------------------------------
(***************************************************************************)
(* TwoBooks for TLC.  Three interchangeable order ids, so that a queue can *)
(* have a middle and the free list several nodes; two prices, so that the  *)
(* best one can change and levels come and go on either side of each       *)
(* other; two quantities, so that a reduction can be less than, equal to   *)
(* or more than what rests.  An order that add_order must refuse for each  *)
(* reason but a duplicate id.                                              *)
(***************************************************************************)
EXTENDS TwoBooks

CONSTANTS o1, o2, o3

MCIds == {o1, o2, o3}
MCPrices == {1, 2}
MCQuantities == {1, 2}

Good == [id : MCIds, symbol : {1}, side : Sides, price : MCPrices,
         quantity : MCQuantities]
Bad == LET good == [id |-> o1, symbol |-> 1, side |-> "Buy", price |-> 1,
                    quantity |-> 1]
       IN  {[good EXCEPT !.id = 0], [good EXCEPT !.symbol = 0],
            [good EXCEPT !.symbol = 2], [good EXCEPT !.side = "None"],
            [good EXCEPT !.price = 0], [good EXCEPT !.quantity = 0]}
MCOrders == Good \cup Bad

Symmetric == Permutations(MCIds)
===============================================================================
