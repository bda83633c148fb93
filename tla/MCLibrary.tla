----------------------------- MODULE MCLibrary -----------------------------
(* Library with a few keys, slots, cells and nodes. *)
EXTENDS Library

\* Keys 2 and 4 collide in tables of 2, 4 and 8 bins, 1 and 3 in those of 2 and 4.
MCHashOf == <<1, 2, 5, 10>>

MCBinSizes == <<2, 4, 8>>

MCLoads == {[optimal |-> 100, lo |-> 50, hi |-> 150], [optimal |-> 50, lo |-> 25, hi |-> 200]}

MCStrategies ==
    {{}, {"INC", "SPEED_CONSTANT"}, {"INC", "DEC", "SPEED_CONSTANT"}, {"INC", "DEC", "SPEED_LINEAR"}}
=============================================================================
