--------------------------- MODULE MCSymbolEngine ---------------------------
(* Model-checking instances of SymbolEngine. *)
EXTENDS SymbolEngine

Three == {"o1", "o2", "o3"}
Third == {"o3"}
OneCancel  == {[kind |-> "cancel", id |-> "c1", order |-> "o1"]}
Both       == {[kind |-> "replay", id |-> "r1", from |-> 1], [kind |-> "snapshot", id |-> "s1", from |-> 0]}
=============================================================================
