------------------------------ MODULE MCPlayer ------------------------------
(* Small traces for Player: a stream may be empty, sorted, out of order or *)
(* begin before zero, and the second one may end with half an event.       *)
EXTENDS Player

MCClocks == {<<>>, <<1>>, <<0, 2>>, <<2, 1>>, <<-1, 1>>}
MCTorn == {{}, {2}}
=============================================================================
