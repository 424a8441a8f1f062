----------------------------- MODULE MCCircuits -----------------------------
(* A small instance of Circuits for TLC: two versions of the one-attribute *)
(* circuit, newest first as in the library's table, and between them a     *)
(* newer row of another proof system.                                      *)
EXTENDS Circuits, TLC

Row(s, v, n, h) == [system |-> s, version |-> v, num_attributes |-> n, circuit_hash |-> h]

MCTable == <<Row("libzk", 7, 1, "h71"), Row("other", 7, 2, "o72"),
             Row("libzk", 7, 2, "h72"), Row("libzk", 6, 1, "h61")>>

(* The newest, a superseded one, one of another system too, and none. *)
MCAsked == {<<7, 1>>, <<6, 1>>, <<7, 2>>, <<7, 9>>}

MCBlobs == {MCTable[1], MCTable[4], Junk}
=============================================================================
