----------------------------- MODULE MCGoogleCpp -----------------------------
(* Small instances of GoogleCpp for TLC.  The table has two versions of    *)
(* the one-attribute circuit and one of the two-attribute circuit.         *)
EXTENDS GoogleCpp, TLC

v6c1 == [version |-> 6, count |-> 1]
v7c1 == [version |-> 7, count |-> 1]
v7c2 == [version |-> 7, count |-> 2]

MCRows == {v6c1, v7c1, v7c2}

MCBlobs == {"one", "two", "junk"}

MCActual == [b \in MCBlobs |-> CASE b = "one" -> v7c1
                                 [] b = "two" -> v7c2
                                 [] b = "junk" -> NoCircuit]

Declared(b, r) == [blob |-> b, version |-> r.version, count |-> r.count]

(* Every circuit declared as what it is, the junk as one of the rows, and  *)
(* a pair the table does not have.                                         *)
TrueDeclarations ==
    {Declared("one", v7c1), Declared("two", v7c2), Declared("junk", v7c2),
     Declared("two", [version |-> 7, count |-> 9])}

(* One circuit declared as what it is, as one with more attributes and as  *)
(* another version of itself; another declared with too few.               *)
MixedDeclarations ==
    {Declared("one", v7c1), Declared("one", v7c2), Declared("one", v6c1),
     Declared("two", v7c1), Declared("two", [version |-> 7, count |-> 9])}

Symm == Permutations(Threads)
=============================================================================
