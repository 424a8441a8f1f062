------------------------------ MODULE MCCanary ------------------------------
(* Small instances of Canary for TLC.  g1 and g2 differ outside the        *)
(* watched paths only.                                                     *)
EXTENDS Canary

MCGoog == {"g1", "g2"}
MCIsrg == {"i1"}
MCSelf == {"s1", "s2"}

MCWatched == [r \in MCGoog \union MCIsrg \union MCSelf |-> IF r = "g2" THEN "g1" ELSE r]
=============================================================================
