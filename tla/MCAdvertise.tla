---------------------------- MODULE MCAdvertise -----------------------------
(* Advertise for TLC: three peers, two of them iBGP, and three prefixes.  A    *)
(* peer announces na and nb, replaces its routes by one to nc and another one  *)
(* to nb, or withdraws na and nb.  Which peer's route to nb is better depends  *)
(* on the version; there is also a local one.  One of p2's is denied to p3.    *)
EXTENDS Advertise

CONSTANTS p1, p2, p3, na, nb, nc

MCOrder == <<p1, p2, p3>>
MCWalk == <<na, nb, nc>>

Number(p) == CHOOSE i \in 1..3 : MCOrder[i] = p

MCPref == [r \in Routes |->
              CASE r.pfx = na -> 1 + r.v * 3 + (IF r.src = Local THEN 0 ELSE Number(r.src))
                [] r.pfx = nb -> 20 + (CASE r.src = Local -> 2
                                         [] r.v = 1 -> 2 + Number(r.src)
                                         [] r.v = 2 -> IF r.src = p2 THEN 1 ELSE 5 + Number(r.src))
                [] r.pfx = nc -> 50 - r.v * 3 - (IF r.src = Local THEN 0 ELSE Number(r.src))]

MCUpdates == {[wd |-> {},       nlri |-> {na, nb}, v |-> 1],
              [wd |-> {na},     nlri |-> {nb, nc}, v |-> 2],
              [wd |-> {na, nb}, nlri |-> {},       v |-> 1]}

MCDenied == [p \in Peers |-> IF p = p3 THEN {[pfx |-> nb, src |-> p2, v |-> 1]} ELSE {}]
=============================================================================
