------------------------------- MODULE MCRelay ------------------------------
(* Relay for TLC.  ASNs up to 5 fit in two octets, 4 is AS_TRANS.  n1 and n2  *)
(* share the large AS 6; n3 is AS 2 and knows four octets; o1 and o2, AS 1    *)
(* and 3, do not.  Of the foreign speakers x5 does not and x7 does.  A        *)
(* segment holds two ASNs, so that prepending soon needs a new one.  With o2  *)
(* n3 exchanges IPv6 routes only.                                             *)
EXTENDS Relay

MCSpeakers == {"n1", "n2", "n3", "o1", "o2"}
MCForeign == {"x5", "x7"}

AsnOf == [n1 |-> 6, n2 |-> 6, n3 |-> 2, o1 |-> 1, o2 |-> 3, x5 |-> 5, x7 |-> 7]

\* Two LANs; other sessions are point to point.  The name of a speaker is also
\* its address.
Lans == {{"n1", "n3", "o1", "x5", "west"}, {"n2", "o2", "x7"}}

LanOf(s, d) == UNION ({lan \in Lans : {s, d} \subseteq lan} \cup {{s, d}})

P(bits, len) == [bits |-> bits, len |-> len]
Rule(match, arg, permit) == [match |-> match, arg |-> arg, permit |-> permit]

Wide == P(<<1, 0, 0>>, 1)
Mid  == P(<<1, 0, 1>>, 2)
Host == P(<<1, 0, 1>>, 3)

ByPath == <<Rule("CONTAINS", 7, FALSE), Rule("COMMUNITY", "keep", TRUE)>>
ByPrefix == <<Rule("MORE_SPECIFIC", Wide, FALSE), Rule("EXACT", Mid, TRUE)>>
ByOrigin == <<Rule("ANY", 0, FALSE), Rule("NOT_ORIGIN", 7, TRUE)>>
Mixed == <<Rule("PREFIX", Mid, FALSE), Rule("NOT_CONTAINS", 6, TRUE),
           Rule("LESS_SPECIFIC", Mid, FALSE)>>
Others == <<Rule("LESS_OR_EQUAL", Mid, FALSE), Rule("NOT_COMMUNITY", "keep", TRUE),
            Rule("ORIGIN", 7, FALSE)>>
MCFilters == {ByPath, ByPrefix, ByOrigin, Mixed, Others}

MCFsm == [s \in MCSpeakers \cup MCForeign |-> [d \in MCSpeakers \cup MCForeign |->
    [asn     |-> AsnOf[s],
     four    |-> s \in {"n1", "n2", "n3", "x7"},
     mp4     |-> <<s, d>> # <<"n3", "o2">>,
     mp6     |-> s \in {"n1", "n2", "n3", "o2", "x7"},
     expect  |-> IF s = "n3" THEN 0 ELSE AsnOf[d],
     lan     |-> LanOf(s, d),
     own     |-> s,
     id      |-> s,
     ll      |-> IF s = "n3" THEN "fe80" ELSE NoAttr,
     force   |-> s = "o2",
     alter   |-> s = "n2",
     nocheck |-> s = "o1",
     allow   |-> IF s \in {"o1", "o2"} THEN 1 ELSE 0,
     in4  |-> CASE s = "n3" -> ByPath [] s = "o2" -> ByPrefix [] OTHER -> <<>>,
     in6  |-> IF s = "n3" THEN ByPath ELSE <<>>,
     out4 |-> IF s = "n2" /\ d = "o1" THEN ByOrigin ELSE <<>>,
     out6 |-> IF s = "n1" THEN ByPrefix ELSE <<>>]]]

MCMartians == {"zero"}
MCLinkLocals == {"fe80"}
MCLocalHops == {"zero", "far", "west"}

-----------------------------------------------------------------------------
Asns == {1, 5, 6, 7}
Tuples == {<<a>> : a \in Asns} \cup {<<a, b>> : a, b \in Asns}
Firsts == {<<a>> : a \in {5, 7}} \cup {<<a, b>> : a \in {5, 7}, b \in Asns}
Paths == {<<Segment("SEQ", t)>> : t \in Firsts}
            \cup {<<Segment("SEQ", t), Segment(k, r)>> :
                    t \in Firsts, k \in {"SEQ", "SET"}, r \in Tuples}

Plain == [segs |-> <<>>, fam |-> 4, prefix |-> Mid, agg |-> NoAttr, comm |-> {},
          lp |-> NoAttr, med |-> NoAttr, unk |-> NoAttr, nh |-> [a |-> "x5", ll |-> NoAttr]]

ManyPaths ==
    {[Plain EXCEPT !.segs = p, !.nh.a = IF p[1].asns[1] = 5 THEN "x5" ELSE "x7"] : p \in Paths}

Locals == {[Plain EXCEPT !.fam = f, !.prefix = q] : f \in {4, 6}, q \in {Wide, Mid, Host}}

ManyAttributes ==
         {[Plain EXCEPT !.segs = <<Segment("SEQ", <<5, a>>)>>, !.agg = g, !.comm = c, !.prefix = q] :
             a \in {6, 7}, g \in {NoAttr, 5, 7}, c \in {{}, {"keep"}}, q \in {Wide, Mid, Host}}
    \cup {[Plain EXCEPT !.segs = <<Segment("SEQ", <<7, 5>>)>>, !.fam = f, !.agg = g,
                        !.nh = [a |-> h, ll |-> l], !.lp = 200, !.med = 1,
                        !.unk = [trans |-> t, partial |-> FALSE]] :
             f \in {4, 6}, g \in {NoAttr, 7}, h \in {"x7", "far", "n2", "zero"},
             l \in {NoAttr, "fe80"}, t \in BOOLEAN}

MCAnnounced == ManyPaths \cup Locals \cup ManyAttributes
=============================================================================
