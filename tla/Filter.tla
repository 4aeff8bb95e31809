------------------------------- MODULE Filter -------------------------------
(* Route filters (src/src/filter.c): ordered rules over the prefix, the AS    *)
(* path and the communities of a route.  libbgp_filter_add_rule appends;      *)
(* libbgp_filter_apply_route looks at the rule added last first.              *)
(*                                                                            *)
(* A prefix is [bits, len]: a whole address and a mask length.  The IPv4 and  *)
(* IPv6 rules differ only in the width of the address.  A rule is             *)
(* [match, arg, permit].                                                      *)
EXTENDS AsPath, FiniteSetsExt

\* libbgp_prefix4_includes: the bits behind the mask do not count.
Includes(outer, inner) ==
    /\ inner.len >= outer.len
    /\ SubSeq(inner.bits, 1, outer.len) = SubSeq(outer.bits, 1, outer.len)

\* as_path_contains, over segments
PathContains(segs, asn) == segs # NoAttr /\ \E k \in 1..Count(segs) : Flat(segs)[k] = asn

Segs(u) == IF u.path = NoAttr THEN NoAttr ELSE u.path.segs

\* Deviation for the mutants: AS4_PATH is not looked at.
HasAsnTwoOctets(u, asn) == PathContains(Segs(u), asn)

\* attr_view_has_asn: either encoding of the path counts.
HasAsn(u, asn) == PathContains(Segs(u), asn) \/ PathContains(u.as4, asn)

\* as_path_origin_asn: the last ASN of the last AS_SEQUENCE, 0 when none.
OriginOf(segs) ==
    LET seqs == {i \in DOMAIN segs : segs[i].t = "SEQ" /\ segs[i].asns # <<>>}
    IN  IF segs = NoAttr \/ seqs = {} THEN 0 ELSE Last(segs[Max(seqs)].asns)

\* attr_view_origin_asn: the first path attribute that has an origin decides,
\* and AS_PATH comes before AS4_PATH in an update libbgp has built or restored.
OriginAsn(u) ==
    IF Segs(u) # NoAttr /\ OriginOf(Segs(u)) # 0 THEN OriginOf(Segs(u))
    ELSE IF u.as4 # NoAttr THEN OriginOf(u.as4) ELSE 0

MoreSpecific(rule, route) == route.len > rule.len /\ Includes(rule, route)
LessSpecific(rule, route) == route.len < rule.len /\ Includes(route, rule)

\* attr_view_has_community
HasCommunity(u, c) == c \in u.comm

\* filter_rule_matches, filter_rule_matches6
RuleMatches(r, prefix, u) ==
    CASE r.match = "PREFIX"         -> Includes(r.arg, prefix)
      [] r.match = "EXACT"          -> r.arg = prefix
      [] r.match = "MORE_SPECIFIC"  -> MoreSpecific(r.arg, prefix)
      [] r.match = "LESS_SPECIFIC"  -> LessSpecific(r.arg, prefix)
      [] r.match = "LESS_OR_EQUAL"  -> Includes(prefix, r.arg)
      [] r.match = "CONTAINS"       -> HasAsn(u, r.arg)
      [] r.match = "NOT_CONTAINS"   -> ~HasAsn(u, r.arg)
      [] r.match = "ORIGIN"         -> OriginAsn(u) # 0 /\ OriginAsn(u) = r.arg
      [] r.match = "NOT_ORIGIN"     -> OriginAsn(u) # 0 /\ OriginAsn(u) # r.arg
      [] r.match = "COMMUNITY"      -> HasCommunity(u, r.arg)
      [] r.match = "NOT_COMMUNITY"  -> ~HasCommunity(u, r.arg)
      [] r.match = "ANY"            -> TRUE

\* libbgp_filter_apply_route, libbgp_filter_apply_route6, with the default every caller in fsm.c gives.
Permits(rules, prefix, u) ==
    LET hit == {i \in DOMAIN rules : RuleMatches(rules[i], prefix, u)}
    IN  IF hit = {} THEN TRUE ELSE rules[Max(hit)].permit
=============================================================================
