------------------------------- MODULE Relay --------------------------------
(* A route on its way through speakers built on libbgp: what Export, AsPath   *)
(* and Filter do on one session, composed over several hops.                  *)
(*                                                                            *)
(* The speakers have ASNs of both sizes, and some of their sessions carry two *)
(* octets only, so a path is encoded, decoded and extended in turn by         *)
(* speakers that see it whole and speakers that do not.  One behaviour        *)
(* follows one copy of one route: it is originated, or announced by a foreign *)
(* speaker, and each holder then passes it on to one of its peers.  The RIB   *)
(* between (Rib, UpdateJournal) is left out: the copy is the best route.      *)
EXTENDS Export

CONSTANTS Speakers,   \* run libbgp
          Foreign,    \* do not, and only announce
          Fsm,        \* Fsm[s][d]: the configuration of s for its session with d
          Announced,  \* what the foreign speakers announce
          Filters,    \* filters the speakers may have
          LocalHops,  \* next hops of local routes
          MaxHops,    \* bound: the sessions a route crosses
          Nowhere     \* no route, no message

VARIABLES held,   \* the route a RIB holds: [at, from, ibgp, u]
          wire,   \* the UPDATE under way: [from, to, u]
          ended,  \* why the journey ended, "no" while it has not
          fam,    \* 4 or 6
          prefix,
          hops,
          truth,  \* history: the hops the route has really taken
          maker,  \* history: the real ASN of the aggregator
          past    \* history: what happened to the route

vars == <<held, wire, ended, fam, prefix, hops, truth, maker, past>>

\* The session s has with d, as s sees it.
Session(s, d) == Negotiated(Fsm[s][d], OpenOf(Fsm[d][s]))

Up(s, d) == /\ OpenAccepted(Fsm[s][d], OpenOf(Fsm[d][s]))
            /\ OpenAccepted(Fsm[d][s], OpenOf(Fsm[s][d]))

Fresh == held = Nowhere /\ wire = Nowhere /\ ended = "no"

Begin(m) == /\ fam' = m.fam /\ prefix' = m.prefix /\ maker' = m.agg
            /\ UNCHANGED <<ended, hops>>

\* libbgp_rib4_insert, libbgp_rib6_insert by the host: a local route has no
\* attributes but its next hop.
Originate(s) ==
    /\ Fresh
    /\ \E m \in Announced, a \in LocalHops :
        /\ m.segs = <<>>
        /\ Begin(m)
        /\ held' = [at |-> s, from |-> s, ibgp |-> FALSE,
                    u  |-> [Absent EXCEPT !.nh = [a |-> a, ll |-> NoAttr]]]
        /\ truth' = <<>>
        /\ past' = {}
        /\ UNCHANGED wire

\* A foreign speaker (RFC 6793) on a two-octet session: its AS4_PATH begins at
\* the n-th ASN, or names only the ASNs that AS_PATH does not.
ForeignPath(segs, wide, style, n) ==
    LET big == SelectSeq(Flat(segs), LAMBDA a : a > TwoByteMax)
    IN  IF wide THEN [path |-> [four |-> TRUE, segs |-> segs], as4 |-> NoAttr]
        ELSE [path |-> [four |-> FALSE, segs |-> PathInTwoOctets(segs)],
              as4  |-> IF big = <<>> THEN NoAttr
                       ELSE IF style = "sparse" THEN Hops(<<Segment("SEQ", big)>>)
                       ELSE PathSuffix(segs, n)]

\* An AS4_PATH of the large ASNs alone, where it cannot be taken for the end of
\* the path.
Sparse(segs) ==
    LET p == ForeignPath(segs, FALSE, "sparse", 0)
    IN  /\ \A i \in DOMAIN segs : segs[i].t = "SEQ"
        /\ p.as4 # NoAttr
        /\ ~SuffixMatches(p.path.segs, p.as4, Count(segs) - Count(p.as4))

\* The places an AS4_PATH may begin at: no ASN before it is large, and it does
\* not begin inside an AS_SET.
As4Starts(segs) ==
    LET big == FirstShadowed(segs)
    IN  IF big = 0 THEN {0} ELSE {n \in 0..(big - 1) : ~SplitsSet(segs, n)}

Announce(s, d) ==
    /\ Fresh
    /\ Up(d, s)
    /\ \E m \in Announced :
        /\ m.segs # <<>> /\ m.segs[1].asns[1] = Fsm[s][d].asn
        /\ m.fam \in Session(s, d).fams
        /\ Begin(m)
        /\ LET wide == Session(d, s).wide
           IN  \E style \in {"suffix", "sparse"}, n \in As4Starts(m.segs) :
                  LET p == ForeignPath(m.segs, wide, style, n)
                  IN  /\ wide => style = "suffix" /\ n = 0
                      /\ style = "sparse" => n = 0 /\ Sparse(m.segs)
                      /\ wire' = [from |-> s, to |-> d, u |->
                           [path |-> p.path, as4 |-> p.as4, origin |-> TRUE,
                            agg  |-> IF m.agg = NoAttr THEN NoAttr
                                     ELSE [four |-> wide, asn |-> IF wide THEN m.agg
                                                                 ELSE InTwoOctets(m.agg)],
                            agg4 |-> IF m.agg = NoAttr \/ wide \/ m.agg <= TwoByteMax
                                     THEN NoAttr ELSE m.agg,
                            comm |-> m.comm, lp |-> m.lp, med |-> m.med,
                            unk |-> m.unk, nh |-> m.nh]]
                      /\ past' = {"foreign"} \cup (IF style = "sparse" THEN {"sparse"} ELSE {})
        /\ truth' = Hops(m.segs)
        /\ UNCHANGED held

-----------------------------------------------------------------------------

\* A speaker with a large ASN prepends it, on a two-octet session, to a path
\* whose AS4_PATH is sparse: the limit PathKept and LoopsCut allow for.
BendsSparse(s, d) ==
    /\ "sparse" \in past /\ held.u.as4 # NoAttr
    /\ Fsm[s][d].asn > TwoByteMax
    /\ ~Session(s, d).wide /\ ~Session(s, d).ibgp

\* The holder's FSM for the session with d sends the route.
Send(d) ==
    LET s == held.at
        f == Fsm[s][d]
        n == Session(s, d)
        us == SendPrepared(f, n, fam, IF fam = 4 THEN UpdateFromRoute4(held.u)
                                                 ELSE UpdateFromRoute6(held.u))
    IN  /\ hops < MaxHops
        /\ Up(s, d)
        /\ d # held.from
        /\ fam \in n.fams
        /\ IF fam = 4 THEN OutFilter4Permits(f, prefix, held.u)
                      ELSE OutFilter6Permits(f, prefix, held.u)
        /\ held' = Nowhere
        /\ hops' = hops + 1
        /\ IF us = {}
           THEN /\ ended' = "failed"    \* fsm_teardown_current_established
                /\ UNCHANGED <<wire, truth, past>>
           ELSE /\ \E u \in us : wire' = [from |-> s, to |-> d, u |-> u]
                /\ truth' = IF n.ibgp THEN truth
                            ELSE <<Segment("SEQ", <<f.asn>>)>> \o truth
                /\ past' = past \cup (IF n.ibgp THEN {} ELSE {"left"})
                                \cup (IF BendsSparse(s, d) THEN {"bent"} ELSE {})
                /\ UNCHANGED ended
        /\ UNCHANGED <<fam, prefix, maker>>

\* fsm_route_event_cb
RouteEvent(d) == held # Nowhere /\ Send(d)

\* fsm_run_established_actions: an iBGP route is not sent to an iBGP peer.
AdvertiseExisting(d) ==
    /\ held # Nowhere
    /\ ~(held.ibgp /\ Session(held.at, d).ibgp)
    /\ Send(d)

\* fsm_run_once_raw_packet and fsm_apply_update
Receive ==
    /\ wire # Nowhere
    /\ LET s == wire.to
           n == Session(s, wire.from)
           u == ParseAs4(wire.u, n.wide)
           v == IF u = Invalid THEN "reset" ELSE Verdict(Fsm[s][wire.from], n, fam, prefix, u)
       IN  IF v = "kept"
           THEN /\ held' = [at |-> s, from |-> wire.from, ibgp |-> n.ibgp, u |-> u]
                /\ wire' = Nowhere
                /\ UNCHANGED ended
           ELSE /\ ended' = v
                /\ UNCHANGED <<held, wire>>
    /\ ended = "no"
    /\ UNCHANGED <<fam, prefix, hops, truth, maker, past>>

Init == /\ held = Nowhere /\ wire = Nowhere /\ ended = "no"
        /\ fam = 4 /\ prefix = Nowhere /\ hops = 0
        /\ truth = <<>> /\ maker = NoAttr /\ past = {}

Next == \/ \E s \in Speakers : Originate(s)
        \/ \E s \in Foreign, d \in Speakers : Announce(s, d)
        \/ \E d \in Speakers : RouteEvent(d) \/ AdvertiseExisting(d)
        \/ Receive

Spec == Init /\ [][Next]_vars

-----------------------------------------------------------------------------
(* Properties *)

\* The AS path survives every chain of encodings: whoever holds the route can
\* restore the path it really took, and its aggregator, from what it holds, and
\* ranks it by the true length even where it cannot read the ASNs
\* (libbgp_update_downgrade_as_path, libbgp_update_prepend_asn and
\* libbgp_update_restore_as_path on the sessions of several speakers).  Not so
\* for a path that was bent.
PathKept ==
    held # Nowhere /\ held.u.path # NoAttr /\ "bent" \notin past =>
        /\ RestoreAsPath(held.u) # Invalid
        /\ Hops(RestoreAsPath(held.u).path.segs) = truth
        /\ Len(Hops(held.u.path.segs)) = Len(truth)
        /\ RestoreAggregator(held.u).agg =
              IF maker = NoAttr THEN NoAttr ELSE [four |-> TRUE, asn |-> maker]

\* The loop check (fsm_update_exceeds_local_as) works on the true path, also
\* where the session carries two octets: a speaker that allows no route back
\* takes none that has been in its AS, and no speaker refuses one that has been
\* there no more often than it allows.  How much one that allows some takes is
\* not bounded by that number: the code counts every segment on its own.
LoopsCut ==
    LET times(s, d) == Cardinality({k \in 1..Count(truth) : Flat(truth)[k] = Fsm[s][d].asn})
    IN  "bent" \notin past =>
          /\ held # Nowhere /\ Fsm[held.at][held.from].allow = 0 => times(held.at, held.from) = 0
          /\ ended = "loop" => times(wire.to, wire.from) > Fsm[wire.to][wire.from].allow

\* The first ASN that does not fit in two octets is in an AS_SET, and not its
\* first member.
CutInSet(path) ==
    LET big == FirstShadowed(path)
    IN  big # 0 /\ SplitsSet(path, big - 1)

\* What a speaker sends, its peer can read and use: it never answers with a
\* NOTIFICATION, and it ignores the route only for a loop or its own filter,
\* because the route left its origin over iBGP with no usable next hop, or
\* because the next hop is the peer itself, where a foreign speaker said so or
\* the route came back to an AS that allows it; IPv4 routes also because the
\* peer's FSM takes IPv6 only, of which its OPEN says nothing
\* (fsm_send_prepared_update against fsm_apply_update).  The one route that
\* cannot be sent, and takes the session down instead
\* (fsm_teardown_current_established), is one with an AS_SET that AS4_PATH
\* would have to cut.
PeersUnderstand ==
    /\ ended # "reset"
    /\ ended = "family" => fam = 4 /\ ~Fsm[wire.to][wire.from].mp4
    /\ ended = "nexthop" /\ wire.from \in Speakers =>
          \/ Session(wire.from, wire.to).ibgp /\ wire.u.nh.a \in Martians
          \/ /\ wire.u.nh.a = Fsm[wire.to][wire.from].own
             /\ "foreign" \in past \/ PathContains(truth, Fsm[wire.to][wire.from].asn)
    /\ ended = "failed" => CutInSet(truth)

\* A rule, read off the true path and the addresses a prefix covers.
Covers(outer, inner) ==
    \A i \in 1..outer.len : i <= inner.len /\ outer.bits[i] = inner.bits[i]

TrueOrigin(path) ==
    LET last == {i \in DOMAIN path : path[i].t = "SEQ"}
    IN  IF last = {} THEN 0 ELSE path[Max(last)].asns[1]

Holds(r, u) ==
    CASE r.match = "CONTAINS"      -> PathContains(truth, r.arg)
      [] r.match = "NOT_CONTAINS"  -> ~PathContains(truth, r.arg)
      [] r.match = "ORIGIN"        -> TrueOrigin(truth) = r.arg
      [] r.match = "NOT_ORIGIN"    -> TrueOrigin(truth) \notin {0, r.arg}
      [] r.match = "COMMUNITY"     -> r.arg \in u.comm
      [] r.match = "NOT_COMMUNITY" -> r.arg \notin u.comm
      [] r.match = "ANY"           -> TRUE
      [] r.match = "PREFIX"        -> Covers(r.arg, prefix)
      [] r.match = "EXACT"         -> Covers(r.arg, prefix) /\ Covers(prefix, r.arg)
      [] r.match = "MORE_SPECIFIC" -> Covers(r.arg, prefix) /\ ~Covers(prefix, r.arg)
      [] r.match = "LESS_SPECIFIC" -> ~Covers(r.arg, prefix) /\ Covers(prefix, r.arg)
      [] r.match = "LESS_OR_EQUAL" -> Covers(prefix, r.arg)

\* A filter decides by the route, not by its encoding: the same rules permit
\* the same route at every speaker on its way, whichever of AS_PATH and
\* AS4_PATH holds the ASN (libbgp_filter_apply_route).  Not so for the rules on
\* the origin AS, which read AS_TRANS in a two-octet AS_PATH.
FiltersSeeTruth ==
    held # Nowhere /\ "bent" \notin past =>
        \A rules \in Filters :
            LET hit == {i \in DOMAIN rules : Holds(rules[i], held.u)}
            IN  \/ /\ \E i \in DOMAIN rules : rules[i].match \in {"ORIGIN", "NOT_ORIGIN"}
                   /\ held.u.path # NoAttr /\ ~held.u.path.four
                \/ Permits(rules, prefix, held.u) <=>
                      \A i \in hit : rules[i].permit \/ \E j \in hit : j > i

\* What belongs to one AS stays there: LOCAL_PREF and MED never reach another
\* AS, and an attribute libbgp does not know arrives marked partial or not at
\* all (fsm_update_prepare_forward_attrs over several hops).  It speaks of routes
\* that a speaker has sent out of its AS.  A LOCAL_PREF that a foreign peer sends
\* over eBGP is outside it: ignored by the speaker that receives it, and yet
\* forwarded to iBGP peers, until the route next leaves the AS.
ScopeKept ==
    held # Nowhere /\ "left" \in past =>
        /\ LocalPref(held.u, held.ibgp) = DefaultPref
        /\ held.u.med = NoAttr
        /\ held.u.unk # NoAttr => held.u.unk.trans /\ held.u.unk.partial
=============================================================================
