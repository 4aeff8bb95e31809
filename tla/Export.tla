------------------------------- MODULE Export -------------------------------
(* What one FSM makes of a route on its session (src/src/fsm.c): the OPEN it  *)
(* sends and what it negotiates, the attributes it forwards, the next hop it  *)
(* writes, and whether it accepts the UPDATE of its peer.                     *)
(*                                                                            *)
(* An FSM is configured by a record f:                                        *)
(*   asn, four         local_asn, enable_4byte_asn                            *)
(*   mp4, mp6          enable_mpbgp_ipv4, enable_mpbgp_ipv6                   *)
(*   expect            expected_peer_asn, 0 for any                           *)
(*   lan, own, id, ll  peering_lan, default_nexthop, local_bgp_id and         *)
(*                     default_nexthop6_linklocal                             *)
(*   force, alter      force_default_nexthop, ibgp_alter_nexthop              *)
(*   nocheck, allow    no_nexthop_check, allow_local_as                       *)
(*   in4, in6, out4, out6   the filters, sequences of rules                   *)
(* The other settings that exist for IPv4 and for IPv6 are one field; lan     *)
(* is the set of the addresses of the peering LAN.  An update has, besides    *)
(* the fields of AsPath, origin (present or not), comm (communities), lp      *)
(* (LOCAL_PREF), med, unk (an attribute libbgp does not know, [trans,         *)
(* partial]) and nh ([a, ll], the next hop and its link-local half).          *)
EXTENDS Filter

CONSTANTS Martians,    \* addresses that are no unicast host address
          LinkLocals,  \* IPv6 link-local addresses
          DefaultPref  \* the local_pref of a route without one (100)

Absent == [path |-> NoAttr, as4 |-> NoAttr, agg |-> NoAttr, agg4 |-> NoAttr,
           origin |-> FALSE, comm |-> {}, lp |-> NoAttr, med |-> NoAttr,
           unk |-> NoAttr, nh |-> NoAttr]

-----------------------------------------------------------------------------
(* OPEN *)

\* fsm_local_open_config_valid; the hold time is in FsmTimers.
LocalOpenValid(f) == f.four \/ f.asn <= TwoByteMax

\* fsm_send_open
OpenOf(f) == [bgp_id |-> f.id,
              my_asn |-> InTwoOctets(f.asn),
              cap4   |-> IF f.four THEN f.asn ELSE NoAttr,
              mp     |-> {fam \in {4, 6} : IF fam = 4 THEN f.mp4 ELSE f.mp6}]

\* libbgp_open_get_4b_asn
PeerAsn(open) == IF open.cap4 # NoAttr THEN open.cap4 ELSE open.my_asn

\* fsm_valid_peer_bgp_id
ValidPeerId(id, local) == id \notin Martians \cup {local}

\* The OPEN of the peer is taken (fsm_on_open_sent).
OpenAccepted(f, open) ==
    /\ LocalOpenValid(f)
    /\ f.expect \in {0, PeerAsn(open)}
    /\ ValidPeerId(open.bgp_id, f.id)

\* Deviation for the mutants: the peer's capability is not asked for.
UseFourByteOwn(f, open) == f.four

\* peer_4byte_asn
UseFourByte(f, open) == f.four /\ open.cap4 # NoAttr

\* fsm_negotiate_route_families.  A speaker that offers IPv6 alone takes no
\* IPv4 routes; otherwise IPv4 needs no capability.
RouteFamilies(f, open) ==
    LET four == \/ ~(f.mp6 /\ ~f.mp4)
                \/ open.mp # {} /\ f.mp4 /\ 4 \in open.mp
    IN  (IF four THEN {4} ELSE {})
            \cup (IF f.mp6 /\ 6 \in open.mp THEN {6} ELSE {})

\* What the handler of the peer's OPEN leaves in the FSM.
Negotiated(f, open) ==
    [ibgp |-> PeerAsn(open) = f.asn,
     wide |-> UseFourByte(f, open),
     as4  |-> f.four /\ ~UseFourByte(f, open),
     fams |-> RouteFamilies(f, open)]

-----------------------------------------------------------------------------
(* Forwarding *)

EnsureOrigin(u) == [u EXCEPT !.origin = TRUE]

EnsureEmptyAsPath(u) ==
    [u EXCEPT !.path = IF @ = NoAttr THEN [four |-> TRUE, segs |-> <<>>] ELSE @]

\* fsm_update_from_route4: NEXT_HOP is written anew, one address.
UpdateFromRoute4(u) == [EnsureEmptyAsPath(EnsureOrigin(u)) EXCEPT !.nh.ll = NoAttr]

\* fsm_update_from_route6: so is MP_REACH_NLRI, with the link-local half if any.
UpdateFromRoute6(u) == EnsureEmptyAsPath(EnsureOrigin(u))

\* fsm_out_filter4_permits, fsm_out_filter6_permits
OutFilter4Permits(f, prefix, u) == Permits(f.out4, prefix, u)
OutFilter6Permits(f, prefix, u) == Permits(f.out6, prefix, u)

\* libbgp_pattr_prepare_for_ebgp_forward
MarkPartial(unk) == [unk EXCEPT !.partial = TRUE]

\* Deviation for the mutants: LOCAL_PREF is forwarded to every peer.
ForwardLocalPref(u, ibgp) ==
    [u EXCEPT !.med = NoAttr,
              !.unk = IF @ = NoAttr \/ ~@.trans THEN NoAttr
                      ELSE IF ibgp THEN @ ELSE MarkPartial(@)]

\* fsm_update_prepare_forward_attrs: transitive attributes go on; LOCAL_PREF
\* stays in the AS; an unknown attribute that leaves it is marked partial.
PrepareForwardAttrs(u, ibgp) ==
    [u EXCEPT !.med = NoAttr,
              !.lp  = IF ibgp THEN @ ELSE NoAttr,
              !.unk = IF @ = NoAttr \/ ~@.trans THEN NoAttr
                      ELSE IF ibgp THEN @ ELSE MarkPartial(@)]

\* fsm_alter_nexthop4
AlterNexthop4(f, ibgp, u) ==
    IF ibgp /\ ~f.alter THEN u
    ELSE IF f.force \/ u.nh.a \notin f.lan
    THEN IF f.own \in Martians THEN Invalid
         ELSE [u EXCEPT !.nh = [a |-> f.own, ll |-> NoAttr]]
    ELSE u

\* fsm_alter_nexthop6
AlterNexthop6(f, ibgp, u) ==
    IF ibgp /\ ~f.alter THEN u
    ELSE IF f.force \/ u.nh.a \notin f.lan
    THEN IF f.own \in Martians \cup LinkLocals
            \/ f.ll \notin LinkLocals \cup {NoAttr} THEN Invalid
         ELSE [u EXCEPT !.nh = [a |-> f.own, ll |-> f.ll]]
    ELSE u

\* libbgp_pattr_write: an ASN too large for the width is refused.
WidthsFit(u) ==
    /\ u.path.four \/ \A k \in 1..Count(u.path.segs) :
                          Flat(u.path.segs)[k] <= TwoByteMax
    /\ u.agg = NoAttr \/ u.agg.four \/ u.agg.asn <= TwoByteMax

\* libbgp_update_validate and libbgp_update_write
Writable(u) == u.origin /\ u.path # NoAttr /\ WidthsFit(u)

\* fsm_clone_update: every attribute is written and read back with its own
\* width.
Clone(u) == IF WidthsFit(u) THEN u ELSE Invalid

\* fsm_send_prepared_update: the UPDATE that is sent, none when a step fails.
SendPrepared(f, n, fam, u) ==
    LET a == {PrepareForwardAttrs(v, n.ibgp) : v \in {Clone(u)} \ {Invalid}}
        b == {IF fam = 4 THEN AlterNexthop4(f, n.ibgp, v)
                         ELSE AlterNexthop6(f, n.ibgp, v) : v \in a} \ {Invalid}
        c == {IF n.wide THEN RestoreAsPath(v) ELSE DowngradeAsPath(v) : v \in b} \ {Invalid}
        d == {IF n.wide THEN RestoreAggregator(v) ELSE DowngradeAggregator(v) : v \in c}
        e == {IF n.ibgp THEN v ELSE PrependAsn(v, f.asn, n.wide) : v \in d} \ {Invalid}
    IN  {v \in e : Writable(v)}

-----------------------------------------------------------------------------
(* Acceptance *)

\* parse_as_path: segments written with the other width are malformed.
ParseAsPath(path, wide) ==
    IF path = NoAttr THEN path
    ELSE IF path.segs # <<>> /\ path.four # wide THEN Invalid
    ELSE [path EXCEPT !.four = wide]

\* libbgp_pattr_parse_as4: AS_PATH and AGGREGATOR have the width of the session.
ParseAs4(u, wide) ==
    IF ParseAsPath(u.path, wide) = Invalid \/ (u.agg # NoAttr /\ u.agg.four # wide)
    THEN Invalid
    ELSE [u EXCEPT !.path = ParseAsPath(@, wide)]

\* fsm_valid_as_path_attr
ValidAsPath(segs) == \A i \in DOMAIN segs : Len(segs[i].asns) \in 1..MaxSegment

\* fsm_validate_update; the next hop of IPv6 is part of MP_REACH_NLRI
\* (fsm_validate_update_mp_attr).
ValidUpdate(u) ==
    /\ u.origin /\ u.path # NoAttr /\ u.nh # NoAttr
    /\ \A segs \in {u.path.segs, u.as4} \ {NoAttr} : ValidAsPath(segs)

\* fsm_as_path_exceeds_local_as: segment by segment.
PathExceeds(segs, asn, allow) ==
    \E i \in DOMAIN segs :
        Cardinality({j \in DOMAIN segs[i].asns : segs[i].asns[j] = asn}) > allow

\* Deviation for the mutants: only AS_PATH as received is looked at.
ExceedsAsReceived(f, n, u) ==
    IF PathExceeds(u.path.segs, f.asn, f.allow) THEN "yes" ELSE "no"

\* fsm_update_exceeds_local_as: a peer that can send AS4_PATH is looked at
\* behind it.
Exceeds(f, n, u) ==
    LET r == IF n.as4 /\ u.as4 # NoAttr THEN RestoreAsPath(u) ELSE u
    IN  IF r = Invalid THEN "error"
        ELSE IF PathExceeds(r.path.segs, f.asn, f.allow) THEN "yes" ELSE "no"

\* Only IPv4 refuses the FSM's own address.
ValidAddr4(f, a) == a \notin Martians \cup {f.own, f.id}
ValidAddr6(a) == a \notin Martians \cup LinkLocals

Ipv4NextHopAcceptable(f, n, nh) ==
    ValidAddr4(f, nh.a) /\ (f.nocheck \/ n.ibgp \/ nh.a \in f.lan)

Ipv6NextHopAcceptable(f, n, nh) ==
    /\ ValidAddr6(nh.a) /\ nh.ll \in LinkLocals \cup {NoAttr}
    /\ f.nocheck \/ n.ibgp \/ nh.a \in f.lan

\* What the two families ask of a route before the RIB.
InAcceptable(f, n, fam, nh) ==
    IF fam = 4 THEN Ipv4NextHopAcceptable(f, n, nh) ELSE Ipv6NextHopAcceptable(f, n, nh)
InFilterPermits(f, fam, prefix, u) ==
    Permits(IF fam = 4 THEN f.in4 ELSE f.in6, prefix, u)

\* fsm_apply_update up to the RIB, for an UPDATE that advertises one prefix.
Verdict(f, n, fam, prefix, u) ==
    IF ~ValidUpdate(u) \/ Exceeds(f, n, u) = "error" THEN "reset"
    ELSE IF Exceeds(f, n, u) = "yes" THEN "loop"
    ELSE IF fam \notin n.fams THEN "family"
    ELSE IF ~InAcceptable(f, n, fam, u.nh) THEN "nexthop"
    ELSE IF ~InFilterPermits(f, fam, prefix, u) THEN "filter"
    ELSE "kept"

\* fsm_fill_route_attrs: the local_pref the RIB ranks the route with.
LocalPref(u, ibgp) == IF ibgp /\ u.lp # NoAttr THEN u.lp ELSE DefaultPref
=============================================================================
