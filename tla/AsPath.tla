------------------------------- MODULE AsPath -------------------------------
(* The AS path of an UPDATE and its two encodings (src/src/update.c).         *)
(*                                                                            *)
(* On a session with four-octet ASNs the path is the AS_PATH attribute.  On a *)
(* two-octet session every larger ASN of AS_PATH reads AsTrans and the true   *)
(* ones travel in AS4_PATH.  A path is a sequence of segments, each an        *)
(* AS_SEQUENCE or an AS_SET of ASNs; an update is a record with at least      *)
(*   path  the AS_PATH, [four, segs], or NoAttr;                              *)
(*   as4   the segments of AS4_PATH, or NoAttr;                               *)
(*   agg   the AGGREGATOR, [four, asn], or NoAttr;                            *)
(*   agg4  the ASN of AS4_AGGREGATOR, or NoAttr.                              *)
(* An operation returns the changed update, or Invalid where the code returns *)
(* an error and leaves the update alone.                                      *)
EXTENDS Integers, Sequences, SequencesExt

CONSTANTS AsTrans,     \* the ASN that stands for any larger one (23456)
          TwoByteMax,  \* the largest ASN of two octets (65535)
          MaxSegment,  \* the ASNs a segment can count (255)
          NoAttr,      \* the attribute is not in the update
          Invalid      \* the operation was refused

ASSUME AsnAssumption ==
    /\ AsTrans \in Nat \ {0} /\ TwoByteMax \in Nat /\ AsTrans <= TwoByteMax
    /\ MaxSegment \in Nat \ {0}

Segment(t, asns) == [t |-> t, asns |-> asns]

\* The sequence f, written out: TLC evaluates a function expression anew each
\* time it is applied.
Listed(f) == f \o <<>>

Flat(p) == FlattenSeq(Listed([i \in DOMAIN p |-> p[i].asns]))

\* update_count_path_asns
Count(p) == Len(Flat(p))

\* The ASNs of p before its i-th segment.
Before(p, i) == Count(SubSeq(p, 1, i - 1))

Lower(a, b) == IF a < b THEN a ELSE b

\* A cut after n ASNs falls inside an AS_SET, whose members have no order.
SplitsSet(p, n) ==
    \E i \in DOMAIN p : /\ p[i].t = "SET"
                        /\ Before(p, i) < n
                        /\ n < Before(p, i) + Len(p[i].asns)

\* The segments of the first n ASNs, the last one cut short.
PathPrefix(p, n) ==
    LET kept == SelectSeq([i \in DOMAIN p |-> i], LAMBDA i : Before(p, i) < n)
    IN  Listed([k \in DOMAIN kept |->
            [p[kept[k]] EXCEPT !.asns =
                SubSeq(@, 1, Lower(Len(@), n - Before(p, kept[k])))]])

\* The segments after the first n ASNs, the first one cut short.
PathSuffix(p, n) ==
    LET kept == SelectSeq([i \in DOMAIN p |-> i],
                          LAMBDA i : Before(p, i) + Len(p[i].asns) > n)
    IN  Listed([k \in DOMAIN kept |->
            [p[kept[k]] EXCEPT !.asns =
                IF Before(p, kept[k]) < n
                THEN SubSeq(@, n - Before(p, kept[k]) + 1, Len(@)) ELSE @]])

\* Into the first segment when it is an AS_SEQUENCE with room, else a new one.
PrependToPath(p, asn) ==
    IF p # <<>> /\ p[1].t = "SEQ" /\ Len(p[1].asns) < MaxSegment
    THEN [p EXCEPT ![1].asns = <<asn>> \o @]
    ELSE <<Segment("SEQ", <<asn>>)>> \o p

\* Deviation for the mutants: the old AS4_PATH is put behind the whole path.
RebuildWithoutCut(p, as4, n) == p \o as4

\* The first n ASNs of p, then as4.
RebuildFromSuffix(p, as4, n) ==
    IF SplitsSet(p, n) THEN Invalid ELSE PathPrefix(p, n) \o as4

\* Each AsTrans of p replaced by the next ASN of as4.
RestoreSparse(p, as4) ==
    LET f == Flat(p)
        g == Flat(as4)
        nth(k) == Cardinality({m \in 1..k : f[m] = AsTrans})
    IN  Listed([i \in DOMAIN p |-> [p[i] EXCEPT !.asns =
            Listed([j \in DOMAIN @ |-> IF @[j] = AsTrans
                                       THEN g[nth(Before(p, i) + j)] ELSE @[j]])]])

\* update_as_path_has_as_trans_count
TransCount(p) == Cardinality({m \in 1..Count(p) : Flat(p)[m] = AsTrans})

\* update_as_path_suffix_matches_as4: what follows the first n ASNs is as4,
\* seen through two octets.
SuffixMatches(p, as4, n) ==
    \A k \in 1..Count(as4) : Flat(p)[n + k] \in {AsTrans, Flat(as4)[k]}

\* libbgp_update_restore_as_path: to the four-octet encoding.
RestoreAsPath(u) ==
    IF u.path = NoAttr THEN u
    ELSE IF u.as4 = NoAttr THEN [u EXCEPT !.path.four = TRUE]
    ELSE LET p     == u.path.segs
             start == Count(p) - Count(u.as4)
             segs  == IF start # 0 /\ TransCount(p) = Count(u.as4)
                         /\ ~SuffixMatches(p, u.as4, start)
                      THEN RestoreSparse(p, u.as4)
                      ELSE RebuildFromSuffix(p, u.as4, start)
         IN  IF start < 0 \/ segs = Invalid THEN Invalid
             ELSE [u EXCEPT !.path = [four |-> TRUE, segs |-> segs],
                            !.as4  = NoAttr]

InTwoOctets(asn) == IF asn > TwoByteMax THEN AsTrans ELSE asn

PathInTwoOctets(p) ==
    Listed([i \in DOMAIN p |-> [p[i] EXCEPT !.asns =
        Listed([j \in DOMAIN @ |-> InTwoOctets(@[j])])]])

\* update_set_attr_pair: both attributes are replaced, or neither.
SetPaths(u, path, as4) == [u EXCEPT !.path = path, !.as4 = as4]

\* update_first_as4_shadow_index: the first ASN that does not fit, 0 when all do.
FirstShadowed(p) == SelectInSeq(Flat(p), LAMBDA a : a > TwoByteMax)

\* libbgp_update_downgrade_as_path: to the two-octet encoding.  AS4_PATH
\* begins at the first ASN that does not fit.
DowngradeAsPath(u) ==
    IF u.path = NoAttr \/ ~u.path.four THEN u
    ELSE LET p     == u.path.segs
             big   == FirstShadowed(p)
         IN  IF big # 0 /\ SplitsSet(p, big - 1) THEN Invalid
             ELSE SetPaths(u, [four |-> FALSE, segs |-> PathInTwoOctets(p)],
                           IF big = 0 THEN NoAttr ELSE PathSuffix(p, big - 1))

\* libbgp_update_prepend_asn.  On a two-octet session a speaker whose ASN does
\* not fit writes AsTrans and extends AS4_PATH over the whole new path.
PrependAsn(u, asn, wide) ==
    LET old  == IF u.path = NoAttr THEN <<>> ELSE u.path.segs
        new  == PrependToPath(old, IF wide THEN asn ELSE InTwoOctets(asn))
        base == IF u.as4 = NoAttr THEN new
                ELSE IF Count(u.as4) > Count(old) THEN Invalid
                ELSE RebuildFromSuffix(new, u.as4, Count(new) - Count(u.as4))
        path == [four |-> wide, segs |-> new]
    IN  IF \/ wide /\ u.as4 # NoAttr
           \/ u.path # NoAttr /\ u.path.four # wide
        THEN Invalid
        ELSE IF wide \/ asn <= TwoByteMax THEN [u EXCEPT !.path = path]
        ELSE IF base = Invalid THEN Invalid
        ELSE SetPaths(u, path, [base EXCEPT ![1].asns[1] = asn])

RestoreAggregator(u) ==
    [u EXCEPT !.agg  = IF u.agg4 # NoAttr THEN [four |-> TRUE, asn |-> u.agg4]
                       ELSE IF u.agg # NoAttr THEN [u.agg EXCEPT !.four = TRUE]
                       ELSE NoAttr,
              !.agg4 = NoAttr]

DowngradeAggregator(u) ==
    IF u.agg = NoAttr THEN u
    ELSE [u EXCEPT
            !.agg  = [four |-> FALSE, asn |-> InTwoOctets(u.agg.asn)],
            !.agg4 = IF u.agg.four \/ u.agg.asn > TwoByteMax
                     THEN u.agg.asn ELSE @]

\* fsm_as_path_len_and_origin_as, update_validate_as_path_data and the decision
\* process look at a path hop by hop: an AS_SET is one hop.
Hops(p) ==
    FlattenSeq(Listed([i \in DOMAIN p |->
        IF p[i].t = "SET" THEN <<p[i]>>
        ELSE Listed([j \in DOMAIN p[i].asns |-> Segment("SEQ", <<p[i].asns[j]>>)])]))
=============================================================================
