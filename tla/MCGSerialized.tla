---------------------------- MODULE MCGSerialized ----------------------------
(***************************************************************************)
(* Instances of GSerialized for TLC.  The geometries are built per         *)
(* dimension set (2D, Z, M, ZM) from ordinates 0 and 1, so every axis of   *)
(* a box, every ordinate slot of a point and every peek shape is told      *)
(* apart; polygons have 0 to 3 rings (odd and even counts, hence with and  *)
(* without the padding word); collections nest one level, hold empty and   *)
(* non-empty children, and include the one-child shapes the peeks accept.  *)
(***************************************************************************)
EXTENDS GSerialized

Flags0 == [z |-> FALSE, m |-> FALSE, bbox |-> FALSE, geodetic |-> FALSE]

DimFlags == {[Flags0 EXCEPT !.z = z, !.m = m] : z, m \in BOOLEAN}

Geom(f, n) == [node |-> n, flags |-> f, srid |-> SRID_UNKNOWN, bbox |-> NoBox]

\* Nodes of dimension nd.
Pt(nd, v) == [d \in 1..nd |-> v]
Mixed(nd) == [d \in 1..nd |-> d % 2]
PtNode(p) == Node(POINTTYPE, << p >>, << >>, << >>)
EmptyPt == Node(POINTTYPE, << >>, << >>, << >>)
LineNode(pts) == Node(LINETYPE, pts, << >>, << >>)
PolyNode(rings) == Node(POLYGONTYPE, << >>, rings, << >>)
Coll(t, gs) == Node(t, << >>, << >>, gs)

Points(nd) == {EmptyPt} \cup {PtNode(p) : p \in [1..nd -> {0, 1}]}

Lines(nd) ==
    {LineNode(<< >>), LineNode(<< Pt(nd, 0), Pt(nd, 1), Mixed(nd) >>)}
    \cup {LineNode(<< p, q >>) : p, q \in {Pt(nd, 0), Pt(nd, 1), Mixed(nd)}}

Polys(nd) ==
    {PolyNode(rs) : rs \in UNION {[1..k -> {<< Pt(nd, 0) >>, << Pt(nd, 0), Pt(nd, 1) >>}]
                                  : k \in 0..3}}

Others(nd) ==
    LET P0 == PtNode(Pt(nd, 0))
        P1 == PtNode(Pt(nd, 1))
        L == LineNode(<< Mixed(nd), Pt(nd, 1) >>)
        Poly1 == PolyNode(<< << Pt(nd, 0), Pt(nd, 1), Mixed(nd), Pt(nd, 0) >> >>)
    IN  {Coll(MULTIPOINTTYPE, gs) : gs \in UNION {[1..k -> {EmptyPt, P1}] : k \in 0..2}}
        \cup {Coll(MULTILINETYPE, gs)
                : gs \in UNION {[1..k -> {LineNode(<< >>), L}] : k \in 0..2}}
        \cup {Coll(MULTIPOLYGONTYPE, << >>), Coll(MULTIPOLYGONTYPE, << Poly1 >>),
              Node(TRIANGLETYPE, << Pt(nd, 0), Pt(nd, 1), Mixed(nd), Pt(nd, 0) >>, << >>, << >>),
              Node(CIRCSTRINGTYPE, << Pt(nd, 0), Mixed(nd), Pt(nd, 1) >>, << >>, << >>),
              Coll(COLLECTIONTYPE, << >>),
              Coll(COLLECTIONTYPE, << EmptyPt, Coll(MULTIPOINTTYPE, << >>) >>),
              Coll(COLLECTIONTYPE, << Coll(COLLECTIONTYPE, << EmptyPt >>), P0, Poly1 >>)}

MCGeoms ==
    LET plain == UNION {{Geom(f, n) : n \in Points(FLAGS_NDIMS(f)) \cup Lines(FLAGS_NDIMS(f))
                                            \cup Polys(FLAGS_NDIMS(f)) \cup Others(FLAGS_NDIMS(f))}
                        : f \in DimFlags}
    \* Caller geometries that already carry a computed box (lwgeom_add_bbox).
    IN  plain \cup {lwgeom_add_bbox(g) : g \in {g \in plain : g.node.type = POINTTYPE
                                                          /\ ~lwgeom_is_empty(g)}}

MCSrids == {0, 4326, 1000000}

MCTails == {[word |-> POINTTYPE, dbl |-> 0]}

\* The policies of lwgeom_needs_bbox the runs use.
MCNeedsBbox(g) == PeekNeedsBbox(g)

\* Comparator instance: 2D records, among them the 24-byte
\* MULTIPOINT(POINT EMPTY) whose fast-path y read is past its end, and
\* POINT(0 1) and LINESTRING(0 0, 0 2), whose sortable hashes and xmin tie.
MCCmpGeoms ==
    LET P(x, y) == Geom(Flags0, PtNode(<< x, y >>))
    IN  {P(0, 0), P(0, 1), P(1, 1), lwgeom_add_bbox(P(1, 1)),
         Geom(Flags0, EmptyPt),
         Geom(Flags0, Coll(MULTIPOINTTYPE, << >>)),
         Geom(Flags0, Coll(MULTIPOINTTYPE, << EmptyPt >>)),
         Geom(Flags0, LineNode(<< << 0, 0 >>, << 1, 1 >> >>)),
         Geom(Flags0, LineNode(<< << 0, 0 >>, << 0, 2 >> >>))}

MCCmpSrids == {0, 4326}

\* The word at byte 96 is POINTTYPE or not; the double past the end is 0 or 1.
MCCmpTails == [word : {POINTTYPE, LINETYPE}, dbl : {0, 1}]

MCSpecNeedsBbox(g) == SpecNeedsBbox(g)

\* Order instance: one SRID, three records at once.
MCOrderSrids == {0}

\* The word past every short buffer is not POINTTYPE: the fast path, which
\* only such a word or a record of 100 bytes or more can enable, stays off.
MCOrderTails == {[word |-> LINETYPE, dbl |-> 0]}

\* Slots are interchangeable: every property quantifies over all of them.
SlotSymmetry == Permutations(Slots)
=============================================================================
