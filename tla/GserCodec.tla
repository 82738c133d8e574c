------------------------------ MODULE GserCodec ------------------------------
(***************************************************************************)
(* Tree serializer, tree deserializer and the byte peeks of                *)
(* g_serialized.c, as operators over an abstract byte layout.              *)
(*                                                                         *)
(* Geometry.  An LWGEOM is [node, flags, srid, bbox]; a node is            *)
(* [type, pts, rings, geoms] where only the field of its kind is used; a   *)
(* point is a tuple of FLAGS_NDIMS ordinates.  Ordinates are small         *)
(* naturals: exactly representable as float and as double, so the         *)
(* directed float rounding of a box is exact on them.                      *)
(*                                                                         *)
(* Bytes.  The data part of a GSERIALIZED (everything after the 8 header   *)
(* bytes) is a sequence of 4-byte cells: "u32" a 32-bit word, "f32" a      *)
(* float of the stored box, "lo"/"hi" the two halves of a double.  Byte    *)
(* offsets are kept exactly as the C pointer arithmetic makes them: the    *)
(* cell holding byte offset o of the data is cell o \div 4 + 1.            *)
(***************************************************************************)
EXTENDS Integers, Sequences, SequencesExt, GserHeader

CONSTANTS
    NoBox,                  \* a geometry or read without a box
    lwgeom_needs_bbox(_)    \* the caller's box policy (spec section 6)

-----------------------------------------------------------------------------
(* Type numbers: the index of each name in lwgeomTypeName (lwutil.c).      *)
POINTTYPE == 1
LINETYPE == 2
POLYGONTYPE == 3
MULTIPOINTTYPE == 4
MULTILINETYPE == 5
MULTIPOLYGONTYPE == 6
COLLECTIONTYPE == 7
CIRCSTRINGTYPE == 8
COMPOUNDTYPE == 9
CURVEPOLYTYPE == 10
MULTICURVETYPE == 11
MULTISURFACETYPE == 12
POLYHEDRALSURFACETYPE == 13
TRIANGLETYPE == 14
TINTYPE == 15

\* Kinds whose body is <type><npoints><ordinates>.
PtArrayTypes == {POINTTYPE, LINETYPE, CIRCSTRINGTYPE, TRIANGLETYPE}

\* lwtype_is_collection: the kinds whose body is <type><ngeoms><children>.
CollectionTypes == {MULTIPOINTTYPE, MULTILINETYPE, MULTIPOLYGONTYPE,
                    COLLECTIONTYPE, COMPOUNDTYPE, CURVEPOLYTYPE,
                    MULTICURVETYPE, MULTISURFACETYPE,
                    POLYHEDRALSURFACETYPE, TINTYPE}

lwtype_is_collection(t) == t \in CollectionTypes

\* lwcollection_allows_subtype: admissible child kinds per collection kind.
lwcollection_allows_subtype(t, sub) ==
    CASE t = MULTIPOINTTYPE        -> sub = POINTTYPE
      [] t = MULTILINETYPE         -> sub = LINETYPE
      [] t = MULTIPOLYGONTYPE      -> sub = POLYGONTYPE
      [] t = COMPOUNDTYPE          -> sub \in {LINETYPE, CIRCSTRINGTYPE}
      [] t = CURVEPOLYTYPE         -> sub \in {LINETYPE, CIRCSTRINGTYPE, COMPOUNDTYPE}
      [] t = MULTICURVETYPE        -> sub \in {LINETYPE, CIRCSTRINGTYPE, COMPOUNDTYPE}
      [] t = MULTISURFACETYPE      -> sub \in {POLYGONTYPE, CURVEPOLYTYPE}
      [] t = POLYHEDRALSURFACETYPE -> sub = POLYGONTYPE
      [] t = TINTYPE               -> sub = TRIANGLETYPE
      [] OTHER                     -> sub \in 1..15

Node(t, pts, rings, geoms) == [type |-> t, pts |-> pts, rings |-> rings, geoms |-> geoms]

-----------------------------------------------------------------------------
(* The in-memory geometry: emptiness, box, box policy (collaborators).     *)

\* lwgeom_is_empty: no points, no rings, or only empty children.
RECURSIVE NodeIsEmpty(_)
NodeIsEmpty(n) ==
    CASE n.type \in PtArrayTypes -> n.pts = <<>>
      [] n.type = POLYGONTYPE    -> n.rings = <<>>
      [] OTHER                   -> \A i \in DOMAIN n.geoms : NodeIsEmpty(n.geoms[i])

lwgeom_is_empty(g) == NodeIsEmpty(g.node)

\* All coordinates of a node, in any order.
RECURSIVE NodePoints(_)
NodePoints(n) ==
    Range(n.pts) \cup UNION {Range(n.rings[i]) : i \in DOMAIN n.rings}
                 \cup UNION {NodePoints(n.geoms[i]) : i \in DOMAIN n.geoms}

\* Axes a box of these flags carries, with the ordinate index of each.
Axes(f) == {"x", "y"} \cup (IF f.z \/ f.geodetic THEN {"z"} ELSE {})
                      \cup (IF f.m /\ ~f.geodetic THEN {"m"} ELSE {})
AxisIndex(f, a) == CASE a = "x" -> 1 [] a = "y" -> 2 [] a = "z" -> 3
                     [] a = "m" -> 3 + B2N(f.z)

\* lwgeom_calculate_gbox (cartesian): component-wise extremes, or failure
\* (NoBox) when there is no coordinate.
lwgeom_calculate_gbox(g) ==
    LET P == NodePoints(g.node)
    IN  IF P = {} THEN NoBox
        ELSE [flags |-> g.flags,
              ext |-> [a \in Axes(g.flags) |->
                         LET V == {p[AxisIndex(g.flags, a)] : p \in P}
                         IN  <<Min(V), Max(V)>>]]

\* next_float_down / next_float_up: the float nearest below / above a
\* double.  Every ordinate of the model is an integer below 2^24, which a
\* float holds exactly, so both return their argument there.
FloatExact(v) == v \in -(2^24)..(2^24)
next_float_down(v) == IF FloatExact(v) THEN v ELSE Assert(FALSE, "inexact ordinate")
next_float_up(v) == IF FloatExact(v) THEN v ELSE Assert(FALSE, "inexact ordinate")

\* gbox_float_round: widen a box to float precision.
gbox_float_round(b) ==
    [b EXCEPT !.ext = [a \in DOMAIN b.ext |->
                         <<next_float_down(b.ext[a][1]), next_float_up(b.ext[a][2])>>]]

\* The box policies the spec names for lwgeom_needs_bbox: every kind but
\* Point and empty geometries (section 4.3), or every shape but the four
\* that peek_bbox derives without a box (section 4.5.1).
SpecNeedsBbox(g) == g.node.type # POINTTYPE /\ ~lwgeom_is_empty(g)

PeekNeedsBbox(g) ==
    LET n == g.node
    IN  ~\/ n.type = POINTTYPE
         \/ n.type = LINETYPE /\ Len(n.pts) <= 2
         \/ n.type = MULTIPOINTTYPE /\ Len(n.geoms) = 1
         \/ n.type = MULTILINETYPE /\ Len(n.geoms) = 1 /\ Len(n.geoms[1].pts) <= 2

-----------------------------------------------------------------------------
(* Cells.                                                                   *)
U32(v) == [k |-> "u32", v |-> v]
F32(v) == [k |-> "f32", v |-> v]
DoubleCells(v) == << [k |-> "lo", v |-> v], [k |-> "hi", v |-> v] >>

PointCells(p) == FlattenSeq([d \in DOMAIN p |-> DoubleCells(p[d])])
PtArrayCells(pts) == FlattenSeq([i \in DOMAIN pts |-> PointCells(pts[i])])

\* Cell of data byte offset o; a 32-bit read of a half double yields some
\* other integer, here -1.
CellAt(data, o) == data[o \div 4 + 1]
U32At(data, o) == IF CellAt(data, o).k = "u32" THEN CellAt(data, o).v ELSE -1
DoubleAt(data, o) == CellAt(data, o).v
FloatAt(data, o) == CellAt(data, o).v

-----------------------------------------------------------------------------
(* Size of the serialization (gserialized_from_*_size).                    *)

PtArrayBytes(pts, nd) == Len(pts) * nd * 8

gserialized_from_lwpoint_size(n, nd) == 4 + 4 + PtArrayBytes(n.pts, nd)
gserialized_from_lwline_size(n, nd) == 4 + 4 + PtArrayBytes(n.pts, nd)
gserialized_from_lwtriangle_size(n, nd) == 4 + 4 + PtArrayBytes(n.pts, nd)
gserialized_from_lwcircstring_size(n, nd) == 4 + 4 + PtArrayBytes(n.pts, nd)

\* Mutant of gserialized_from_lwpoly_size: the padding word is not counted.
gserialized_from_lwpoly_size_nopad(n, nd) ==
    4 + 4 + FoldLeft(LAMBDA acc, r : acc + 4 + PtArrayBytes(r, nd), 0, n.rings)

gserialized_from_lwpoly_size(n, nd) ==
    4 + 4 + (IF Len(n.rings) % 2 = 1 THEN 4 ELSE 0)
    + FoldLeft(LAMBDA acc, r : acc + 4 + PtArrayBytes(r, nd), 0, n.rings)

RECURSIVE gserialized_from_any_size(_, _)
gserialized_from_lwcollection_size(n, nd) ==
    4 + 4 + FoldLeft(LAMBDA acc, c : acc + gserialized_from_any_size(c, nd), 0, n.geoms)

gserialized_from_any_size(n, nd) ==
    CASE n.type = POINTTYPE      -> gserialized_from_lwpoint_size(n, nd)
      [] n.type = LINETYPE       -> gserialized_from_lwline_size(n, nd)
      [] n.type = POLYGONTYPE    -> gserialized_from_lwpoly_size(n, nd)
      [] n.type = TRIANGLETYPE   -> gserialized_from_lwtriangle_size(n, nd)
      [] n.type = CIRCSTRINGTYPE -> gserialized_from_lwcircstring_size(n, nd)
      [] n.type \in CollectionTypes -> gserialized_from_lwcollection_size(n, nd)

gserialized_from_lwgeom_size(g) ==
    8 + (IF g.bbox # NoBox THEN gbox_serialized_size(g.flags) ELSE 0)
      + gserialized_from_any_size(g.node, FLAGS_NDIMS(g.flags))

-----------------------------------------------------------------------------
(* Serializer (the gserialized_from_ writers).                                    *)

\* <type><npoints>, then the point when there is one.
gserialized_from_lwpoint(n) ==
    << U32(POINTTYPE), U32(Len(n.pts)) >>
    \o (IF Len(n.pts) > 0 THEN PointCells(n.pts[1]) ELSE << >>)

PtArrayBody(t, n) == << U32(t), U32(Len(n.pts)) >> \o PtArrayCells(n.pts)

gserialized_from_lwline(n) == PtArrayBody(LINETYPE, n)
gserialized_from_lwtriangle(n) == PtArrayBody(TRIANGLETYPE, n)
gserialized_from_lwcircstring(n) == PtArrayBody(CIRCSTRINGTYPE, n)

\* <type><nrings><npoints per ring>[padding]<ordinates of every ring>
\* Mutant of gserialized_from_lwpoly: the padding word is written after
\* the ordinates instead of before them.
gserialized_from_lwpoly_pad_last(n) ==
    << U32(POLYGONTYPE), U32(Len(n.rings)) >>
    \o [i \in DOMAIN n.rings |-> U32(Len(n.rings[i]))]
    \o FlattenSeq([i \in DOMAIN n.rings |-> PtArrayCells(n.rings[i])])
    \o (IF Len(n.rings) % 2 = 1 THEN << U32(0) >> ELSE << >>)

gserialized_from_lwpoly(n) ==
    << U32(POLYGONTYPE), U32(Len(n.rings)) >>
    \o [i \in DOMAIN n.rings |-> U32(Len(n.rings[i]))]
    \o (IF Len(n.rings) % 2 = 1 THEN << U32(0) >> ELSE << >>)
    \o FlattenSeq([i \in DOMAIN n.rings |-> PtArrayCells(n.rings[i])])

RECURSIVE gserialized_from_lwgeom_any(_)
gserialized_from_lwcollection(n) ==
    << U32(n.type), U32(Len(n.geoms)) >>
    \o FlattenSeq([i \in DOMAIN n.geoms |-> gserialized_from_lwgeom_any(n.geoms[i])])

gserialized_from_lwgeom_any(n) ==
    CASE n.type = POINTTYPE      -> gserialized_from_lwpoint(n)
      [] n.type = LINETYPE       -> gserialized_from_lwline(n)
      [] n.type = POLYGONTYPE    -> gserialized_from_lwpoly(n)
      [] n.type = TRIANGLETYPE   -> gserialized_from_lwtriangle(n)
      [] n.type = CIRCSTRINGTYPE -> gserialized_from_lwcircstring(n)
      [] n.type \in CollectionTypes -> gserialized_from_lwcollection(n)

\* gserialized_from_gbox: x, y, then geocentric z, or z and m as flagged;
\* minima rounded down, maxima up.
gserialized_from_gbox(b) ==
    LET order == << "x", "y" >>
                 \o (IF b.flags.geodetic THEN << "z" >>
                     ELSE (IF b.flags.z THEN << "z" >> ELSE << >>)
                          \o (IF b.flags.m THEN << "m" >> ELSE << >>))
    IN  FlattenSeq([i \in DOMAIN order |->
                      << F32(next_float_down(b.ext[order[i]][1])),
                         F32(next_float_up(b.ext[order[i]][2])) >>])

\* lwgeom_add_bbox
lwgeom_add_bbox(g) == [g EXCEPT !.bbox = lwgeom_calculate_gbox(g)]

\* Mutant of the size word: the byte count without the varlen shift.
SIZE_SET_unshifted(n) == n

\* g->size = return_size << 2
SIZE_SET(n) == n * 4

\* gserialized_from_lwgeom: add a box if the policy wants one, harmonize the
\* bbox flag, write box and body, check the written size against the
\* computed one, then size word, SRID and flags.  Returns the record and
\* the caller's geometry as the call leaves it, or ok = FALSE when the size
\* check fails (lwerror).
gserialized_from_lwgeom(geom) ==
    LET g1 == IF geom.bbox = NoBox /\ lwgeom_needs_bbox(geom) /\ ~lwgeom_is_empty(geom)
              THEN lwgeom_add_bbox(geom) ELSE geom
        g2 == [g1 EXCEPT !.flags.bbox = (g1.bbox # NoBox)]
        expected_size == gserialized_from_lwgeom_size(g2)
        data == (IF g2.bbox # NoBox THEN gserialized_from_gbox(g2.bbox) ELSE << >>)
                \o gserialized_from_lwgeom_any(g2.node)
        return_size == 8 + 4 * Len(data)
    IN  [ok |-> expected_size = return_size,
         geom |-> g2,
         gser |-> [size |-> SIZE_SET(return_size),
                   srid |-> gserialized_set_srid(g2.srid),
                   flags |-> g2.flags,
                   data |-> data]]

-----------------------------------------------------------------------------
(* Header readers.                                                          *)

SIZE_GET(g) == g.size \div 4

\* gserialized_get_type: the word after the box, if any.
gserialized_get_type(g) ==
    U32At(g.data, IF g.flags.bbox THEN gbox_serialized_size(g.flags) ELSE 0)

\* gserialized_read_gbox_p: the stored box, or NoBox when the flag is clear.
gserialized_read_gbox_p(g) ==
    IF ~g.flags.bbox THEN NoBox
    ELSE LET f == g.flags
             slot(a) == CASE a = "x" -> 0 [] a = "y" -> 1
                          [] a = "z" -> 2 [] a = "m" -> 2 + B2N(f.z)
         IN  [flags |-> f,
              ext |-> [a \in Axes(f) |-> << FloatAt(g.data, 8 * slot(a)),
                                            FloatAt(g.data, 8 * slot(a) + 4) >>]]

-----------------------------------------------------------------------------
(* Deserializer (lw*_from_gserialized_buffer).  Each reader returns        *)
(* [geom, size, err]: the node, the bytes consumed, and whether lwerror     *)
(* was raised.                                                              *)

\* ptarray_construct_reference_data: np points viewed at byte offset o.
PtArrayAt(data, o, np, nd) ==
    [i \in 1..np |-> [d \in 1..nd |-> DoubleAt(data, o + ((i - 1) * nd + (d - 1)) * 8)]]

lwpoint_from_gserialized_buffer(data, o, f) ==
    LET nd == FLAGS_NDIMS(f)
        np == U32At(data, o + 4)
    IN  [geom |-> Node(POINTTYPE, IF np > 0 THEN PtArrayAt(data, o + 8, 1, nd) ELSE << >>,
                       << >>, << >>),
         size |-> 8 + np * nd * 8, err |-> FALSE]

PtArrayFromBuffer(t, data, o, f) ==
    LET nd == FLAGS_NDIMS(f)
        np == U32At(data, o + 4)
    IN  [geom |-> Node(t, PtArrayAt(data, o + 8, np, nd), << >>, << >>),
         size |-> 8 + nd * np * 8, err |-> FALSE]

lwline_from_gserialized_buffer(data, o, f) == PtArrayFromBuffer(LINETYPE, data, o, f)
lwtriangle_from_gserialized_buffer(data, o, f) == PtArrayFromBuffer(TRIANGLETYPE, data, o, f)
lwcircstring_from_gserialized_buffer(data, o, f) == PtArrayFromBuffer(CIRCSTRINGTYPE, data, o, f)

\* Mutant of lwpoly_from_gserialized_buffer: the ordinates are taken to
\* start right after the ring counts, without the padding word.
lwpoly_from_gserialized_buffer_nopad(data, o, f) ==
    LET nd == FLAGS_NDIMS(f)
        nrings == U32At(data, o + 4)
        npoints == [i \in 1..nrings |-> U32At(data, o + 8 + 4 * (i - 1))]
        ringStart[i \in 1..(nrings + 1)] ==
            IF i = 1 THEN o + 8 + 4 * nrings ELSE ringStart[i - 1] + 8 * nd * npoints[i - 1]
    IN  [geom |-> Node(POLYGONTYPE, << >>,
                       [i \in 1..nrings |-> PtArrayAt(data, ringStart[i], npoints[i], nd)],
                       << >>),
         size |-> ringStart[nrings + 1] - o, err |-> FALSE]

\* Ring counts follow nrings; the ordinates start after them and after the
\* padding word when nrings is odd; ring i starts where ring i-1 ended.
lwpoly_from_gserialized_buffer(data, o, f) ==
    LET nd == FLAGS_NDIMS(f)
        nrings == U32At(data, o + 4)
        npoints == [i \in 1..nrings |-> U32At(data, o + 8 + 4 * (i - 1))]
        ordinate_ptr == o + 8 + (IF nrings > 0
                                 THEN 4 * nrings + (IF nrings % 2 = 1 THEN 4 ELSE 0)
                                 ELSE 0)
        ringStart[i \in 1..(nrings + 1)] ==
            IF i = 1 THEN ordinate_ptr ELSE ringStart[i - 1] + 8 * nd * npoints[i - 1]
    IN  [geom |-> Node(POLYGONTYPE, << >>,
                       [i \in 1..nrings |-> PtArrayAt(data, ringStart[i], npoints[i], nd)],
                       << >>),
         size |-> ringStart[nrings + 1] - o, err |-> FALSE]

RECURSIVE lwgeom_from_gserialized_buffer(_, _, _), ReadChildren(_, _, _, _, _, _)

\* The loop of lwcollection_from_gserialized_buffer from child i on, at
\* byte offset o, with the children read so far in acc.
ReadChildren(t, data, o, f, n, acc) ==
    IF Len(acc) = n THEN [geoms |-> acc, end |-> o, err |-> FALSE]
    ELSE IF ~lwcollection_allows_subtype(t, U32At(data, o))
         THEN [geoms |-> acc, end |-> o, err |-> TRUE]
         ELSE LET r == lwgeom_from_gserialized_buffer(data, o, f)
              IN  IF r.err THEN [geoms |-> acc, end |-> o, err |-> TRUE]
                  ELSE ReadChildren(t, data, o + r.size, f, n, Append(acc, r.geom))

\* Children are read with the bbox flag cleared (#1254).
lwcollection_from_gserialized_buffer(data, o, f) ==
    LET t == U32At(data, o)
        ngeoms == U32At(data, o + 4)
        r == ReadChildren(t, data, o + 8, [f EXCEPT !.bbox = FALSE], ngeoms, << >>)
    IN  [geom |-> Node(t, << >>, << >>, r.geoms), size |-> r.end - o, err |-> r.err]

lwgeom_from_gserialized_buffer(data, o, f) ==
    LET t == U32At(data, o)
    IN  CASE t = POINTTYPE      -> lwpoint_from_gserialized_buffer(data, o, f)
          [] t = LINETYPE       -> lwline_from_gserialized_buffer(data, o, f)
          [] t = CIRCSTRINGTYPE -> lwcircstring_from_gserialized_buffer(data, o, f)
          [] t = POLYGONTYPE    -> lwpoly_from_gserialized_buffer(data, o, f)
          [] t = TRIANGLETYPE   -> lwtriangle_from_gserialized_buffer(data, o, f)
          [] t \in CollectionTypes -> lwcollection_from_gserialized_buffer(data, o, f)
          [] OTHER -> [geom |-> Node(t, << >>, << >>, << >>), size |-> 0, err |-> TRUE]

\* Mutant of lwgeom_from_gserialized: the stored box is not read back, the
\* box is only ever computed under the policy.
lwgeom_from_gserialized_nostored(g) ==
    LET f == g.flags
        r == lwgeom_from_gserialized_buffer(
                 g.data, IF f.bbox THEN gbox_serialized_size(f) ELSE 0, f)
        lw == [node |-> [r.geom EXCEPT !.type = gserialized_get_type(g)],
               flags |-> f, srid |-> gserialized_get_srid(g.srid), bbox |-> NoBox]
    IN  [err |-> r.err,
         geom |-> [lw EXCEPT !.bbox =
                      IF lwgeom_needs_bbox(lw) THEN lwgeom_calculate_gbox(lw) ELSE NoBox]]

\* lwgeom_from_gserialized: header, body, then the stored box, else a
\* computed one when the policy wants it, and the SRID.
lwgeom_from_gserialized(g) ==
    LET f == g.flags
        r == lwgeom_from_gserialized_buffer(
                 g.data, IF f.bbox THEN gbox_serialized_size(f) ELSE 0, f)
        lw == [node |-> [r.geom EXCEPT !.type = gserialized_get_type(g)],
               flags |-> f, srid |-> gserialized_get_srid(g.srid), bbox |-> NoBox]
        stored == gserialized_read_gbox_p(g)
    IN  [err |-> r.err,
         geom |-> [lw EXCEPT !.bbox =
                      IF stored # NoBox THEN stored
                      ELSE IF lwgeom_needs_bbox(lw) THEN lwgeom_calculate_gbox(lw)
                      ELSE NoBox]]

-----------------------------------------------------------------------------
(* Peeks: structure read straight from the bytes.                           *)

\* gserialized_is_empty_recurse: [lz, isempty] for the body at offset o.  A
\* collection stops at its first non-empty child; a leaf is empty when its
\* count is zero and always reports 8 bytes.
RECURSIVE gserialized_is_empty_recurse(_, _), EmptyChildren(_, _, _, _)
EmptyChildren(data, o, lz, i) ==
    IF i >= U32At(data, o + 4) THEN [lz |-> lz, isempty |-> TRUE]
    ELSE LET r == gserialized_is_empty_recurse(data, o + lz)
         IN  IF ~r.isempty THEN [lz |-> lz + r.lz, isempty |-> FALSE]
             ELSE EmptyChildren(data, o, lz + r.lz, i + 1)

\* Mutant of gserialized_is_empty_recurse: a collection is judged by its
\* child count alone, like a leaf.
gserialized_is_empty_recurse_flat(data, o) ==
    [lz |-> 8, isempty |-> U32At(data, o + 4) = 0]

gserialized_is_empty_recurse(data, o) ==
    IF lwtype_is_collection(U32At(data, o)) THEN EmptyChildren(data, o, 8, 0)
    ELSE [lz |-> 8, isempty |-> U32At(data, o + 4) = 0]

gserialized_is_empty(g) ==
    gserialized_is_empty_recurse(
        g.data, IF g.flags.bbox THEN gbox_serialized_size(g.flags) ELSE 0).isempty

\* Box of the points i and i+1 (0-based) of a run of doubles starting at
\* dptr[base]: the ordinate of axis a of point j is dptr[base + j*ndims + k].
PeekBox(g, base, npts) ==
    LET f == g.flags
        nd == FLAGS_NDIMS(f)
        ord(j, a) == DoubleAt(g.data, 8 * (base + j * nd + AxisIndex(f, a) - 1))
        V(a) == {ord(j, a) : j \in 0..(npts - 1)}
    IN  gbox_float_round([flags |-> f, ext |-> [a \in Axes(f) |-> << Min(V(a)), Max(V(a)) >>]])

\* Mutant of gserialized_peek_gbox_p: the line case reads one point only.
gserialized_peek_gbox_p_line1(g) ==
    LET type == gserialized_get_type(g)
        iptr(j) == U32At(g.data, 4 * j)
    IN  CASE g.flags.geodetic \/ g.flags.bbox -> NoBox
          [] type = POINTTYPE ->
                IF iptr(1) = 0 THEN NoBox ELSE PeekBox(g, 1, 1)
          [] type = LINETYPE ->
                IF iptr(1) # 2 THEN NoBox ELSE PeekBox(g, 1, 1)
          [] type = MULTIPOINTTYPE ->
                IF iptr(1) # 1 \/ iptr(3) # 1 THEN NoBox ELSE PeekBox(g, 2, 1)
          [] type = MULTILINETYPE ->
                IF iptr(1) # 1 \/ iptr(3) # 2 THEN NoBox ELSE PeekBox(g, 2, 2)
          [] OTHER -> NoBox

\* gserialized_peek_gbox_p: boxes of a non-empty point, a 2-point line, a
\* one-point multipoint and a one-line multiline of 2 points, straight from
\* the bytes; NoBox for a stored box, a geodetic record or any other shape.
gserialized_peek_gbox_p(g) ==
    LET type == gserialized_get_type(g)
        iptr(j) == U32At(g.data, 4 * j)
    IN  CASE g.flags.geodetic \/ g.flags.bbox -> NoBox
          [] type = POINTTYPE ->
                IF iptr(1) = 0 THEN NoBox ELSE PeekBox(g, 1, 1)
          [] type = LINETYPE ->
                IF iptr(1) # 2 THEN NoBox ELSE PeekBox(g, 1, 2)
          [] type = MULTIPOINTTYPE ->
                IF iptr(1) # 1 \/ iptr(3) # 1 THEN NoBox ELSE PeekBox(g, 2, 1)
          [] type = MULTILINETYPE ->
                IF iptr(1) # 1 \/ iptr(3) # 2 THEN NoBox ELSE PeekBox(g, 2, 2)
          [] OTHER -> NoBox

\* gserialized_get_gbox_p: stored box, else peeked box, else the box of the
\* deserialized geometry, float-rounded; NoBox when that fails too.
gserialized_get_gbox_p(g) ==
    LET stored == gserialized_read_gbox_p(g)
        peeked == gserialized_peek_gbox_p(g)
        calc == lwgeom_calculate_gbox(lwgeom_from_gserialized(g).geom)
    IN  CASE stored # NoBox -> stored
          [] peeked # NoBox -> peeked
          [] calc # NoBox   -> gbox_float_round(calc)
          [] OTHER          -> NoBox

\* Mutant of gserialized_peek_first_point: the stored box is not skipped.
gserialized_peek_first_point_noskip(g) ==
    LET nd == FLAGS_NDIMS(g.flags)
    IN  CASE U32At(g.data, 4) = 0        -> [ret |-> "fail"]
          [] U32At(g.data, 0) # POINTTYPE -> [ret |-> "error"]
          [] OTHER -> [ret |-> "ok", point |-> PtArrayAt(g.data, 8, 1, nd)[1]]

\* gserialized_peek_first_point: "fail" for an empty body, "error"
\* (lwerror) for any kind but a point, else the point.
gserialized_peek_first_point(g) ==
    LET start == IF g.flags.bbox THEN gserialized1_box_size(g.flags) ELSE 0
        nd == FLAGS_NDIMS(g.flags)
    IN  CASE U32At(g.data, start + 4) = 0        -> [ret |-> "fail"]
          [] U32At(g.data, start) # POINTTYPE    -> [ret |-> "error"]
          [] OTHER -> [ret |-> "ok", point |-> PtArrayAt(g.data, start + 8, 1, nd)[1]]
=============================================================================
