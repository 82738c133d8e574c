-------------------------- MODULE MCGserErrorPaths --------------------------
(***************************************************************************)
(* Instances of GserErrorPaths for TLC.  The geometries are the valid      *)
(* shapes whose decode allocates differently (a leaf, an empty and a       *)
(* one-ring polygon, a collection), and the collections that              *)
(* gserialized_from_lwgeom encodes without checking their children's kinds *)
(* and that the reader rejects: at the root, after a child already read,   *)
(* and one level down (with and without a stored box).  Every geometry is  *)
(* 2D or M, and its point arrays are 2D or M, so the point writer's        *)
(* mismatch, the line writer's unchecked M and the size check are reached. *)
(***************************************************************************)
EXTENDS GserErrorPaths

Flags0 == [z |-> FALSE, m |-> FALSE, bbox |-> FALSE, geodetic |-> FALSE]
FlagsM == [Flags0 EXCEPT !.m = TRUE]

Geom(f, n) == [node |-> n, flags |-> f, srid |-> SRID_UNKNOWN, bbox |-> NoBox]

Pt(f, v) == [d \in 1..FLAGS_NDIMS(f) |-> v]
PtNode(f) == Node(POINTTYPE, << Pt(f, 0) >>, << >>, << >>)
LineNode(f) == Node(LINETYPE, << Pt(f, 0), Pt(f, 1) >>, << >>, << >>)
EmptyLine == Node(LINETYPE, << >>, << >>, << >>)
Coll(t, gs) == Node(t, << >>, << >>, gs)

MCGeoms ==
    UNION {{Geom(f, PtNode(f)), Geom(f, LineNode(f))} : f \in {Flags0, FlagsM}}
    \cup {Geom(Flags0, Node(POLYGONTYPE, << >>, << >>, << >>)),
          Geom(Flags0, Node(POLYGONTYPE, << >>, << << Pt(Flags0, 0), Pt(Flags0, 1) >> >>, << >>)),
          Geom(Flags0, Coll(MULTIPOINTTYPE, << PtNode(Flags0) >>)),
          Geom(Flags0, Coll(MULTIPOINTTYPE, << LineNode(Flags0) >>)),
          Geom(Flags0, Coll(MULTIPOINTTYPE, << PtNode(Flags0), LineNode(Flags0) >>)),
          Geom(Flags0, Coll(COLLECTIONTYPE, << Coll(MULTIPOINTTYPE, << LineNode(Flags0) >>),
                                               PtNode(Flags0) >>)),
          Geom(Flags0, Coll(COLLECTIONTYPE, << Coll(MULTIPOINTTYPE, << EmptyLine >>) >>))}

MCPaDims == {Flags0, FlagsM}

MCNeedsBbox(g) == PeekNeedsBbox(g)

=============================================================================
