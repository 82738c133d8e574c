----------------------------- MODULE GSerialized -----------------------------
(***************************************************************************)
(* The codec as its callers drive it: a store of serialized records, each  *)
(* slot one GSERIALIZED buffer a caller owns.  Every action is one public  *)
(* call of g_serialized.c run to completion (the codec is synchronous and  *)
(* keeps no state between calls):                                          *)
(*   Serialize    gserialized_from_lwgeom of a caller geometry             *)
(*   SetSrid      gserialized_set_srid on a record in place                *)
(*   Copy         gserialized_copy into another slot                       *)
(*   Reserialize  lwgeom_from_gserialized then gserialized_from_lwgeom,    *)
(*                the round trip of every function that edits a geometry   *)
(*   Free         the caller releases the buffer                           *)
(* The properties apply the read-side calls (deserialize, peeks, compare)  *)
(* to every record in the store.                                           *)
(*                                                                         *)
(* tail[s] is what lies in memory just past the buffer of slot s: chosen   *)
(* when the buffer is allocated and fixed while it lives.  Only the        *)
(* comparator's fast path reads there (GserCompare).                       *)
(***************************************************************************)
EXTENDS GserCompare

CONSTANTS
    Slots,      \* caller-owned record buffers
    Geoms,      \* caller geometries offered to gserialized_from_lwgeom
    Srids,      \* SRIDs given with a geometry or to gserialized_set_srid
    Tails,      \* contents the allocator may leave past a buffer
    NULL        \* an empty slot

VARIABLES
    store,      \* slot -> GSERIALIZED or NULL
    orig,       \* history: slot -> the geometry the record was made from
    tail,       \* slot -> memory past the buffer
    status      \* outcome of the last call: "ok" or "size_mismatch"

vars == <<store, orig, tail, status>>

Init == /\ store = [s \in Slots |-> NULL]
        /\ orig = [s \in Slots |-> NULL]
        /\ tail \in [Slots -> Tails]
        /\ status = "ok"

\* gserialized_from_lwgeom on geometry g carrying SRID srid, into slot s.
\* On a size mismatch lwerror aborts the call and nothing is stored.
Serialize(s, g, srid) ==
    LET r == gserialized_from_lwgeom([g EXCEPT !.srid = srid])
    IN  IF r.ok
        THEN /\ store' = [store EXCEPT ![s] = r.gser]
             /\ orig' = [orig EXCEPT ![s] = [r.geom EXCEPT !.srid = clamp_srid(srid)]]
             /\ \E t \in Tails : tail' = [tail EXCEPT ![s] = t]
             /\ status' = "ok"
        ELSE /\ status' = "size_mismatch"
             /\ UNCHANGED <<store, orig, tail>>

SetSrid(s, srid) ==
    /\ store[s] # NULL
    /\ store' = [store EXCEPT ![s].srid = gserialized_set_srid(srid)]
    /\ orig' = [orig EXCEPT ![s].srid = clamp_srid(srid)]
    /\ status' = "ok"
    /\ UNCHANGED tail

\* gserialized_copy: a fresh buffer of SIZE_GET bytes with the same bytes.
Copy(s, t) ==
    /\ s # t
    /\ store[s] # NULL
    /\ store' = [store EXCEPT ![t] = store[s]]
    /\ orig' = [orig EXCEPT ![t] = orig[s]]
    /\ \E x \in Tails : tail' = [tail EXCEPT ![t] = x]
    /\ status' = "ok"

Reserialize(s) ==
    /\ store[s] # NULL
    /\ LET d == lwgeom_from_gserialized(store[s])
           r == gserialized_from_lwgeom(d.geom)
       IN  /\ ~d.err
           /\ IF r.ok
              THEN /\ store' = [store EXCEPT ![s] = r.gser]
                   /\ \E t \in Tails : tail' = [tail EXCEPT ![s] = t]
                   /\ status' = "ok"
              ELSE /\ status' = "size_mismatch"
                   /\ UNCHANGED <<store, tail>>
    /\ UNCHANGED orig

Free(s) ==
    /\ store[s] # NULL
    /\ store' = [store EXCEPT ![s] = NULL]
    /\ orig' = [orig EXCEPT ![s] = NULL]
    /\ status' = "ok"
    /\ UNCHANGED tail

Next ==
    \/ \E s \in Slots, g \in Geoms, srid \in Srids : Serialize(s, g, srid)
    \/ \E s \in Slots, srid \in Srids : SetSrid(s, srid)
    \/ \E s, t \in Slots : Copy(s, t)
    \/ \E s \in Slots : Reserialize(s)
    \/ \E s \in Slots : Free(s)

Spec == Init /\ [][Next]_vars

-----------------------------------------------------------------------------
Live == {s \in Slots : store[s] # NULL}

BoxExt(b) == IF b = NoBox THEN NoBox ELSE b.ext

\* Same geometry, flags, SRID and box extent (a box's own flag copy is not
\* part of what it says).
SameLWGeom(a, b) ==
    /\ a.node = b.node /\ a.flags = b.flags /\ a.srid = b.srid
    /\ BoxExt(a.bbox) = BoxExt(b.bbox)

\* Every record is well formed, and its size word is the byte length
\* shifted left by the two varlen bits (g->size = return_size << 2).
TypeOK ==
    /\ store \in [Slots -> [size : Nat, srid : (0..31) \X (0..255) \X (0..255),
                            flags : Flags,
                            data : Seq([k : {"u32", "f32", "lo", "hi"}, v : Int])]
                           \cup {NULL}]
    /\ status \in {"ok", "size_mismatch"}
    /\ \A s \in Live : SIZE_GET(store[s]) = 8 + 4 * Len(store[s].data)

\* gserialized_from_lwgeom never fails its own written-versus-expected size
\* check: the size walk (gserialized_from_any_size) and the writers agree on
\* every kind, including the polygon padding word.
EncodeSizeAgrees == status = "ok"

\* Every double of every record starts at an offset from the record base
\* that is a multiple of 8, whatever the nesting of polygons (odd ring
\* counts) and collections before it.
OrdinatesAligned ==
    \A s \in Live : \A i \in DOMAIN store[s].data :
        store[s].data[i].k = "lo" => (8 + 4 * (i - 1)) % 8 = 0

\* lwgeom_from_gserialized gives back, without error, the geometry the
\* record was made from as gserialized_from_lwgeom left it (box added,
\* bbox flag harmonized) with the clamped SRID, across SetSrid, Copy and
\* Reserialize.
RoundTrip ==
    \A s \in Live :
        LET d == lwgeom_from_gserialized(store[s])
        IN  ~d.err /\ SameLWGeom(d.geom, orig[s])

\* Whenever gserialized_peek_gbox_p derives a box from the bytes, it is the
\* box that full deserialization and lwgeom_calculate_gbox would give.
PeekAgreesWithDecode ==
    \A s \in Live :
        LET p == gserialized_peek_gbox_p(store[s])
        IN  p # NoBox =>
              p.ext = gbox_float_round(lwgeom_calculate_gbox(orig[s])).ext

\* gserialized_is_empty, which walks the bytes and skips children by
\* their headers only, agrees with lwgeom_is_empty of the geometry.
IsEmptyAgrees ==
    \A s \in Live : gserialized_is_empty(store[s]) = lwgeom_is_empty(orig[s])

\* gserialized_peek_first_point succeeds exactly on non-empty points, and
\* then returns the point's coordinate.
FirstPointAgrees ==
    \A s \in Live :
        LET r == gserialized_peek_first_point(store[s])
            n == orig[s].node
        IN  /\ (r.ret = "ok") <=> (n.type = POINTTYPE /\ n.pts # << >>)
            /\ r.ret = "ok" => r.point = n.pts[1]

\* No step changes the bytes of a record while the geometry it holds stays
\* the same: decoding a record and encoding the result again (Reserialize)
\* reproduces it byte for byte -- box, padding, flags and SRID included --
\* and SetSrid with the SRID it already has rewrites the same bytes.
ReserializeKeepsBytes ==
    [][\A s \in Slots :
         store[s] # NULL /\ store'[s] # NULL /\ orig'[s] = orig[s] => store'[s] = store[s]]_vars

-----------------------------------------------------------------------------
(* The comparator over the store.  Each record is compared together with   *)
(* the memory past its own buffer.                                          *)

Cmp(s, t) == gserialized_cmp(store[s], tail[s], store[t], tail[t])

\* Between records of the same SRID, swapping the operands of
\* gserialized_cmp flips the sign: fast-path hashes, emptiness, the hash
\* and box ladder, the length rule and memcmp all decide symmetrically.
CmpAntisymmetricSameSrid ==
    \A s, t \in Live :
        store[s].srid = store[t].srid => Cmp(s, t) = -Cmp(t, s)

\* The comparator law of the spec: gserialized_cmp(a, b) is minus
\* gserialized_cmp(b, a) for all records, whatever their SRIDs.
CmpAntisymmetric == \A s, t \in Live : Cmp(s, t) = -Cmp(t, s)

\* The comparator law of the spec: records with equal SRIDs and equal
\* bodies compare 0 -- in particular a gserialized_copy and its original.
CmpSameBodyIsZero ==
    \A s, t \in Live :
        store[s].srid = store[t].srid /\ Body(store[s]) = Body(store[t]) => Cmp(s, t) = 0

\* The comparator law of the spec: the order gserialized_cmp defines is
\* transitive, so a B-tree built with it is consistent -- whichever of
\* the fast path, the emptiness rule, the hash ladder, the length rule or
\* memcmp decides each of the three comparisons.
CmpTransitive ==
    \A s, t, u \in Live : Cmp(s, t) = -1 /\ Cmp(t, u) = -1 => Cmp(s, u) = -1
=============================================================================
