---------------------------- MODULE GserErrorPaths ----------------------------
(***************************************************************************)
(* The codec's error paths and its use of the lwutil.c hooks.              *)
(*                                                                         *)
(* Every error of g_serialized.c goes through lwerror, which calls the     *)
(* reporter in lwerror_var.  The default, default_errorreporter, ends the  *)
(* process with exit(1); lwgeom_set_handlers installs any other reporter,  *)
(* and one that returns makes the code go on after the lwerror call:       *)
(* the statement after it runs (return NULL, lwfree, or nothing at all).   *)
(*                                                                         *)
(* Memory is counted in blocks: live is the number of blocks lwalloc has   *)
(* handed out and lwfree has not taken back; the caller holds its records  *)
(* (one block each) and the trees lwgeom_from_gserialized returned (the    *)
(* blocks lwgeom_free releases, NodeBlocks).  A point array is one block:  *)
(* decoded ordinates are a view into the record (no copy).                 *)
(*                                                                         *)
(* pa is the dimension flags of the geometry's point arrays, which the     *)
(* caller may build apart from the geometry's own flags: the writers size  *)
(* a point by the point array, the size walk by the geometry.              *)
(***************************************************************************)
EXTENDS GserCodec, BagsExt

CONSTANTS
    Slots,      \* caller-owned record buffers
    Geoms,      \* geometries offered to gserialized_from_lwgeom
    PaDims,     \* dimension flags of their point arrays
    Reporters,  \* error reporters a caller may pass to lwgeom_set_handlers
    MaxTrees,   \* bound: decoded trees the caller holds at once
    MaxLive,    \* bound: live blocks (leaks would grow them without end)
    Truncations,\* byte counts a record may arrive short by
    NULL

ASSUME Reporters \subseteq {"exit", "return"}

VARIABLES
    lwerror_var,    \* "default", "exit" or "return"
    store,          \* slot -> record or NULL
    trees,          \* bag of the block counts of the trees the caller holds
    live,           \* blocks allocated and not freed
    exited,         \* the error reporter ended the process
    crashed,        \* the process dereferenced NULL
    overflow,       \* a writer wrote past the end of its buffer
    overread        \* a decoded tree reaches past its record's size

vars == <<lwerror_var, store, trees, live, exited, crashed, overflow, overread>>

\* lwerror: does the installed reporter return to the caller?
\* Mutant of default_errorreporter: the exit(1) is missing.
lwerror_returns_default(rep) == rep \in {"default", "return"}

lwerror_returns(rep) == rep = "return"

-----------------------------------------------------------------------------
(* Decoding with its allocations.  A reader's outcome is the node or NULL, *)
(* the bytes it reports through g_size (left 0 when it returns NULL), the   *)
(* blocks it leaves allocated, and whether lwerror ended the process.       *)

Outcome(geom, size, blocks, exit) ==
    [geom |-> geom, size |-> size, blocks |-> blocks, exit |-> exit]

Exit == Outcome(NULL, 0, 0, TRUE)

\* lwpoly_from_gserialized_buffer: the polygon, the ring pointer array when
\* there are rings, one point array per ring.
PolyBlocks(nrings) == 1 + (IF nrings > 0 THEN 1 ELSE 0) + nrings

RECURSIVE DecodeAny(_, _, _, _), DecodeChildren(_, _, _, _, _, _, _)

\* The loop of lwcollection_from_gserialized_buffer.  On a disallowed
\* subtype only the collection struct is freed (its pointer array and the
\* children read so far are not); a child that came back NULL is stored as
\* it is, and its subsize stays 0, so the next turn reads the same bytes.
DecodeChildren(t, data, o, f, rep, n, acc) ==
    IF Len(acc.geoms) = n
    THEN Outcome(Node(t, << >>, << >>, acc.geoms), o, acc.blocks, FALSE)
    ELSE IF ~lwcollection_allows_subtype(t, U32At(data, o))
         THEN IF lwerror_returns(rep) THEN Outcome(NULL, 0, acc.blocks - 1, FALSE) ELSE Exit
         ELSE LET r == DecodeAny(data, o, f, rep)
              IN  IF r.exit THEN Exit
                  ELSE DecodeChildren(t, data, o + r.size, f, rep, n,
                                      [geoms |-> Append(acc.geoms, r.geom),
                                       blocks |-> acc.blocks + r.blocks])

\* lwgeom_from_gserialized_buffer at byte offset o.  A leaf is its struct
\* and its point array (empty or a view).
DecodeAny(data, o, f, rep) ==
    LET t == U32At(data, o)
    IN  CASE t \in PtArrayTypes ->
               LET r == lwgeom_from_gserialized_buffer(data, o, f)
               IN  Outcome(r.geom, r.size, 2, FALSE)
          [] t = POLYGONTYPE ->
               LET r == lwpoly_from_gserialized_buffer(data, o, f)
               IN  Outcome(r.geom, r.size, PolyBlocks(U32At(data, o + 4)), FALSE)
          [] t \in CollectionTypes ->
               LET ngeoms == U32At(data, o + 4)
                   r == DecodeChildren(t, data, o + 8, [f EXCEPT !.bbox = FALSE], rep, ngeoms,
                                       [geoms |-> << >>,
                                        blocks |-> 1 + (IF ngeoms > 0 THEN 1 ELSE 0)])
               IN  IF r.geom = NULL THEN r ELSE [r EXCEPT !.size = r.size - o]
          [] OTHER -> IF lwerror_returns(rep) THEN Outcome(NULL, 0, 0, FALSE) ELSE Exit

\* The blocks lwgeom_free releases from a tree: what is reachable from it.
RECURSIVE NodeBlocks(_)
NodeBlocks(n) ==
    IF n = NULL THEN 0
    ELSE CASE n.type \in PtArrayTypes -> 2
           [] n.type = POLYGONTYPE ->
                1 + (IF n.rings # << >> THEN 1 ELSE 0) + Len(n.rings)
           [] OTHER ->
                1 + (IF n.geoms # << >> THEN 1 ELSE 0)
                  + FoldLeft(LAMBDA acc, c : acc + NodeBlocks(c), 0, n.geoms)

\* A NULL anywhere in a tree (a collection keeps the children that failed).
RECURSIVE HasNull(_)
HasNull(n) ==
    n = NULL \/ (n.type \in CollectionTypes /\ \E i \in DOMAIN n.geoms : HasNull(n.geoms[i]))

\* lwgeom_from_gserialized under reporter rep.  A NULL root is reported and,
\* when the reporter returns, dereferenced (lwgeom->type = g_type).  A box
\* read from the record, or computed under the policy, is one more block
\* (gbox_copy).  A tree with NULL children is handed to lwgeom_needs_bbox
\* and lwgeom_calculate_gbox, which walk the children: whether that faults
\* depends on the collaborators, so both outcomes are kept (nullwalk).
\* RecordOutcome is what follows the read of the data, whose result is r.
RecordOutcome(f, r, rep) ==
    LET null_root == ~r.exit /\ r.geom = NULL
        lw == [node |-> r.geom, flags |-> f, srid |-> 0, bbox |-> NoBox]
        box == IF null_root \/ r.exit THEN 0
               ELSE IF f.bbox THEN 1
               ELSE IF HasNull(r.geom) THEN 0
               ELSE IF lwgeom_needs_bbox(lw) /\ lwgeom_calculate_gbox(lw) # NoBox THEN 1
               ELSE 0
    IN  [exit |-> r.exit \/ (null_root /\ ~lwerror_returns(rep)),
         crash |-> null_root /\ lwerror_returns(rep),
         nullwalk |-> ~r.exit /\ ~null_root /\ ~f.bbox /\ HasNull(r.geom),
         geom |-> r.geom,
         blocks |-> r.blocks + box,
         held |-> IF r.exit \/ null_root THEN 0 ELSE NodeBlocks(r.geom) + box,
         extent |-> IF r.exit \/ null_root THEN 0
                    ELSE 8 + (IF f.bbox THEN gbox_serialized_size(f) ELSE 0) + r.size]

\* The record's data, past its box, read by lwgeom_from_gserialized_buffer.
DecodeRecord(g, rep) ==
    RecordOutcome(g.flags,
                  DecodeAny(g.data, IF g.flags.bbox THEN gbox_serialized_size(g.flags) ELSE 0,
                            g.flags, rep),
                  rep)
-----------------------------------------------------------------------------
(* Encoding with the writers' dimension checks.  The size walk sizes every *)
(* ordinate by the geometry's flags; the point, line, triangle and          *)
(* circular-string writers copy points of the point array's size; the       *)
(* polygon writer uses the polygon's flags.                                  *)

\* The writer's dimension check on a leaf: the line writer compares Z only.
LeafDimsAgree(t, f, pa) ==
    IF t = LINETYPE THEN f.z = pa.z ELSE f.z = pa.z /\ f.m = pa.m

\* gserialized_from_lwgeom_any from byte position pos: [pos, exit], the
\* write pointer when the writer returns or lwerror ends the process.
RECURSIVE WriteAny(_, _, _, _, _)
WriteAny(n, f, pa, rep, pos) ==
    CASE n.type \in PtArrayTypes ->
           IF ~LeafDimsAgree(n.type, f, pa) /\ ~lwerror_returns(rep)
           THEN [pos |-> pos, exit |-> TRUE]
           ELSE [pos |-> pos + 8 + Len(n.pts) * 8 * FLAGS_NDIMS(pa), exit |-> FALSE]
      [] n.type = POLYGONTYPE ->
           IF n.rings # << >> /\ (f.z # pa.z \/ f.m # pa.m) /\ ~lwerror_returns(rep)
           THEN [pos |-> pos + 8 + 4 * Len(n.rings) + 4 * (Len(n.rings) % 2), exit |-> TRUE]
           ELSE [pos |-> pos + gserialized_from_lwpoly_size(n, FLAGS_NDIMS(f)), exit |-> FALSE]
      [] n.type \in CollectionTypes ->
           FoldLeft(LAMBDA w, c : IF w.exit THEN w ELSE WriteAny(c, f, pa, rep, w.pos),
                    [pos |-> pos + 8, exit |-> FALSE], n.geoms)

\* gserialized_from_lwgeom under reporter rep: lwalloc(expected_size), the
\* writes, then the size check, whose lwerror is followed by "return NULL"
\* without freeing the buffer.
EncodeOutcome(geom, pa, rep) ==
    LET g1 == IF geom.bbox = NoBox /\ lwgeom_needs_bbox(geom) /\ ~lwgeom_is_empty(geom)
              THEN lwgeom_add_bbox(geom) ELSE geom
        g2 == [g1 EXCEPT !.flags.bbox = (g1.bbox # NoBox)]
        expected_size == gserialized_from_lwgeom_size(g2)
        w == WriteAny(g2.node, g2.flags, pa, rep,
                      8 + (IF g2.bbox # NoBox THEN gbox_serialized_size(g2.flags) ELSE 0))
    IN  [overflow |-> w.pos > expected_size,
         exit |-> w.exit \/ (w.pos # expected_size /\ ~lwerror_returns(rep)),
         ok |-> ~w.exit /\ w.pos = expected_size,
         gser |-> gserialized_from_lwgeom(geom).gser]

-----------------------------------------------------------------------------
(* The calls.  Once the process has exited or faulted nothing more runs.   *)

Running == ~exited /\ ~crashed

Init == /\ lwerror_var = "default"
        /\ store = [s \in Slots |-> NULL]
        /\ trees = EmptyBag
        /\ live = 0
        /\ exited = FALSE
        /\ crashed = FALSE
        /\ overflow = FALSE
        /\ overread = FALSE

\* lwgeom_set_handlers: only a non-NULL reporter replaces lwerror_var (the
\* allocator hooks are the ones given at startup and stay unchanged).
SetHandlers(errorreporter) ==
    /\ Running
    /\ lwerror_var' = IF errorreporter # NULL THEN errorreporter ELSE lwerror_var
    /\ UNCHANGED <<store, trees, live, exited, crashed, overflow, overread>>

\* gserialized_from_lwgeom of g, whose point arrays have flags pa, into s.
\* The buffer is lwalloc'ed first; NULL comes back after a reported size
\* mismatch, and the buffer stays allocated.
Encode(s, g, pa) ==
    /\ Running /\ live < MaxLive
    /\ store[s] = NULL
    /\ LET r == EncodeOutcome(g, pa, lwerror_var)
       IN  /\ store' = IF r.ok THEN [store EXCEPT ![s] = r.gser] ELSE store
           /\ live' = live + 1
           /\ exited' = r.exit
           /\ overflow' = (overflow \/ r.overflow)
    /\ UNCHANGED <<lwerror_var, trees, crashed, overread>>

\* lwgeom_from_gserialized of the record in s; the caller keeps the tree.
Decode(s) ==
    /\ Running /\ live < MaxLive /\ BagCardinality(trees) < MaxTrees
    /\ store[s] # NULL
    /\ LET r == DecodeRecord(store[s], lwerror_var)
       IN  /\ live' = live + r.blocks
           /\ exited' = r.exit
           /\ \E fault \in IF r.nullwalk THEN BOOLEAN ELSE {r.crash} : crashed' = fault
           /\ trees' = IF r.exit \/ r.crash THEN trees ELSE BagAdd(trees, r.held)
           /\ overread' = (overread \/ r.extent > SIZE_GET(store[s]))
    /\ UNCHANGED <<lwerror_var, store, overflow>>

\* The caller releases a tree: lwfree of every block reachable from it.
FreeTree(b) ==
    /\ Running
    /\ BagIn(b, trees)
    /\ trees' = BagRemove(trees, b)
    /\ live' = live - b
    /\ UNCHANGED <<lwerror_var, store, exited, crashed, overflow, overread>>

\* The caller releases a record: lwfree of its buffer.
Free(s) ==
    /\ Running
    /\ store[s] # NULL
    /\ store' = [store EXCEPT ![s] = NULL]
    /\ live' = live - 1
    /\ UNCHANGED <<lwerror_var, trees, exited, crashed, overflow, overread>>

\* A record arrives k bytes shorter than it was written (a cut or corrupt
\* datum): its size word says so, and what lies past the new end is the
\* old bytes (one of the values such memory may hold).
Truncate(s, k) ==
    /\ Running
    /\ store[s] # NULL /\ SIZE_GET(store[s]) - k >= 8
    /\ store' = [store EXCEPT ![s].size = SIZE_SET(SIZE_GET(store[s]) - k)]
    /\ UNCHANGED <<lwerror_var, trees, live, exited, crashed, overflow, overread>>

Next ==
    \/ \E er \in Reporters \cup {NULL} : SetHandlers(er)
    \/ \E s \in Slots, g \in Geoms, pa \in PaDims : Encode(s, g, pa)
    \/ \E s \in Slots : Decode(s)
    \/ \E b \in BagToSet(trees) : FreeTree(b)
    \/ \E s \in Slots : Free(s)
    \/ \E s \in Slots, k \in Truncations : Truncate(s, k)

Spec == Init /\ [][Next]_vars

-----------------------------------------------------------------------------
TypeOK ==
    /\ lwerror_var \in {"default", "exit", "return"}
    /\ IsABag(trees) /\ BagToSet(trees) \subseteq Nat
    /\ live \in Nat
    /\ exited \in BOOLEAN /\ crashed \in BOOLEAN /\ overflow \in BOOLEAN
    /\ overread \in BOOLEAN

\* No call leaks: while the process runs, every live block belongs to a
\* record or a tree the caller holds -- across the reported errors of
\* gserialized_from_lwgeom (size mismatch) and of the collection reader
\* (disallowed subtype), which return NULL when the reporter returns.
NoLeak ==
    Running => live = Cardinality({s \in Slots : store[s] # NULL}) + SumBag(trees)

\* lwgeom_from_gserialized never dereferences the NULL the reader returns
\* after a reported error.
NoNullDeref == ~crashed

\* gserialized_from_lwgeom never writes past the buffer it sized with
\* gserialized_from_lwgeom_size, before or after any dimension check.
EncodeWithinBuffer == ~overflow

\* lwgeom_from_gserialized never builds a tree that reaches past the size
\* the record declares: a record that is too short for its own counts is
\* detected (section 4.4 of the spec) rather than read past its end.
DecodeWithinRecord == ~overread

=============================================================================
