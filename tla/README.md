# TLA+ models of the serialized geometry codec (liblwgeom `g_serialized.c`, `lwutil.c`)

## 1. The system

`g_serialized.c` converts between the in-memory geometry tree (LWGEOM) and
GSERIALIZED, the flat record PostGIS stores in tuples. It has five parts:

- **Flag and header codec.** The header holds the 4-byte varlen size word
  (`return_size << 2`), three SRID bytes, one flag byte, and an optional box.
  The SRID is clamped by `clamp_srid` in `lwutil.c`, then stored in 21 bits
  and sign-extended when read back.
- **Bounding-box codec.** `gserialized_from_gbox` writes a box as floats,
  with minima rounded down and maxima rounded up.
  `gserialized_read_gbox_p` reads it back.
- **Tree serializer.**
  - `gserialized_from_any_size` computes the expected size.
  - `gserialized_from_lw*` write `<type><count>` headers, ring-count tables
    with a padding word when the ring count is odd, and runs of doubles.
  - `gserialized_from_lwgeom` adds a box if the caller's policy
    (`lwgeom_needs_bbox`) wants one. It sets the bbox flag to match, then
    checks the written size against the expected size.
- **Tree deserializer.** `lw*_from_gserialized_buffer` and
  `lwgeom_from_gserialized` read the tree back. They check each collection's
  subtypes and attach the stored box, or a computed one.
- **Peek and compare.** These read the bytes directly:
  - `gserialized_peek_gbox_p` handles four simple shapes;
  - `gserialized_get_gbox_p` returns the stored box, else the peeked one,
    else one computed by full decode;
  - `gserialized_peek_first_point` and `gserialized_is_empty`;
  - the B-tree comparator `gserialized_cmp`.
  The comparator runs in this order:
  1. a fast path for two points, by the Morton interleave (`uint32_interleave_2`) of float patterns;
  2. empty before non-empty;
  3. exact equality;
  4. the sortable hash of the box centre;
  5. xmin, ymin, xmax, ymax;
  6. body length, then memcmp.

`lwutil.c` supplies the process-wide allocator and reporter hooks
(`lwgeom_set_handlers`, `lwalloc`, `lwerror`, ...), `clamp_srid`, type names
and message helpers. Among the helpers, `lwmessage_truncate` cuts a message
range to a maximum length with a `"..."` marker.

How the parts interact:
- `encode = header + box? + body`.
- `decode` reverses encode.
- The peeks and the comparator read records made by encode.
- Every error goes through `lwerror`, which calls the reporter in
  `lwerror_var`. The default reporter exits; the database's long-jumps.
  `lwgeom_set_handlers` accepts any reporter, and one that returns makes the
  code go on after the `lwerror` call, into its `return NULL` paths.
- Every buffer and tree node comes from `lwalloc` and goes back through
  `lwfree`, the hooks `lwutil.c` keeps.

The codec is synchronous, and no call keeps state between calls. So the
hard behaviours are not interleavings. They are:

- **Long sequences of legal calls.** Serialize, set the SRID, copy, decode and
  re-encode, then peek or compare. Each step must leave a record that every
  reader still interprets the same way.
- **Byte-level boundaries.**
  - The padding word must be decided identically in the size walk, the
    writer and the reader.
  - The 21-bit SRID sign.
  - The clamp fold.
  - Skipping empty children by their headers.
- **Undefined reads in the comparator.** The fast path reads a type word at
  `*(uint32_t*)(g1+8)`. That is pointer arithmetic on a `GSERIALIZED*`, so it
  reads byte 96. For a 24-byte record it also reads a y ordinate past the
  end. What those reads return depends on the memory past the buffer.

## 2. Modules

| Module | Models | State and actions |
|---|---|---|
| `GserHeader` | SRID and header codec, `clamp_srid` | operators only |
| `GserSrid` | the SRID field of one header | `srid` (3 bytes), `asked` (history); `SetSrid(s)` = `gserialized_set_srid` |
| `MortonInterleave` | `uint32_interleave_2` over integers, for the 16-bit halves `GserCompare` hashes | operators only |
| `InterleaveBits` | `uint32_interleave_2` at full width, and the HAVE_PDEP `uint32_interleave_2`, `uint32_interleave_3` and `_pdep_u64` (dead code: this file sets HAVE_PDEP to 0) | `args`; `Call2(a, b)`, `Call3(a, b, c)` |
| `GserCodec` | size walk, writers, readers, box codec, peeks | operators only |
| `GserCompare` | `gbox_get_sortable_hash`, memcmp over cells, `gserialized_cmp` with its fast path | operators only |
| `GSerialized` | the codec as callers drive it | described below |
| `GserErrorPaths` | error paths, writer dimension checks, allocation, the reporter hook | described below |
| `MessageTruncate` | `lwmessage_truncate`, checked against its own description (`DocTruncate`) | `call, result`; `Call(a)` |

The MC modules instantiate these for TLC. `MCHelpers` runs the three call
harnesses (`GserSrid`, `InterleaveBits`, `MessageTruncate`) as one specification: each step is a call of one
helper, and the others are reset. `MCGSerialized` and `MCGserErrorPaths` give the geometries, SRIDs,
tails and policies of the `GSerialized` and `GserErrorPaths` runs.

`GSerialized` state:

- `store`: slot → record or NULL;
- `orig`: history, the geometry each record was made from;
- `tail`: slot → the memory past its buffer, fixed at allocation;
- `status`: the outcome of the last call.

`GSerialized` has one action per public call:

- `Serialize`: `gserialized_from_lwgeom`, including the size check;
- `SetSrid`: `gserialized_set_srid` in place;
- `Copy`: `gserialized_copy`;
- `Reserialize`: `lwgeom_from_gserialized` followed by `gserialized_from_lwgeom`;
- `Free`.

**Abstractions.**

- **Records.** A record is `[size, srid, flags, data]`. `data` is a
  sequence of 4-byte cells: a u32 word, a box float, or the low or high half
  of a double. Byte offsets are kept exactly as the C pointer arithmetic
  makes them (`CellAt(data, o)`), so a wrong offset in a reader lands on the
  wrong cell.
- **memcmp** compares the little-endian bytes of the cells. The high word
  of a double is the real IEEE high word (`DoubleHi`).
- **Ordinates** are small naturals. Floats and doubles hold them exactly,
  so `next_float_down` and `next_float_up` are the identity on them (this is
  asserted). The float pattern used by the hash is the exact IEEE single
  pattern (`FloatWord`).
- **The hash.** The interleave runs on the upper 16 bits of each pattern.
  Their lower 16 bits are zero (also asserted), so hashes order exactly as
  the 64-bit values of the code.
- **Words as bit sets (`InterleaveBits`).** A `uint64_t` is the set of the
  positions of its one bits. `|`, `&` and `<<` are union, intersection and
  a shift that drops positions past 63. A 64-bit literal is written as its
  four 16-bit quarters (`Hex64`). `_pdep_u64(src, mask)` gives the mask bit
  of rank k the value of bit k of `src`. So the interleaves run on full
  32-bit words and 64-bit masks, which TLC's 31-bit integers cannot hold.
- **Undefined reads** are a nondeterministic `tail` per buffer: the word at
  byte 96 (a POINTTYPE word or another word) and a double past the end.
  `Copy` and every fresh allocation choose a new tail.
- **Collaborators outside `src/`** are modelled from the spec:
  - `lwgeom_calculate_gbox`, `lwgeom_is_empty`, `lwcollection_allows_subtype`,
    `lwgeom_add_bbox`;
  - the flag macros;
  - `lwgeom_needs_bbox`, a CONSTANT operator. It is given one of two
    policies: `SpecNeedsBbox` (not Point, not empty) or `PeekNeedsBbox`
    (every shape but the four peekable ones, so the peek branches are
    reached).
- **lwerror** aborts the call in `GSerialized`: nothing is stored.

`GserErrorPaths` state:

- `lwerror_var`: `"default"` (`default_errorreporter`, exit(1)), `"exit"`
  or `"return"`, the reporters a caller installs;
- `store`: slot → record or NULL;
- `trees`: a bag of the block counts of the trees the caller holds;
- `live`: blocks `lwalloc` handed out that `lwfree` has not taken back;
- `exited`, `crashed`: the process ended by exit(1) or by a NULL
  dereference (no action runs after either);
- `overflow`: a writer wrote past its buffer;
- `overread`: a decoded tree reaches past its record's declared size.

`GserErrorPaths` actions:

- `SetHandlers`: `lwgeom_set_handlers` (only a non-NULL reporter replaces the old one);
- `Encode(s, g, pa)`: `gserialized_from_lwgeom` of `g` whose point arrays
  have dimension flags `pa`. The buffer is allocated first. The writers'
  dimension checks run under the installed reporter. The write pointer is
  followed through every writer (`WriteAny`), then the size check runs;
- `Decode(s)`: `lwgeom_from_gserialized` with its allocations
  (`DecodeAny`, `DecodeChildren`, `DecodeRecord`, then `RecordOutcome` for the NULL check and the box): a leaf is its struct and
  its point array; a polygon adds a ring array when it has rings; a
  collection adds a child array when it has children; a box is one block.
  After a disallowed subtype only the collection struct is freed, and a
  child that came back NULL is kept with `subsize` 0;
- `FreeTree`, `Free`: the caller's `lwfree` of what it holds;
- `Truncate(s, k)`: a fault. The record arrives `k` bytes shorter than it was
  written, and the bytes past its new end are the old ones.

`MessageTruncate` works on a C string, modelled as the sequence of its
characters. A pointer `str + k` is the suffix from offset `k`. `strncat`
appends at most `n` characters of its source. Each character stands for its
own offset, so a range that is off by one gives a different string. The
function is split the way its branches are:
- `WholeRange` handles a range that fits;
- `StartTruncation` and `EndTruncation` handle the two directions of
  truncation;
- `OutputAlloc` is the `maxlength + 4` bytes it allocates.

A tree with NULL children is handed to `lwgeom_needs_bbox` and
`lwgeom_calculate_gbox` when the record has no box. Those are outside
`src/`, so whether they fault on the NULL is a nondeterministic choice.

## 3. Runs

| Run | cfg | Checks | Result |
|---|---|---|---|
| helpers | `MCHelpers.cfg` | `SridRoundTrip`, `ClampedAboveUserRange`, `InterleaveFullWidth`, `Interleave2PdepIsMorton`, `Interleave3IsMorton`, `TruncateAsDocumented`, `TruncateFitsAllocation` | pass, 2975 states |
| codec | `MCGSerialized_codec.cfg` | `TypeOK`, `EncodeSizeAgrees`, `OrdinatesAligned`, `RoundTrip`, `PeekAgreesWithDecode`, `IsEmptyAgrees`, `FirstPointAgrees` | pass, 793 states |
| cmp | `MCGSerialized_cmp.cfg` | `CmpAntisymmetricSameSrid` | pass, 2926 states (slot symmetry) |
| cmp_antisym | `MCGSerialized_cmp_antisym.cfg` | `CmpAntisymmetric` | **violation** |
| cmp_copy | `MCGSerialized_cmp_copy.cfg` | `CmpSameBodyIsZero` | **violation** |
| order | `MCGSerialized_order.cfg` | `CmpTransitive` | pass, 220 states (slot symmetry) |
| stable | `MCGSerialized_stable.cfg` | `ReserializeKeepsBytes` (action property) | pass, 793 states |
| errpaths_leak | `MCGserErrorPaths_leak.cfg` | `NoLeak` | **violation** |
| errpaths_null | `MCGserErrorPaths_null.cfg` | `NoNullDeref` | **violation** |
| errpaths_overflow | `MCGserErrorPaths_overflow.cfg` | `EncodeWithinBuffer` | **violation** |
| errpaths_truncated | `MCGserErrorPaths_truncated.cfg` | `DecodeWithinRecord` | **violation** |

**helpers.** `MCHelpers` composes the call harnesses of the pure
helpers: `GserSrid`, `InterleaveBits` and `MessageTruncate`. A step is one call of one helper, and the other
harnesses return to their initial states. So a state holds a single call, and each property is checked after
every call of its helper.

*SRID.* The inputs sit around every edge of the SRID handling:
- int32 extremes;
- bit 19 and bit 20 of the field;
- the user maximum and the maximum;
- multiples of the fold modulus, where a missing `+ 1` would land on a user SRID.

The run shows two things. `get(set(s)) = clamp_srid(s)` for every input.
Every SRID above the maximum lands in the reserved band.

*Interleave.* `InterleaveBits` takes full 32-bit words: none, all, each single bit, the
float patterns of 1.0 and -1.0 (sign bit set) and the two alternating
words. Both interleaves treat bits independently, so single bits reach
every position. The 3-way interleave takes triples of words around its
21-bit cut: bits 0, 1, 20, 21 and 31, the low 21 bits, and all bits. The
run shows three things:
- the default loop is the Morton code of full words (`InterleaveFullWidth`);
- the HAVE_PDEP 2-way interleave puts the first word on the even and the
  second on the odd bits of all 64 (`Interleave2PdepIsMorton`);
- `uint32_interleave_3` is the Morton code of the low
  21 bits of its three arguments (`Interleave3IsMorton`).

The two PDEP functions sit under `#if HAVE_PDEP`, which this file sets to 0,
so neither is compiled here; their properties say what a build that turns
the switch on would compute.

**codec.** One slot, under the `PeekNeedsBbox` policy.
- **Inputs.** Every kind the writers handle, in 2D, Z, M and ZM, with ordinates 0 and 1:
  - empty and non-empty points, including points carrying a cached box;
  - 2- and 3-point lines;
  - polygons with 0–3 rings, so both odd and even ring counts;
  - multipoints and multilines of 0–2 children, empty and not;
  - a multipolygon, a triangle and a circular string;
  - nested collections.
- **SRIDs.** 0, 4326, and one above the maximum.
- **What it shows.** For every reachable record:
  - the size walk agrees with the writers;
  - every double starts 8-aligned;
  - decoding gives back the geometry (with the added box and the clamped
    SRID), across SetSrid and Reserialize;
  - the peeked box equals the box of the decoded geometry;
  - `gserialized_is_empty` agrees with `lwgeom_is_empty`;
  - `peek_first_point` succeeds exactly on non-empty points, with their coordinate.

**cmp.** Two slots, under the `SpecNeedsBbox` policy.
- **Inputs.** 2D records: three points, a point with a cached box, the empty
  point, an empty multipoint, the 24-byte `MULTIPOINT(POINT EMPTY)`, and two
  lines. One of the lines, `LINESTRING(0 0, 0 2)`, ties `POINT(0 1)` on hash
  and xmin. There are two SRIDs and four tails.
- **What it shows.** The order is antisymmetric between records of one SRID, even with
  heap-dependent fast-path reads.

**order.** Three slots, one SRID. The word past every short buffer is not
POINTTYPE, so the fast path stays off (no record the model makes reaches
100 bytes without a box). The run shows that `gserialized_cmp` is transitive
across the emptiness rule, the hash ladder, the length rule and memcmp.
Each of the two excluded cases gives a cycle that is already a finding:
- with the tails of the cmp run, TLC finds a cycle through the fast path's
  reads past the buffer (finding 2);
- with two SRIDs, a cycle follows from the SRID tie (finding 1).

**stable.** The codec run's instance (one slot, every kind in four
dimension sets, polygons with 0–3 rings, SRIDs 0, 4326 and 1000000) with the
action property `ReserializeKeepsBytes`: no step changes a record's bytes
while the geometry it holds stays the same. Reserialize decodes a record
and encodes the result again, and the record comes back byte for byte:
- the stored box is carried through the decoded geometry and written again;
- the flags are harmonized to the same value;
- the padding word after an odd ring count comes back as it was;
- the SRID, clamped on the first encoding, is read and written unchanged
  (1000000 stays in the reserved band).

SetSrid with the SRID the record already has rewrites the same bytes.

*Truncate.* Messages of 1 to 6 characters. Every `startpos <= endpos`
inside the message, maxlength 0 to 7 and both directions. These cover ranges
that fit, fit exactly, or overflow by one or more, with maxlength below, at
and above the 3 characters of `"..."`.
- **`TruncateAsDocumented`.** When `maxlength >= 3`, the output is what the
  function's description says.
- **`TruncateFitsAllocation`.** For every maxlength, the output and its NUL
  fit in the `maxlength + 4` bytes allocated.
- The description also promises at most maxlength characters. That fails
  for maxlength below 3: a range longer than maxlength then comes back as
  `"..."` (`lwutil.c:291` and `:317`), which is 3 characters. The
  allocation still holds it. No caller in this repository passes a
  maxlength below 3, so this is left as a remark rather than a run.

**errpaths_\*.** One slot; the inputs of the four violation runs are
2D and M points and lines, empty and one-ring polygons, a one-point
multipoint, and collections that `gserialized_from_lwgeom` encodes without
checking their children's kinds (`MULTIPOINT(LINESTRING)` at the root, a
multipoint whose second child is a line, a collection holding such a
multipoint). Point arrays are 2D or M, so they can disagree with the
geometry, and records may arrive 8 bytes short. The block counts of a
decoded tree (`NodeBlocks`) are modelled from the spec's description of the
lwgeom structures, which live outside `src/`.

**Violations (findings).**

1. **SRID tie, `g_serialized.c:411`.** Two EMPTY points with SRIDs 0 and 4326
   compare -1 in both orders. The SRID is looked at only in the
   exact-equality step. After that, `cmp > 0 ? 1 : -1` with memcmp 0 gives -1.
   The spec requires antisymmetry and a deterministic sign (section 4.5.3,
   scenario 5).
2. **Read past the buffer, `g_serialized.c:311`.** `MULTIPOINT(POINT EMPTY)`
   and its `gserialized_copy` compare non-zero when the heap past the two
   buffers differs:
   - the word read at byte 96 is POINTTYPE, so the fast path is entered;
   - the y double is read past the 24-byte record;
   - the two hashes differ.
   This settles the spec's open question about that read against the code.
3. **Buffer overflow in the line writer, `g_serialized.c:936`** (default
   reporter). A 2D line whose point array carries M passes the Z-only check.
   The writer copies 24 bytes per point into a buffer that
   `gserialized_from_lwgeom_size` sized at 16 per point. The size check
   comes only after the copy. The spec (4.3) makes a dimension mismatch a
   fatal encoding error.
4. **Leaks on the error paths, `g_serialized.c:1282` and `:1538`**
   (returning reporter). After the size-mismatch `lwerror`,
   `gserialized_from_lwgeom` returns NULL without freeing its buffer. The
   collection reader frees only the collection struct, not its child array
   or the children already read. The spec (section 5) requires no leak on
   any error path.
5. **NULL dereference, `g_serialized.c:1617`** (returning reporter).
   `MULTIPOINT(LINESTRING(0 0,1 1))` encodes, since the encoder does not
   check subtypes. Decoding it reports the NULL the reader returned, then
   writes `lwgeom->type` through it.
6. **No bounds checks, `g_serialized.c:1609`.** A `POINT` record 8 bytes
   short of its counts decodes, without complaint, into a point that lies
   past the record's end. The spec (4.4) requires every read to be
   bounds-checked.
**Mutants.** Every property of every passing run has a mutant in
PROJECT.json, and TLC reports exactly that property violated:
- a 20-bit sign extension;
- a clamp without `+ 1`;
- a spread step that uses the next step's mask, and the x and y masks of
  the 2-way and the y and z masks of the 3-way PDEP interleave exchanged
  (helpers);
- an unshifted size word;
- padding left out of the size walk;
- padding written after the ordinates;
- a reader that skips no padding;
- a line peek that reads one point;
- an is-empty scan that judges collections by their child count;
- a first-point peek that does not skip the box;
- a copy-pasted ymin tie-break, which also breaks transitivity in the
  order run;
- a decoder that does not read the stored box back (stable);
- a `"..."`-prefixed tail that starts one character early, and an
  allocation of `maxlength + 3` (helpers).

**Bounds.**
- **Ordinates 0 and 1 in 4 dimension sets** tell apart every axis of a box
  and every ordinate slot of a point.
- **Rings up to 3** cover both ring-count parities.
- **Collections nest one level** and have up to 2 children. That is enough
  to place an empty child before a non-empty one, and to put a polygon with
  padding after other children.
- **One slot for the codec run.** Every codec property is per record.
- **Two slots for the comparator run.** The comparator properties are about
  pairs. The slots are a symmetry set, which is sound because every property
  quantifies over all slots.
- **Three slots for the order run.** Transitivity is about triples. Nine
  geometries and one tail keep that run small.
- **Error paths.**
  - 2D and M are enough to make the point writer's Z/M check and the line
    writer's Z-only check disagree.
  - One level of nesting is enough for a failed child to be kept as NULL.
  - One slot is enough: each finding is a trace of a single record and
    its trees.
  - `MaxLive = 10` and `MaxTrees = 2` bound the heap. Leaks would otherwise
    grow it without end, and no trace of a finding needs more.

**Fairness and liveness.** None. Every call completes synchronously and
nothing waits, so every property is a safety property: invariants, and one
action property (`ReserializeKeepsBytes`).

Deadlock checking is on for the `GSerialized` runs. Free and Serialize are
always enabled there, so no run reaches a state with no successor. The
`GserErrorPaths` cfgs turn it off, because exit(1) and a NULL dereference
really do end the process.

## 4. Not modelled (yet)

- **Geodetic records.** Geocentric boxes and the geodetic sortable hash.
  Their values come from `lwgeom_calculate_gbox_geodetic`, `normalize` and
  `cart2geog`. These are trigonometry outside `src/`, which the integer
  ordinates of the model cannot represent without inventing a function.
- **Inexact floats.** The fast-path `float(2x)` and the slow-path
  `down(x) + up(x)` can disagree on non-float ordinates. Under the real box
  policy, sane memory lets the fast path in only for empty collections of
  100 bytes or more. Their "ordinates" are header words, which hash to 0 as
  floats. So only the read past the buffer (finding 2) exposes this.
  Checking it would take a toy float format in place of the IEEE patterns
  throughout `GserCodec` and `GserCompare`, only to reach a path that
  finding 2 already shows is taken by chance.
- **The collection writer's child-dimension check.** Children share the
  collection's flags in the geometry model.
- **Corrupt counts or type words.** Only records cut short are generated.
- **A failing allocator.** `lwalloc`'s result is never checked. An allocator
  that returns NULL makes every call fault at its first store, with no
  error path to check. PostGIS installs `palloc`, which raises an error
  instead of returning NULL.
- **Replacing the allocator hooks after startup.** The spec gives them at
  startup.
- **The other `lwutil.c` helpers.** The notice and debug reporters,
  `lwrealloc`, endianness, `error_if_srid_mismatch` (not called by the
  codec) and `lwtype_name` (a lookup in a table of 16 names, guarded by
  `type > 15`). They are formatting, I/O or one-line lookups, and no property
  is about them.
- **Negative `maxlength` or `endpos < startpos` in `lwmessage_truncate`.**
  No caller in this repository passes these. `strncat` would then be given
  a negative count, which becomes a huge `size_t`.
- **Cached boxes that are out of date.** `gserialized_from_lwgeom` writes a
  box the caller cached as it is; keeping it current after an in-place edit
  is the caller's contract (`lwgeom_drop_bbox`), so every cached box the
  model offers is computed from its geometry.
- **The PDEP build itself.** `HAVE_PDEP` is 0 in this file, so no build
  compiles the PDEP interleaves. `InterleaveBits` checks what they would
  compute, but not the instruction's availability on the host.

## 5. Plan for later work

1. A toy-float module, with directed rounding on a small grid, to check the
   fast-path hash against the slow one on ordinates that floats do not hold
   exactly.
2. Records with corrupt counts, for the peeks' reads.
