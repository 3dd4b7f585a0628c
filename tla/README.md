# TLA+ models of the tile accelerator renderer core

This directory holds model-checked TLA+ specifications of `src/src/guest/pvr/tr.c`. That file is the
renderer core, called TR. TR turns a tile accelerator (TA) parameter stream into a render context:
surfaces, vertices, per-list surface arrays and triangle indices. It then hands that context to a
render backend.

## 1. The system

### Components, their state and how they interact

| Component | Code (tr.c) | State it touches | Operations |
|---|---|---|---|
| Stream driver | `tr_convert_context` 837-909, `tr_reset` 774-794 | `struct tr` (`last_vertex`, `list_type`, `vert_type`), `rc->params` | reset, then parse the background, then one loop iteration per parameter (adopt the PCW list type if no list is open, dispatch on `para_type`, record a `tr_param`). After the loop: autosort, then `tr_generate_indices` for lists 0..4 |
| Background parser | `tr_parse_bg(_vert)` 323-403 | `rc->surfs[0]`, `rc->verts[0..3]`, the opaque list | one opaque surface of 4 vertices, unpacked from a layout that depends on `bg_isp`. The fourth vertex is synthesised |
| Polygon parameter handler | `tr_parse_poly_param` 407-486 | `tr`, the open surface `rc->surfs[num_surfs]` | resets `last_vertex`, sets `vert_type`, switches on `poly_type` (volumes are skipped, an unknown type is fatal), reserves a zeroed surface, translates its ISP/TSP words and applies the list-type overrides |
| Vertex parameter handler | `tr_parse_vert_param` 488-665 | `tr.last_vertex`, `rc->verts`, the open surface | see below |
| Surface commit | `tr_reserve_surf`, `tr_reserve_vert`, `tr_commit_surf` 171-252 | `num_surfs`, `num_verts`, `lists[l]` | opaque-kind lists commit the surface whole. Translucent and punch-through strips are split into one 3-vertex surface per triangle |
| Surface sort | `tr_sort_surfaces`, `tr_compare_surf` 744-772, `msort_noalloc` (core/sort.c) | `lists[TRANSLUCENT / PUNCH_THROUGH].surfs` | computes the min z of each triangle, then merge sorts with `<=` |
| Index generator | `tr_generate_indices` 674-742 | `rc->indices`, surfaces, `lists[l]` | merges runs of equal `params.full`, emits counter-clockwise (CCW) triangles, rewrites the group root so it points into `indices`, and compacts the list |
| Render driver | `tr_render_context(_until)` 796-835 | none (read only) | draws OPAQUE, then PUNCH_THROUGH, then TRANSLUCENT, stopping after `end_surf` |
| Texture resolver | `tr_convert_texture` 112-169 | texture cache entries (`handle`, `dirty`) | looks up by `(tsp, tcw)`, destroys a dirty handle, then decodes and creates a new one |
| Decoders | `ftou8`, `fmulu8`, `PARSE_*` 257-321 | none | convert colours, uvs and intensities |
| JIT constant propagation pass | `jit/ir/passes/constant_propagation_pass.h` | none | a declaration only |

The vertex parameter handler works as follows:
- If the previous vertex ended a strip, it reserves a surface copied from the last committed one. This is how a strip inherits its state.
- It reserves 1 vertex for types 0..8, or 4 vertices for a sprite. A sprite without end of strip is fatal. A degenerate sprite returns without committing.
- Type 17 (volumes) is skipped, and any other type is fatal.
- It commits the surface at end of strip.

Everything runs on one thread, in one call. The stream is consumed in order. Handlers communicate only through `struct tr` and the render context. The surface being built is always `rc->surfs[rc->num_surfs]`, one past the committed ones. Every `CHECK` or `LOG_FATAL` aborts the process.

### Hard behaviours

- **State carried between strips.**
  - A new strip copies the last committed surface. That is the wrong surface if the previous strip committed nothing: a degenerate sprite, or a translucent strip of fewer than 3 vertices.
  - `last_vertex`, `list_type` and `vert_type` persist across parameters, and are reset only by some parameters.
- **Counter arithmetic.**
  - `tr_commit_surf` advances `num_verts` by 1 per triangle, then by 2 more. For strips shorter than 3 vertices this over-advances, with no check.
  - The index check is `CHECK_LT`, evaluated per surface inside a merged group.
- **Sort, merge and compaction.**
  - The sort must be stable.
  - Merging must coalesce every run of equal state.
  - Compaction writes into the array it is still reading.
  - The winding of a split strip depends on `strip_offset`, so it must survive the split, the sort and the merge.
- **Data recorded early, used late.** `tr_param.last_surf` is recorded during parsing and used by `render_until` after sort and merge.
- **Numeric edges.** `ftou8` casts before it clamps. A sprite is dropped only when `n.z` is exactly 0, and any other `n.z` is divided by.
- **Synthesised geometry.** A sprite's fourth corner is computed, not read, and no test compares it with the quad it completes.

### Properties, per component

- **Stream driver, handlers and commit:**
  - committed surfaces and vertices are never rewritten while parsing;
  - `num_verts` stays within the vertex array (spec §3 invariant 1);
  - punch-through surfaces use GEQUAL (spec §4.3).
- **Sort:** lists are back to front by min z, stable on ties (spec §8.4).
- **Index generator:**
  - no two adjacent surfaces of a generated list can merge (spec §8.5);
  - indices stay within capacity and name written vertices, and surface ranges lie inside the indices (spec §3 invariants 1-3).
- **End to end (refinement):** `TileRenderer` implements `TRAbstract`. While the context is built, the triangles of ended strips only grow. A whole render draws exactly them, each once, CCW, with the state of its own global parameter. A partial render draws some of them, each at most once.
- **Texture resolver:**
  - every backend texture belongs to exactly one cache entry (nothing leaks or dangles);
  - a returned handle is live and was decoded from the current texture memory.
- **Decoders:**
  - `ftou8` saturates (spec §8.8);
  - packed colours round-trip (spec §8.7);
  - `fmulu8` is a byte fixed-point multiply;
  - `PARSE_INTENSITY` never brightens and keeps alpha;
  - a colour given as float channels decodes to the same bytes as the same colour given packed (spec §4.4);
  - a 16-bit uv field is the bfloat16 of its bits, and the two fields are swapped (spec §4.4).
- **Geometry (`Quads`):**
  - the background vertices are read from the words the spec layout puts them in, for every flag combination;
  - a sprite is dropped exactly when its corners project onto a line, and otherwise its fourth corner lies on the plane of the other three with the parallelogram uv.
- **Render until:** a render until a recorded `last_surf` stops right after the draw that covers it (expected to fail for merged surfaces).

## 2. Modules

Modules are listed in build order.

1. **`SurfaceSort`**: pure operators.
   - `tr_compare_surf`, plus `msort_merge` and `msort_noalloc` (RECURSIVE). These are a top-down merge sort that takes the left element when the comparator accepts the pair. `core/sort.c` is not in this tree, so the sort is modelled from the spec.
   - Reference definitions `IsPermutationOf` and `StablySortedFrom`.
   - `MCOperators` (module 8) checks the sort against them.
2. **`TileRenderer`**: the conversion and rendering, one action per step of the code.

   | Action | Code |
   |---|---|
   | `ConvertBegin` | `tr_reset` + `tr_parse_bg` |
   | `ParseEndOfList`, `ParseUserTileClip`, `ParseObjListSet`, `ParsePolyParam`, `ParseVertParam` | one iteration of the parameter loop each, dispatched by `para_type`. Every iteration ends in `Dispatched`, the `tr_param` record |
   | `ConvertSort` | the autosort after the loop |
   | `ConvertGenerateIndices` | `tr_generate_indices` for one list. It runs 5 times |
   | `RenderContext` | `tr_render_context_until` with `-1` or with a recorded `last_surf` |

   Helper operators translate `tr_reserve_surf`, `tr_reserve_vert`, `tr_commit_surf` (`CommitTris` is its loop), `tr_sort_surfaces`, `tr_can_merge_surfs`, and `tr_generate_indices` (`GroupEnd`, `EmitGroup`, `GenGroups`, `SurfIndices`), each as a function from render context to render context.

   **State.**
   - `rc` is `struct tr_context`. Its arrays are functions over `0..Max-1`. Slots start as "stale" values, because `tr_reset` does not clear them. `rc.fatal` records that a CHECK fired: every helper leaves a fatal context alone, and the phase becomes `"fatal"`.
   - `tr` is `struct tr`. `last_vertex` is reduced to present or absent plus its end-of-strip bit.
   - `phase`, `gen_list` and `end_surf` locate the caller.
   - `drawn` is the sequence of `r_draw_ta_surface` calls.

   **Data abstraction.**
   - A vertex keeps only its z, because z is the sort key.
   - Surface params keep the depth function, both blend functions and the alpha test. Everything else is one value from `GlobalStates`, since `tr_can_merge_surfs` compares the whole word.
   - Colours, uvs and x/y are left out. No control decision reads them.
   - A sprite's plane fit becomes a choice: degenerate or not. Its arithmetic is checked in `Quads`.

   **History variables**, which no code reads, are used by the end-to-end property. `feed`, `done_strips` and `global` record which strip each vertex was fed in, at which position, under which global parameter, and which strips the stream ended.

   **Environment.** The stream is any sequence of parameters, with these TA protocol constraints:
   - within an open list, PCWs name that list;
   - volumes (poly type 6) appear only in modifier-volume lists;
   - `MinStripVerts` is the fewest vertices in a polygon strip;
   - `DegenerateSprites` says whether degenerate sprites occur.

   **Spec-modelled pieces.** `ta_pcw_list_type_valid` is in `ta.h`, which is not in this tree. It is read from spec §4.1: the list type is adopted when no list is open.
3. **`MCTileRenderer`**: model values `g1` and `g2` for global states, the small input alphabets, and symmetry over the states.
4. **`TRAbstract`**: the contract of a conversion plus a render, with no surfaces, lists or indices.
   - Variables: `stage`, the set `described` of triangles, the sequence `shown`, and `whole`.
   - Actions: `Begin`, `Build` (triangles may only be added), `Finish`, `Fail`, and `Render` (drawn triangles are distinct and described; a whole render draws all of them).
   - `MCTileRenderer` instantiates it as `TRA` with this mapping: `stage <- Stage(phase)`, `described <- StreamTris`, `shown <- DrawnTris`, `whole <- end_surf = -1`. `ImplementsTRAbstract == TRA!ASpec` is checked as a PROPERTY.
5. **`TextureCache`**: `tr_convert_texture` (tr.c:112-169) as the action `ConvertTexture(k)`, taken by `Resolve`.
   - A clean entry returns its handle. Otherwise a dirty handle is destroyed (removed from `live`), and a new handle is created, stored with `dirty` cleared, and returned.
   - A texture is abstracted to what it was decoded from (`texels[h]`): the version of its key's memory and the `palette_fmt` and `stride` registers.
   - Two environment actions are modelled from spec §4.5, because their code is not in this tree:
     - `WriteTexture`: the guest writes a key's memory, and the emulator marks the entry dirty;
     - `SetRegisters`: PAL_RAM_CTRL or TEXT_CONTROL change, and nothing is marked.
   - `returned` is a history variable: the result of the last call. It is cleared when the guest changes memory or registers, so the properties judge a handle at the moment it is returned.
   - `MCTextureCache` supplies model values for 2 keys, 2 palette formats and 1 stride, with symmetry over keys.
6. **`Decoders`**: `ftou8`, `fmulu8`, `PARSE_PACKED_COLOR`, `PARSE_FLOAT_COLOR`, `PARSE_INTENSITY` and `PARSE_UV16` as operators.
   - A float is a record `n * 2^e`, or NaN, or an infinity.
   - `FloatOfBits` is the `*(float *)&u` of `PARSE_UV16`: it decodes a binary32 word (sign, 8-bit exponent, 23-bit mantissa, subnormals, infinities and NaN). `MCOperators` checks it against `Bf16`, a separate decode of the 16-bit field by the bfloat16 definition.
   - `(int32_t)(x * 255.0f)` is `CastToInt32`. It truncates when the value fits. Otherwise the behaviour is undefined, and the model takes the outcomes the targets produce: x86-64 `cvttss2si` gives INT32_MIN, AArch64 `fcvtzs` saturates, and NaN gives 0 on AArch64.
   - TLC integers are 32-bit signed, so a `uint32_t` colour is carried as two 16-bit halves.
7. **`Quads`**: the geometry that `tr.c` synthesises, as operators.
   - `tr_parse_bg_vert` reads xyz, then uv if `bg_isp.texture`, the base colour, then the offset colour if `bg_isp.offset`, and returns the next offset. `ctx->bg_vertices` is a function from word index to word.
   - `tr_parse_bg_verts` is the part of `tr_parse_bg` after the surface setup: three vertices back to back, and the fourth as the code computes it (tr.c:385-398).
   - `SpriteCorner` is the plane fit of sprite types 15 and 16 (tr.c:617-649): the drop test on `|n|` and `n.z`, the solved z, and the fourth uv.
   - Arithmetic is exact: integer coordinates and a rational z. `vec3_normalize` scales `n` and `d` by the same factor, which cancels in z, so `n` is kept unnormalised. The model shows what the formulas compute, not float rounding. `core/math.h` is not in the tree, so the vector helpers are modelled from their names.
8. **`MCOperators`**: checks the pure operators of modules 1, 6 and 7.
   - One input per initial state: a list and its min z values, a float, a packed colour, a byte pair, a face colour with an intensity, a packed background, or three sprite corners.
   - One step makes the call (`Sort`, `DecodeFtou8`, `DecodePacked`, `DecodeFmulu8`, `DecodeIntensity`, `ParseBg`, `ParseSprite`), and the invariants compare the result with a reference definition.
   - The background buffer is packed from reference vertices by the spec §4.2 layout, with distinct uvs and colours per vertex, so a word read from the wrong offset is told apart.

## 3. Runs

| Run | cfg | Expect | Checks |
|---|---|---|---|
| `operators` | `MCOperators.cfg` | pass | `SortIsStable` (the merge sort result is sorted by minz, is a permutation of the input, and keeps ties in input order), `Ftou8Saturates`, `PackedColorRoundTrip`, `FmulU8FixedPoint`, `IntensityScalesColour`, `FloatColorAgreesWithPacked`, `Uv16PerSpec44`, `BgVertsUnpacked`, `SpriteDroppedOnlyWhenDegenerate`, `SpriteCornerOnPlane` |
| `core` | `MCTileRenderer_core.cfg` | pass | `SortedBackToFront`, `MergedMaximal`, `TypeOK`, `IndexBufferConsistent`, `CommittedDataFrozen` (action property) |
| `stream` | `MCTileRenderer_stream.cfg` | pass | `ImplementsTRAbstract` (refinement) |
| `texture` | `MCTextureCache.cfg` | pass | `TexturesOwnedByEntries`, `ReturnedTextureFresh` |
| `sprite_inherit` | `MCTileRenderer_sprite_inherit.cfg` | violation | `DrawnMatchesStream` with degenerate sprites allowed |
| `short_strip` | `MCTileRenderer_short_strip.cfg` | violation | `VertsWithinCapacity` |
| `punch_through` | `MCTileRenderer_punch_through.cfg` | violation | `PunchThroughDepthGequal` |
| `exact_fill` | `MCTileRenderer_exact_fill.cfg` | violation | `IndexAbortOnlyOnOverflow` with 12 indices |
| `decoders_huge` | `MCOperators_huge.cfg` | violation | `Ftou8Saturates` with a float of 2^24 |
| `render_until` | `MCTileRenderer_render_until.cfg` | violation | `RenderUntilStopsAtRecordedSurface` under the `stream` bounds |

**`core`**
- Bounds: 5 surfaces, 10 vertices, 16 indices, 5 parameters after the background.
- Inputs: every list the stream can name (opaque, opaque modvol, translucent, punch-through); every form (polygon, sprite, volume, the unsupported two-volume poly type 3); two global states; two depths; autosort on and off; strips of any length; degenerate sprites allowed.
- Coverage: every action fires, and every fatal path but one. The vertex capacity check is reached: a background and two sprites need 12 vertices. The index capacity check is not, because 16 indices hold everything 10 vertices and 5 parameters can describe. `exact_fill` (12 indices) reaches it. About 2.6 million distinct states, in about 30 s.

**`stream`**
- Bounds: 6 surfaces, 12 vertices, 24 indices, 5 parameters.
- Inputs: the drawn lists, only well-formed strips (at least 3 vertices), no degenerate sprites.
- Coverage: two sprites sharing a global parameter, translucent strips split into several triangles and sorted, merges across strips, and renders stopped at every recorded `last_surf`. About 1.2 million states, in about 50 s. With 6 parameters the refinement takes over 5 min.

**`texture`**
- Bounds: 2 keys, up to 2 writes to each, 2 palette formats, 6 texture creations. That is enough for a key to be rewritten twice and re-decoded while the other key holds its handle, and for a register change between lookups.
- Coverage: 18,374 states, under 1 s. Deadlock is checked: `SetRegisters` is always enabled.

**`operators`**
- Sort: every list of distinct surfaces of length up to 4, and every min-z assignment over 3 values.
- Decoders: ten floats (negative, 0, 1/256, 1/2, 3/4, 1, 2, 2^20, -2^24, NaN), 256 packed colours built from channels {0, 1, 128, 255}, all 65,536 byte pairs for `fmulu8`, 81 face colours times the ten floats for `PARSE_INTENSITY`, 625 float colours with channels in {-1, 0, 1/2, 1, 2}, and 121 pairs of 16-bit uv fields (zero, the smallest subnormal, 0.5, 1, 3, the largest finite, infinity, NaN, -0, -1, -infinity).
- Background: the four flag combinations of `bg_isp`, and three vertices from four points of a 2x2 quad. That is every field at every offset the layout can give it.
- Sprites: every choice of three corners with x, y in 0..2 and z in 0..1 (19,683 triples), collinear ones included, so both drop tests and the division are reached.
- About 251,000 states, in about 2 s.
- `decoders_huge` adds 2^24, whose product with 255 is beyond `int32_t`.

**Findings.** The violation runs record them (PROJECT.json, "findings"):
1. **Degenerate sprite (tr.c:627).** A degenerate sprite leaves `last_vertex` with end of strip set but commits nothing. The next sprite then copies the background surface and draws with opaque state.
2. **Short translucent strip (tr.c:241).** A translucent strip of one vertex advances `num_verts` past what it reserved, with no capacity check.
3. **Punch-through depth (tr.c:478).** The punch-through GEQUAL override is unreachable.
4. **Exact fill (tr.c:714).** `CHECK_LT` is strict. A background plus one opaque sprite needs exactly 12 indices, and with 12 slots the conversion aborts although it fits.
5. **`ftou8` overflow (tr.c:259).** For a channel of 2^24, `x * 255.0f` does not fit `int32_t`. The cast is undefined, and on x86-64 it yields INT32_MIN, so `ftou8` returns 0 where spec §8.8 says it saturates to 255.
6. **Render until a merged surface (tr.c:894).** `last_surf` is recorded before `tr_generate_indices` merges equal surfaces into the first of their run. A merged surface is in no list, so the render never stops early. With a background and two sprites, where the background and the first sprite share params, rendering until the first sprite also draws the second. Spec §4.9 does not say what a merged `end_surf` means.

The spec also contradicts itself on `ftou8`: §4.4 says float colours are rounded, §9 says they are not. The code truncates, as §9 says, and `Ftou8Saturates` checks the truncation.

**Mutants.** Every property of a passing run is broken by a mutant of the code it is about (PROJECT.json, "mutants"):
- a strict comparator;
- a merge that compares whole surfaces;
- a commit that drops the two tail vertices;
- a vertex reserve without the capacity check;
- a root rewrite that records the first index after emitting;
- flipped winding, and again a commit that drops the tail (both break the refinement);
- a texture resolver that skips the destroy, or one that ignores the dirty flag;
- `ftou8` wrapping instead of clamping, `fmulu8` dividing by 256, and a packed colour that takes alpha from the red byte;
- a float colour stored alpha first, and 16-bit uv fields left unswapped;
- a background vertex with its two colours swapped, a plane solve that uses `y` for the `n.x` term, and a drop test on `|n|` only.

**Why the bounds are enough.** Every control path of the handlers needs at most about 5 parameters after the background:
- inheritance after end of strip;
- a split translucent strip of 2 triangles;
- two sorted triangles with equal and unequal z;
- a merge across strips;
- every fatal check.

The capacities are chosen so that each CHECK is reached in some run. `MaxParams` 5 in `stream` does not fit two polygon strips of 3 vertices in one group. Sprites and split strips cover inheritance there.

**Fairness.** None. The code is one sequential call that ends when the stream ends or a CHECK aborts. Every property is a safety property. The TileRenderer and operator cfgs say `CHECK_DEADLOCK FALSE` because the call really returns, after rendering, after a fatal error, or after one operator call.

No liveness property is checked. The only thing the code must eventually do is finish `tr_convert_context`. Its loop advances through a finite buffer, and the model bounds that buffer by `MaxParams`, so termination holds by construction of the model. A check of it would show nothing about the code. Texture lookups are driven by the guest, and nothing in this tree guarantees any of them happens.

## 4. Not modelled

- **Pixel decoding and backend uploads** in the texture resolver. They are external collaborators; a texture is reduced to the inputs it was decoded from.
- **`PARSE_XYZ` and `PARSE_UV`.** They are plain copies. `TileRenderer` keeps the z they copy, and `Quads` keeps all of it.
- **The colour registers of the polygon handler** (`face_color`, `face_offset_color`, `sprite_color`, `sprite_offset_color`). They only feed vertex colours, and no control decision reads them. Which vertex types follow which polygon types is decided by `ta.h`, which is not in this tree.
- **The texture call of the polygon handler.** Nothing can change the cache during one conversion, so the handle is a function of `(tsp, tcw)` and is part of the global state `g`. `TextureCache` models the resolver across calls.
- **Registers left out of the texture key (tr.c:115-119).** The `(tsp, tcw)` key does not see `PAL_RAM_CTRL` or `TEXT_CONTROL`, so a register change can leave a stale texture in the cache. The TODO at tr.c:115 and spec §4.5 record this as a known gap. `TextureCache` models the registers a texture was decoded with, but no property checks the gap.
- **The mipmap offset tables (tr.c:31-74).** Nothing in `tr.c` reads them.
- **The `rc->params` capacity (tr.c:890).** `rc->params[rc->num_params++]` has no capacity check. The array size is in `tr.h`, which is not in this tree, and so is the bound on how many parameters a TA buffer holds. Whether the trail can overflow cannot be decided from this tree.
- **Face and sprite colours, uvs and x/y inside `TileRenderer`, `rc->width`/`height`, and `params[].offset`/`last_vert`.** This is data that no property tells apart. The recorded `last_vert` is kept in the trail but not checked.
- **`msort_noalloc`, `ta_pcw_list_type_valid`, texture-cache dirty marking and register writes.** They are outside this tree and are modelled from the spec.
- **A handle destroyed while an earlier context still uses it.** The texture resolver destroys a dirty handle at once. Whether an earlier context can still be rendered with it depends on the caller, which is not in this tree.
- **Float rounding in the plane fit.** `Quads` is exact. Near-degenerate sprites, where a tiny `n.z` makes the solved z huge, are not told apart from others.
- **The JIT header.** It is a declaration with no behaviour.
