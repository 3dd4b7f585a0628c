---------------------------- MODULE TextureCache ----------------------------
(***************************************************************************)
(* The texture resolver of src/src/guest/pvr/tr.c, tr_convert_texture,     *)
(* with the cache it mutates and the backend it creates textures in.       *)
(*                                                                         *)
(* The cache belongs to the caller: find_texture returns the entry for a   *)
(* (tsp, tcw) key, and the emulator marks an entry dirty when the guest    *)
(* writes its texture memory (that code is not in this tree: it is         *)
(* modelled from spec 4.5 and 6).  A decoded texture is abstracted to the  *)
(* inputs it was decoded from: the version of the key's texture memory and *)
(* the context registers the decode also reads (ctx->palette_fmt,          *)
(* ctx->stride, which the key leaves out).                                 *)
(***************************************************************************)
EXTENDS Naturals, FiniteSets

CONSTANTS
  Keys,        \* (tsp, tcw) pairs the guest uses
  PaletteFmts, \* ctx->palette_fmt values (PAL_RAM_CTRL)
  Strides,     \* ctx->stride values (TEXT_CONTROL)
  MaxWrites,   \* bound on guest writes to one key's texture memory
  MaxHandles   \* bound on r_create_texture calls

ASSUME MaxWrites \in Nat /\ MaxHandles \in Nat \ {0}

\* Handle 0 is "no texture".
Handles == 1..MaxHandles
Decode == [ver : 0..MaxWrites, pal : PaletteFmts, stride : Strides]

VARIABLES
  entry,     \* find_texture's entries: [handle, dirty]
  mem,       \* version of each key's texture memory
  regs,      \* the context registers the decode reads: [pal, stride]
  live,      \* handles the backend holds (created and not destroyed)
  texels,    \* what each created handle was decoded from
  created,   \* how many textures r_create_texture has made
  returned   \* history: the last call, [key, handle]; handle 0 before any
             \* call and after the guest changed memory or registers

vars == << entry, mem, regs, live, texels, created, returned >>

Init ==
  /\ entry = [k \in Keys |-> [handle |-> 0, dirty |-> FALSE]]
  /\ mem = [k \in Keys |-> 0]
  /\ regs \in [pal : PaletteFmts, stride : Strides]
  /\ live = {}
  /\ texels = [h \in Handles |-> [ver |-> 0, pal |-> CHOOSE p \in PaletteFmts : TRUE,
                                  stride |-> CHOOSE s \in Strides : TRUE]]
  /\ created = 0
  /\ returned = [key |-> CHOOSE k \in Keys : TRUE, handle |-> 0]

\* A slip in tr_convert_texture: a dirty handle is overwritten without
\* r_destroy_texture.
ConvertTexture_no_destroy(k) ==
  LET e == entry[k]
      h == created + 1
  IN  IF e.handle # 0 /\ ~e.dirty
      THEN /\ returned' = [key |-> k, handle |-> e.handle]
           /\ UNCHANGED << entry, live, texels, created >>
      ELSE /\ created < MaxHandles
           /\ live' = live \cup {h}
           /\ texels' = [texels EXCEPT ![h] = [ver |-> mem[k], pal |-> regs.pal,
                                               stride |-> regs.stride]]
           /\ created' = h
           /\ entry' = [entry EXCEPT ![k] = [handle |-> h, dirty |-> FALSE]]
           /\ returned' = [key |-> k, handle |-> h]

\* A slip in tr_convert_texture: the cached handle is returned even when
\* the entry is dirty.
ConvertTexture_ignore_dirty(k) ==
  LET e == entry[k]
      h == created + 1
  IN  IF e.handle # 0
      THEN /\ returned' = [key |-> k, handle |-> e.handle]
           /\ UNCHANGED << entry, live, texels, created >>
      ELSE /\ created < MaxHandles
           /\ live' = live \cup {h}
           /\ texels' = [texels EXCEPT ![h] = [ver |-> mem[k], pal |-> regs.pal,
                                               stride |-> regs.stride]]
           /\ created' = h
           /\ entry' = [entry EXCEPT ![k] = [handle |-> h, dirty |-> FALSE]]
           /\ returned' = [key |-> k, handle |-> h]

\* tr_convert_texture(k): a clean handle is returned as it is; a dirty one
\* is destroyed; then the texture is decoded from the key's memory and the
\* current registers, created in the backend, stored in the entry (dirty
\* cleared) and returned.
ConvertTexture(k) ==
  LET e == entry[k]
      h == created + 1
  IN  IF e.handle # 0 /\ ~e.dirty
      THEN /\ returned' = [key |-> k, handle |-> e.handle]
           /\ UNCHANGED << entry, live, texels, created >>
      ELSE /\ created < MaxHandles
           /\ live' = (IF e.handle # 0 THEN live \ {e.handle} ELSE live) \cup {h}
           /\ texels' = [texels EXCEPT ![h] = [ver |-> mem[k], pal |-> regs.pal,
                                               stride |-> regs.stride]]
           /\ created' = h
           /\ entry' = [entry EXCEPT ![k] = [handle |-> h, dirty |-> FALSE]]
           /\ returned' = [key |-> k, handle |-> h]

\* tr_parse_poly_param or tr_parse_bg resolves a texture.
Resolve ==
  /\ \E k \in Keys : ConvertTexture(k)
  /\ UNCHANGED << mem, regs >>

\* The guest writes texture memory; the cache owner marks the entry dirty.
WriteTexture ==
  /\ \E k \in Keys :
       /\ mem[k] < MaxWrites
       /\ mem' = [mem EXCEPT ![k] = @ + 1]
       /\ entry' = [entry EXCEPT ![k].dirty = TRUE]
  /\ returned' = [returned EXCEPT !.handle = 0]
  /\ UNCHANGED << regs, live, texels, created >>

\* The guest changes PAL_RAM_CTRL or TEXT_CONTROL between contexts; no
\* entry is marked dirty (the key does not include them).
SetRegisters ==
  /\ \E r \in [pal : PaletteFmts, stride : Strides] :
       /\ r # regs
       /\ regs' = r
  /\ returned' = [returned EXCEPT !.handle = 0]
  /\ UNCHANGED << entry, mem, live, texels, created >>

Next == Resolve \/ WriteTexture \/ SetRegisters

Spec == Init /\ [][Next]_vars

-----------------------------------------------------------------------------
TypeOK ==
  /\ entry \in [Keys -> [handle : 0..MaxHandles, dirty : BOOLEAN]]
  /\ mem \in [Keys -> 0..MaxWrites]
  /\ live \subseteq Handles
  /\ texels \in [Handles -> Decode]
  /\ created \in 0..MaxHandles

\* Every texture the backend holds belongs to exactly one cache entry, and
\* every entry's handle is live: tr_convert_texture destroys a dirty handle
\* before it replaces it, so nothing leaks and nothing dangles, whatever
\* order of writes and lookups the guest makes.
TexturesOwnedByEntries ==
  /\ live = {entry[k].handle : k \in {k \in Keys : entry[k].handle # 0}}
  /\ \A k, j \in Keys : k # j /\ entry[k].handle # 0 => entry[k].handle # entry[j].handle

\* The handle tr_convert_texture returned is live and holds the key's
\* texture memory as the guest last wrote it (the dirty flag makes writes
\* force a new decode).
ReturnedTextureFresh ==
  returned.handle # 0 =>
    /\ returned.handle \in live
    /\ texels[returned.handle].ver = mem[returned.key]
=============================================================================
