---------------------------- MODULE RenderBuffers ----------------------------
(***************************************************************************)
(* The render buffers of src/pvr2/pvr2.c.  A scene is rendered into a      *)
(* buffer of the host's, which stands for the part of the video RAM at its *)
(* address until the SH4 touches that part: then it is copied back, and    *)
(* forgotten if it was a write.  A buffer is shown when its address is the *)
(* one the display starts at; otherwise one is filled from video RAM.      *)
(*                                                                         *)
(* Video RAM is a few units; of its contents the model keeps who holds the *)
(* newest, so that losing them or showing old ones can be told.  Scenes    *)
(* rendered to the 64-bit area are copied back at once, and left out.      *)
(***************************************************************************)
EXTENDS Integers, Sequences

CONSTANTS
  MAX_RENDER_BUFFERS,
  PVR2_RAM_BASE,
  Unit,           \* units of video RAM, addressed from PVR2_RAM_BASE
  Frames          \* what is rendered or displayed: [addr, size] in units

(* Offsets are smaller than the base, and frames at different addresses    *)
(* have no unit in common: pvr2_render_buffer_invalidate relies on it      *)
(* (pvr2.c:1135, "should never have overlapping buffers"), and so it is    *)
(* for every program that keeps its frames apart.                          *)
BufferAssumption ==
  /\ MAX_RENDER_BUFFERS \in Nat \ {0, 1}
  /\ PVR2_RAM_BASE \in Nat /\ Unit \subseteq Nat
  /\ \A f \in Frames : f.addr \in 0 .. PVR2_RAM_BASE - 1 /\ f.size \in Nat
  /\ \A f, g \in Frames : f.addr < g.addr => f.addr + f.size <= g.addr

VARIABLES
  buf,            \* render_buffers[0 .. render_buffer_count-1]
  shown,          \* displayed_render_buffer, a pointer
  field,          \* DISP_ADDR1 and DISP_ADDR2: offsets without the base
  holders,        \* history: who holds the newest contents of each unit
  bypassed,       \* history: written through the 64-bit area under a buffer
  orphaned        \* history: the buffers went and left the display's pointer

vars == <<buf, shown, field, holders, bypassed, orphaned>>

NULL == 0
NOWHERE == -1     \* the address of a buffer that stands for nothing
Pointer == 1 .. MAX_RENDER_BUFFERS + 1
VRAM == 0         \* as a holder

Base(a) == PVR2_RAM_BASE + a
Covers(b) == {u \in Unit : b.addr # NOWHERE /\ Base(u) \in b.addr .. b.addr + b.size - 1}
Pointers(bs) == {bs[i].ptr : i \in DOMAIN bs}

-----------------------------------------------------------------------------
(* Definitions marked "Faulty" are variants of the one that follows; the   *)
(* specification does not use them.  They show that a property can fail.   *)

(* Buffers and holders together, so that what is done to them can be       *)
(* chained.                                                                *)
Now == [buf |-> buf, holders |-> holders]

(* pvr2_render_buffer_copy_to_sh4                                          *)
Flush(s, i) ==
  [buf |-> [s.buf EXCEPT ![i].flushed = TRUE],
   holders |-> [u \in Unit |->
                  IF u \notin Covers(s.buf[i]) THEN s.holders[u]
                  ELSE IF s.buf[i].ptr \in s.holders[u] THEN s.holders[u] \cup {VRAM}
                  ELSE s.holders[u] \ {VRAM}]]

Forget(s, i) == [s EXCEPT !.buf[i].addr = NOWHERE, !.buf[i].flushed = TRUE]

Freed(s, p) == [s EXCEPT !.holders = [u \in Unit |-> @[u] \ {p}]]

(* pvr2_alloc_render_buffer.  The buffers are looked at in turn until one  *)
(* fits; on the way those with the address are taken off it.               *)
Fits(b, a, z) == b.size = z /\ b.addr = a /\ b.ptr # shown

Visited(s, acc, i, a, z) ==
  IF acc.buf[i].addr # a \/ \E j \in 1 .. i : Fits(s.buf[j], a, z) THEN acc
  ELSE IF acc.buf[i].size > z THEN Forget(Flush(acc, i), i)
  ELSE Forget(acc, i)

Scanned(s, a, z) ==
  LET After[n \in 0 .. Len(s.buf)] == IF n = 0 THEN s ELSE Visited(s, After[n - 1], n, a, z)
  IN  After[Len(s.buf)]

(* The first buffer that is not in use.                                    *)
Spare(s, z) ==
  {i \in DOMAIN s.buf : s.buf[i].size = z /\ s.buf[i].addr = NOWHERE /\ s.buf[i].ptr # shown}

(* Faulty: the one that is displayed can be thrown away.                   *)
VictimsAny(s) == {i \in DOMAIN s.buf : s.buf[i].addr \notin {field[1], field[2]}}

(* Those that may be thrown away.  The registers hold no base, so the      *)
(* addresses never match.                                                  *)
Victims(s) ==
  {i \in DOMAIN s.buf : s.buf[i].addr \notin {field[1], field[2]} /\ s.buf[i].ptr # shown}

First(S) == CHOOSE i \in S : \A j \in S : i <= j

NewBuffer(p, a, z) == [ptr |-> p, addr |-> a, size |-> z, flushed |-> FALSE]

(* Faulty: a buffer is thrown away with what it holds.                     *)
EvictedUnsaved(s, i, p, a, z) ==
  IF s.buf[i].size = z THEN [s EXCEPT !.buf[i].addr = a]
  ELSE [Freed(s, s.buf[i].ptr) EXCEPT !.buf[i] = NewBuffer(p, a, z)]

(* One is thrown away: saved, and replaced if the size is wrong.           *)
Evicted(s, i, p, a, z) ==
  LET t == IF s.buf[i].flushed \/ s.buf[i].addr = NOWHERE THEN s ELSE Flush(s, i)
  IN  IF s.buf[i].size = z THEN [t EXCEPT !.buf[i].addr = a]
      ELSE [Freed(t, s.buf[i].ptr) EXCEPT !.buf[i] = NewBuffer(p, a, z)]

(* The outcomes: the state and the buffer, 0 for none.  A new one may be   *)
(* anywhere that is free.                                                  *)
Allocated(a, z) ==
  LET fit == {i \in DOMAIN buf : Fits(buf[i], a, z)}
      s == Scanned(Now, a, z)
      spare == Spare(s, z)
      out == Victims(s)
  IN  IF fit # {} THEN {[s |-> s, i |-> First(fit)]}
      ELSE IF spare # {} THEN {[s |-> [s EXCEPT !.buf[First(spare)].addr = a], i |-> First(spare)]}
      ELSE IF Len(buf) < MAX_RENDER_BUFFERS
      THEN {[s |-> [s EXCEPT !.buf = Append(@, NewBuffer(p, a, z))], i |-> Len(buf) + 1] :
              p \in Pointer \ Pointers(buf)}
      ELSE IF out # {}
      THEN {[s |-> Evicted(s, First(out), p, a, z), i |-> First(out)] :
              p \in Pointer \ Pointers(buf)}
      ELSE {[s |-> s, i |-> 0]}

(* The buffer holds the newest of the units U, and of no others.           *)
Filled(s, i, U, alone) ==
  [s EXCEPT !.holders = [u \in Unit |->
     IF u \notin U THEN @[u] \ {s.buf[i].ptr}
     ELSE IF alone THEN {s.buf[i].ptr}
     ELSE @[u] \cup {s.buf[i].ptr}]]

Become(s) == buf' = s.buf /\ holders' = s.holders

Live(p, bs) == p = NULL \/ p \in Pointers(bs)

-----------------------------------------------------------------------------
(* pvr2_init                                                               *)
Init ==
  /\ buf = <<>>
  /\ shown = NULL
  /\ \E f \in Frames : field = <<f.addr, f.addr>>
  /\ holders = [u \in Unit |-> {VRAM}]
  /\ bypassed = FALSE
  /\ orphaned = FALSE

(* A write of RENDER_START: pvr2_next_render_buffer, pvr2_scene_render.    *)
Render(f) ==
  \E r \in Allocated(Base(f.addr), f.size) :
    /\ IF r.i = 0 THEN Become(r.s)
       ELSE LET s == [r.s EXCEPT !.buf[r.i].flushed = FALSE]
            IN  Become(Filled(s, r.i, Covers(s.buf[r.i]), TRUE))
    /\ UNCHANGED <<shown, field, bypassed, orphaned>>

(* pvr2_frame_buffer_to_render_buffer                                      *)
Load(r) ==
  LET s == [r.s EXCEPT !.buf[r.i].flushed = TRUE]
  IN  Filled(s, r.i, {u \in Covers(s.buf[r.i]) : VRAM \in s.holders[u]}, FALSE)

(* pvr2_next_frame: nothing, the border, or what is at the address of      *)
(* either field; which one the raster decides, see Raster.                 *)
NextFrameBlank ==
  /\ shown' = NULL
  /\ orphaned' = FALSE
  /\ UNCHANGED <<buf, field, holders, bypassed>>

NextFrame(k, f) ==
  /\ f.addr = field[k]
  /\ LET found == {i \in DOMAIN buf : buf[i].addr = Base(f.addr)}
     IN  IF found # {}
         THEN /\ shown' = buf[First(found)].ptr
              /\ UNCHANGED <<buf, holders>>
         ELSE \E r \in Allocated(Base(f.addr), f.size) :
                /\ r.i # 0
                /\ Become(Load(r))
                /\ shown' = r.s.buf[r.i].ptr
  /\ orphaned' = FALSE
  /\ UNCHANGED <<field, bypassed>>

WriteField(k, f) ==
  /\ field' = [field EXCEPT ![k] = f.addr]
  /\ UNCHANGED <<buf, shown, holders, bypassed, orphaned>>

(* pvr2_render_buffer_invalidate                                           *)
Invalidated(u, isWrite) ==
  LET hit == {i \in DOMAIN buf : u \in Covers(buf[i])}
      i == First(hit)
      s == IF buf[i].flushed THEN Now ELSE Flush(Now, i)
  IN  IF hit = {} THEN Now ELSE IF isWrite THEN Forget(s, i) ELSE s

(* Accesses to the 32-bit area.                                            *)
ReadVram(u) ==
  /\ Become(Invalidated(u, FALSE))
  /\ UNCHANGED <<shown, field, bypassed, orphaned>>

WriteVram(u) ==
  /\ Become([Invalidated(u, TRUE) EXCEPT !.holders[u] = {VRAM}])
  /\ UNCHANGED <<shown, field, bypassed, orphaned>>

(* To the 64-bit area: the address is translated to an offset before the   *)
(* buffers are searched for it, and finds none.                            *)
WriteVram64(u) ==
  /\ holders' = [holders EXCEPT ![u] = {VRAM}]
  /\ bypassed' = (bypassed \/ \E i \in DOMAIN buf : u \in Covers(buf[i]))
  /\ UNCHANGED <<buf, shown, field, orphaned>>

(* pvr2_reset: nothing is saved, and nothing is expected to be.            *)
Reset ==
  /\ buf' = <<>>
  /\ holders' = [u \in Unit |-> {VRAM}]
  /\ bypassed' = FALSE
  /\ orphaned' = (shown # NULL)
  /\ UNCHANGED <<shown, field>>

(* pvr2_destroy_render_buffers, when the window goes.                      *)
Saved(acc, i) == IF acc.buf[i].flushed THEN acc ELSE Flush(acc, i)

AllFlushed ==
  LET After[n \in 0 .. Len(buf)] == IF n = 0 THEN Now ELSE Saved(After[n - 1], n)
  IN  After[Len(buf)]

Shutdown ==
  /\ buf' = <<>>
  /\ holders' = [u \in Unit |-> AllFlushed.holders[u] \cap {VRAM}]
  /\ orphaned' = (shown # NULL)
  /\ UNCHANGED <<shown, field, bypassed>>

(* Those that stand for something, in order.                               *)
InUse ==
  LET After[n \in 0 .. Len(buf)] ==
        IF n = 0 THEN <<>>
        ELSE IF buf[n].addr = NOWHERE THEN After[n - 1] ELSE Append(After[n - 1], n)
  IN  After[Len(buf)]

(* pvr2_preserve_render_buffers, pvr2_destroy_render_buffers and, with the *)
(* new window, pvr2_restore_render_buffers: the emulator is stopped in     *)
(* between.  The new buffers are somewhere else, and a displayed one that  *)
(* stood for nothing is not among them.                                    *)
Moved(at, p) == {at[i] : i \in {i \in DOMAIN buf : buf[i].ptr = p /\ buf[i].addr # NOWHERE}}

ChangeWindow ==
  \E at \in [DOMAIN buf -> Pointer] :
    /\ \A i, j \in DOMAIN buf : at[i] = at[j] => i = j
    /\ buf' = [j \in DOMAIN InUse |->
                 [buf[InUse[j]] EXCEPT !.ptr = at[InUse[j]], !.flushed = TRUE]]
    /\ holders' = [u \in Unit |->
                     (AllFlushed.holders[u] \cap {VRAM})
                       \cup UNION {Moved(at, p) : p \in AllFlushed.holders[u] \ {VRAM}}]
    /\ IF Moved(at, shown) # {}
       THEN shown' \in Moved(at, shown) /\ orphaned' = orphaned
       ELSE shown' = shown /\ orphaned' = (shown # NULL)
    /\ UNCHANGED <<field, bypassed>>

(* What goes on after a bypass is not followed, up to the next reset.      *)
Next ==
  \/ Reset
  \/ /\ ~bypassed
     /\ \/ \E f \in Frames : Render(f)
        \/ \E k \in 1 .. 2, f \in Frames : NextFrame(k, f) \/ WriteField(k, f)
        \/ \E u \in Unit : ReadVram(u) \/ WriteVram(u) \/ WriteVram64(u)
        \/ NextFrameBlank \/ Shutdown \/ ChangeWindow

Spec == Init /\ [][Next]_vars

-----------------------------------------------------------------------------
(* The newest contents of a unit are in video RAM, or in a buffer that     *)
(* will be copied there when it is touched; and a buffer that stands for a *)
(* unit holds its newest contents, so that what is shown from it is what   *)
(* was rendered or written.  (pvr2_alloc_render_buffer,                    *)
(* pvr2_render_buffer_invalidate, pvr2_next_frame)                         *)
NothingLost ==
  ~bypassed => \A u \in Unit :
    /\ \/ VRAM \in holders[u]
       \/ \E i \in DOMAIN buf : /\ u \in Covers(buf[i]) /\ ~buf[i].flushed
                                /\ buf[i].ptr \in holders[u]
    /\ \A i \in DOMAIN buf : u \in Covers(buf[i]) => buf[i].ptr \in holders[u]

(* The buffer on display is not freed, whatever is rendered; all of them   *)
(* may go at once, see orphaned.  (pvr2_alloc_render_buffer)               *)
DisplayedIsAlive == ~orphaned => Live(shown, buf)

(* Buffers keep what was rendered and what is on display.                  *)
BuffersTrue == NothingLost /\ DisplayedIsAlive

(* pvr2_alloc_render_buffer: "Never throw away the current "front          *)
(* buffer(s)"" (pvr2.c:1022): a render leaves the buffers of both fields   *)
(* in place, unless it is for their address.                               *)
FrontBuffersKept ==
  [][\A f \in Frames : Render(f) =>
       \A k \in 1 .. 2 : field[k] # f.addr =>
         \A i \in DOMAIN buf : buf[i].addr = Base(field[k]) =>
           \E j \in DOMAIN buf' : buf'[j].ptr = buf[i].ptr /\ buf'[j].addr = buf[i].addr]_vars
=============================================================================
