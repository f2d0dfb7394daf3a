-------------------------------- MODULE PvrDma --------------------------------
(***************************************************************************)
(* A picture on its way to the YUV converter: the program sets up channel  *)
(* 2 of the SH4's DMA controller (src/src/sh4/dmac.c), the PVR2 DMA of the *)
(* ASIC (pvr_dma_transfer in asic.c) fetches the data in chunks of its     *)
(* stack buffer, or the program writes them itself, and the converter      *)
(* (pvr2/yuv.c) cuts them into macroblocks and writes these to the texture *)
(* memory, row by row.                                                     *)
(*                                                                         *)
(* A datum is its number in the picture, and its address in memory is that *)
(* number too.  The smallest amount the ASIC asks for, 32 bytes, is Grain. *)
(* What a block is decoded to is left out, and so are the controller's     *)
(* other channels: DMAC_run_channel copies nothing (dmac.c:118).           *)
(***************************************************************************)
EXTENDS Integers, Sequences

CONSTANTS
  CHUNK,          \* the buffer of pvr_dma_transfer (8192 bytes)
  Grain,          \* the unit of PVRDMACNT (32 bytes)
  Sizes,          \* DMAC_xfer_size: data in one transfer of the channel
  QUAD,           \* the size a cleared CHCR2 stands for
  BIG,            \* what a count of 0 stands for (0x01000000)
  Format,         \* the input formats
  YUV420,         \* the format a cleared YUV_CFG stands for
  BlockSize,      \* yuv_block_size
  Shape,          \* pictures: <<width, height>> in blocks, from YUV_CFG
  Counts,         \* values of DMATCR2
  Asked,          \* values of PVRDMACNT
  Direct,         \* amounts written without the DMA
  MaxSent         \* bound on the length of a picture

SizeAssumption ==
  /\ CHUNK \in Nat \ {0} /\ Grain \in Nat \ {0} /\ CHUNK % Grain = 0
  /\ \A s \in Sizes : s \in Nat \ {0} /\ Grain % s = 0
  /\ \A n \in Asked : n \in Nat \ {0} /\ n % Grain = 0
  /\ BlockSize \in [Format -> Nat \ {0}]
  /\ \A s \in Shape : s[1] \in Nat \ {0} /\ s[2] \in Nat \ {0}
  /\ Counts \subseteq Nat /\ Direct \subseteq Nat /\ BIG \in Nat \ {0}
  /\ QUAD \in Sizes /\ YUV420 \in Format /\ MaxSent \in Nat

VARIABLES
  chan,           \* SAR2, DMATCR2, and what CHCR2 says of the channel
  able,           \* DMAOR and the resource allow the transfer, with addresses
                  \* that increase
  irq,            \* INT_DMA_DMTE2 is pending in intc.c
  yuv,            \* pvr2_yuv_state
  sent,           \* history: data of this picture handed to the converter
  out,            \* history: the different blocks of this picture, in the order
                  \* in which they were first processed
  placed,         \* history: blocks since EVENT_PVR_YUV_DONE or the start
  until           \* history: the address after the last datum of the channel

vars == <<chan, able, irq, yuv, sent, out, placed, until>>

Numbers(from, n) == [i \in 1 .. n |-> from + i - 1]
Least(a, b) == IF a < b THEN a ELSE b

-----------------------------------------------------------------------------
(* The converter.  Definitions marked "Faulty" are variants of the one     *)
(* that follows; the specification does not use them.  They show that a    *)
(* property can fail.                                                      *)

(* The converter with what it has led to.                                  *)
Converter == [yuv |-> yuv, out |-> out, placed |-> placed]

(* pvr2_yuv_process_block: one block further, and at the end of the        *)
(* picture back to its first block.                                        *)
Processed(c, b) ==
  LET y == c.yuv
      endOfRow == y.x + 1 >= y.width
      last == endOfRow /\ y.y + 1 >= y.height
  IN  [yuv |-> [y EXCEPT !.x = IF endOfRow THEN 0 ELSE @ + 1,
                         !.y = IF last THEN 0 ELSE IF endOfRow THEN @ + 1 ELSE @],
       out |-> IF \E i \in DOMAIN c.out : c.out[i] = b THEN c.out ELSE Append(c.out, b),
       placed |-> IF last THEN 0 ELSE c.placed + 1]

(* Blocks in a row.                                                        *)
AllProcessed(c, blocks) ==
  LET After[n \in 0 .. Len(blocks)] == IF n = 0 THEN c
                                       ELSE Processed(After[n - 1], blocks[n])
  IN  After[Len(blocks)]

(* pvr2_yuv_write.  Data are appended to those that wait, up to a block;   *)
(* then follow whole blocks, and what is left waits.  When nothing is left *)
(* the data that waited stay, even if their block has just been processed. *)
(* Faulty: a block that is completed waits for the next write.             *)
WrittenLate(c, s) ==
  LET size == BlockSize[c.yuv.format]
      n == IF c.yuv.data = <<>> THEN 0
           ELSE Least(Len(s), size - Len(c.yuv.data))
      joined == c.yuv.data \o SubSeq(s, 1, n)
      first == IF Len(c.yuv.data) = size
               THEN Processed(c, c.yuv.data)
               ELSE [c EXCEPT !.yuv.data = joined]
      rest == SubSeq(s, n + 1, Len(s))
      blocks == [i \in 1 .. Len(rest) \div size |->
                   SubSeq(rest, (i - 1) * size + 1, i * size)]
      after == AllProcessed(first, blocks)
      left == SubSeq(rest, Len(blocks) * size + 1, Len(rest))
  IN  IF left = <<>> THEN after ELSE [after EXCEPT !.yuv.data = left]
Written(c, s) ==
  LET size == BlockSize[c.yuv.format]
      n == IF c.yuv.data = <<>> THEN 0
           ELSE Least(Len(s), size - Len(c.yuv.data))
      joined == c.yuv.data \o SubSeq(s, 1, n)
      appended == [c EXCEPT !.yuv.data = joined]
      first == IF Len(joined) = size THEN Processed(appended, joined) ELSE appended
      rest == SubSeq(s, n + 1, Len(s))
      blocks == [i \in 1 .. Len(rest) \div size |->
                   SubSeq(rest, (i - 1) * size + 1, i * size)]
      after == AllProcessed(first, blocks)
      left == SubSeq(rest, Len(blocks) * size + 1, Len(rest))
  IN  IF left = <<>> THEN after ELSE [after EXCEPT !.yuv.data = left]

-----------------------------------------------------------------------------
(* The channel.                                                            *)

Remaining(ch) == IF ch.count = 0 THEN BIG ELSE ch.count

(* DMAC_get_buffer: how many of n data it returns.                         *)
Given(ch, n) ==
  LET run == n \div ch.size
  IN  IF ~able \/ ~ch.de \/ ch.te THEN 0
      ELSE ch.size * (IF run > Remaining(ch) \/ run = 0 THEN Remaining(ch) ELSE run)

(* The channel's registers after it has given k.                           *)
Advanced(ch, k) ==
  IF k = 0 THEN ch
  ELSE LET count == Remaining(ch) - k \div ch.size
       IN  [ch EXCEPT !.from = @ + k, !.count = count, !.te = (count = 0)]

(* One turn of the loop of pvr_dma_transfer; a chunk that comes short is   *)
(* the last.  Faulty: the chunk is taken for full.                         *)
ChunkAsAsked(s, n) ==
  LET k == Given(s.chan, n)
  IN  IF s.short THEN s
      ELSE [chan |-> Advanced(s.chan, k),
            conv |-> Written(s.conv, Numbers(s.chan.from, n)),
            sent |-> s.sent + k, short |-> (k # n)]
Chunk(s, n) ==
  LET k == Given(s.chan, n)
  IN  IF s.short THEN s
      ELSE [chan |-> Advanced(s.chan, k),
            conv |-> Written(s.conv, Numbers(s.chan.from, k)),
            sent |-> s.sent + k, short |-> (k # n)]

Chunks(n) ==
  [i \in 1 .. (n + CHUNK - 1) \div CHUNK |-> Least(CHUNK, n - (i - 1) * CHUNK)]

(* The whole loop.                                                         *)
Transferred(s, chunks) ==
  LET After[i \in 0 .. Len(chunks)] == IF i = 0 THEN s
                                       ELSE Chunk(After[i - 1], chunks[i])
  IN  After[Len(chunks)]

(* Where a channel as set up will end.                                     *)
End(ch) == IF ch.te THEN ch.from ELSE ch.from + ch.size * Remaining(ch)

Configured(v, f, s) == [v EXCEPT !.format = f, !.width = s[1], !.height = s[2]]

-----------------------------------------------------------------------------
(* CHCR2 cleared; the address and the count have no initial setting.      *)
Cleared(ch) == [ch EXCEPT !.size = QUAD, !.de = FALSE, !.te = FALSE, !.ie = FALSE]

(* pvr2_reset writes 0 to YUV_ADDR and YUV_CFG: a picture of one block.    *)
NewPicture == [data |-> <<>>, x |-> 0, y |-> 0, width |-> 1, height |-> 1,
               format |-> YUV420]

Init ==
  /\ chan = [from |-> 0, count |-> 0, size |-> QUAD,
             de |-> FALSE, te |-> FALSE, ie |-> FALSE]
  /\ able = FALSE
  /\ irq = FALSE
  /\ yuv = NewPicture
  /\ sent = 0
  /\ out = <<>>
  /\ placed = 0
  /\ until = End(chan)

(* A write of CHCR2.  TE is written as it was read, or cleared.            *)
(* (DMAC_set_control)                                                      *)
WriteControl(de, ie, te, size) ==
  /\ te => chan.te
  /\ chan' = [chan EXCEPT !.de = de, !.ie = ie, !.te = te, !.size = size]
  /\ irq' = (irq /\ ~(chan.ie /\ chan.te /\ ~(ie /\ te)))
  /\ until' = End(chan')
  /\ UNCHANGED <<able, yuv, sent, out, placed>>

(* Writes of SAR2, to where the picture goes on, and of DMATCR2.           *)
WriteAddress(n) ==
  /\ chan' = [chan EXCEPT !.from = sent, !.count = n]
  /\ until' = End(chan')
  /\ UNCHANGED <<able, irq, yuv, sent, out, placed>>

(* A write of DMAOR, or of the fields of CHCR2 that choose the transfer.   *)
WriteMode ==
  /\ able' = ~able
  /\ UNCHANGED <<chan, irq, yuv, sent, out, placed, until>>

(* A write of PVRDMACTL with n in PVRDMACNT: the whole transfer.           *)
StartDma(n) ==
  LET s == Transferred([chan |-> chan, conv |-> Converter, sent |-> sent,
                        short |-> FALSE], Chunks(n))
  IN  /\ chan.from = sent
      /\ sent + n <= MaxSent
      /\ chan' = s.chan
      /\ irq' = (irq \/ (s.chan.te /\ ~chan.te /\ chan.ie))
      /\ yuv' = s.conv.yuv /\ out' = s.conv.out /\ placed' = s.conv.placed
      /\ sent' = s.sent
      /\ UNCHANGED <<able, until>>

(* A store queue's burst, or another DMA that reaches the converter.       *)
(* (pvr2_yuv_write_burst, pvr2_dma_write from mem_copy_to_sh4)             *)
Write(n) ==
  LET c == Written(Converter, Numbers(sent, n))
  IN  /\ sent + n <= MaxSent
      /\ yuv' = c.yuv /\ out' = c.out /\ placed' = c.placed
      /\ sent' = sent + n
      /\ UNCHANGED <<chan, able, irq, until>>

(* A write of YUV_ADDR starts a picture: pvr2_yuv_init.                    *)
WriteTarget ==
  /\ yuv' = [yuv EXCEPT !.data = <<>>, !.x = 0, !.y = 0]
  /\ sent' = 0 /\ out' = <<>> /\ placed' = 0
  /\ UNCHANGED <<chan, able, irq, until>>

(* A write of YUV_CFG, before the data: pvr2_yuv_set_config.               *)
WriteConfig(f, s) ==
  /\ sent = 0
  /\ yuv' = Configured(yuv, f, s)
  /\ UNCHANGED <<chan, able, irq, sent, out, placed, until>>

(* A manual reset of the SH4 clears intc.c and not the controller.         *)
ManualReset ==
  /\ irq' = FALSE
  /\ UNCHANGED <<chan, able, yuv, sent, out, placed, until>>

(* dreamcast_reset: mem_reset clears CHCR2 and DMAOR through their writes, *)
(* then the SH4 and the PVR2 reset.                                        *)
Reset ==
  /\ chan' = Cleared(chan)
  /\ able' = FALSE
  /\ irq' = FALSE
  /\ yuv' = NewPicture
  /\ sent' = 0 /\ out' = <<>> /\ placed' = 0
  /\ until' = End(chan')

Next ==
  \/ \E de, ie, te \in BOOLEAN, size \in Sizes : WriteControl(de, ie, te, size)
  \/ \E n \in Counts : WriteAddress(n)
  \/ WriteMode
  \/ \E n \in Asked : StartDma(n)
  \/ \E n \in Direct : Write(n)
  \/ WriteTarget
  \/ \E f \in Format, s \in Shape : WriteConfig(f, s)
  \/ ManualReset
  \/ Reset

Spec == Init /\ [][Next]_vars

-----------------------------------------------------------------------------
(* Properties                                                              *)

(* Every variable has a value of its kind.                                 *)
TypeOK ==
  /\ chan.from \in 0 .. MaxSent /\ chan.count \in Nat /\ chan.size \in Sizes
  /\ yuv.x \in 0 .. yuv.width - 1 /\ yuv.y \in 0 .. yuv.height - 1
  /\ Len(yuv.data) <= BlockSize[yuv.format]
  /\ sent \in 0 .. MaxSent

(* What waits is a whole block: it has been processed.                     *)
Stale == Len(yuv.data) = BlockSize[yuv.format]
Waiting == IF Stale THEN 0 ELSE Len(yuv.data)

(* However a picture is cut into writes, DMA transfers and their chunks,   *)
(* each datum is in one block or waits, in order; the only blocks that are *)
(* not the next of the picture are repeats.                                *)
(* (pvr_dma_transfer, DMAC_get_buffer, pvr2_yuv_write)                     *)
PictureInOrder ==
  LET size == BlockSize[yuv.format]
  IN  /\ \A i \in 1 .. Len(out) : out[i] = Numbers((i - 1) * size, size)
      /\ Len(out) * size + Waiting = sent
      /\ ~Stale => yuv.data = Numbers(sent - Waiting, Waiting)

(* The event comes with every last place of a picture, and the place of    *)
(* the next block is that of the count.  (pvr2_yuv_process_block)          *)
PictureEnds == /\ placed < yuv.width * yuv.height
               /\ placed = yuv.y * yuv.width + yuv.x

(* A channel ends where its registers said it would, however often the     *)
(* device came for data; its interrupt is pending only while both the end  *)
(* and the wish to hear of it are in the register.  (DMAC_get_buffer,      *)
(* DMAC_set_control)                                                       *)
ChannelExact ==
  /\ End(chan) = until
  /\ irq => chan.ie /\ chan.te

(* Data, blocks and registers agree.                                       *)
PictureTrue == PictureInOrder /\ PictureEnds /\ ChannelExact

(* yuv.c:135, "mainly responsible for buffering the data into macroblock   *)
(* chunks and then passing it on": what has been passed on no longer       *)
(* waits.  (pvr2_yuv_write)                                                *)
PassedOn == ~Stale
=============================================================================
