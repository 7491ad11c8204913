----------------------------- MODULE SampleCodec -----------------------------
(***************************************************************************)
(* Sample-address tracking of the five wire decoders (src/src/convert.c)  *)
(* over a stream of calls, one per bulk transfer or per isochronous packet *)
(* (async.c, lines 76-175).                                                *)
(*                                                                         *)
(* The wire is a sequence of 1024-byte blocks, block b starting with the   *)
(* little-endian header A0 + b * N (mod 2^32), N the samples per block of  *)
(* the format.  It is modelled in half blocks (512 bytes, the margin of    *)
(* the bulk resynchronisation): a call receives the next L halves; before  *)
(* it the wire may lose halves.  Where the call's buffer does not start on *)
(* a block boundary the decoder reads payload bytes as headers: those are  *)
(* arbitrary values (Junk).  Addresses are taken modulo AddrMod (a power   *)
(* of two standing for 2^32, large enough that no N vanishes).  The bit    *)
(* unpacking of the samples is not modelled here, only how many bytes a    *)
(* call produces.                                                          *)
(***************************************************************************)
EXTENDS Integers

CONSTANTS
  Formats,    \* the values of p->format a run covers
  CallLens,   \* received lengths of a call, in half blocks
  WireLen,    \* bound on the half blocks of a run
  AddrMod,    \* stands for 2^32, the range of p->addr
  A0,         \* header of the first block the device sends
  Junk        \* values a payload word read as a header can have

ASSUME CodecAssumption ==
  /\ Formats \subseteq {"252_s16", "336_s16", "384_s16", "504_s16", "504_s8"}
  /\ CallLens \subseteq Nat \ {0}
  /\ WireLen \in Nat
  /\ AddrMod \in Nat \ {0}
  /\ A0 \in 0 .. AddrMod - 1
  /\ Junk \subseteq 0 .. AddrMod - 1

\* Samples per block (the increment of p->addr, lines 35, 74, 153, 180,
\* 219) and decoded bytes per block (ret * 2 of the 16-bit decoders, the
\* 1008-byte copy of the 8-bit one).
SamplesPerBlock(f) ==
  CASE f = "252_s16" -> 252 [] f = "336_s16" -> 336 [] f = "384_s16" -> 384
    [] f = "504_s16" -> 504 [] f = "504_s8" -> 504

OutBytesPerBlock(f) ==
  CASE f = "252_s16" -> 1008 [] f = "336_s16" -> 1344 [] f = "384_s16" -> 1536
    [] f = "504_s16" -> 2016 [] f = "504_s8" -> 1008

\* Payload bytes in L halves starting on a block boundary: 1008 per block,
\* and 512 - 16 of a trailing half block.
Payload(L) == 1008 * (L \div 2) + (IF L % 2 = 1 THEN 496 ELSE 0)

VARIABLES
  fmt,     \* p->format
  addr,    \* p->addr, the address the next call expects
  w,       \* the next half block of the wire
  dropped, \* halves lost on the wire since the last call
  nextBlk, \* ghost: the block after the last one the consumer received whole
  tracked, \* ghost: the last call started on a block boundary
  last     \* ghost: what the last call saw and did

vars == <<fmt, addr, w, dropped, nextBlk, tracked, last>>

CallRec == [aligned : BOOLEAN, loss : BOOLEAN, ret : Nat, payload : Nat]

TypeOK ==
  /\ fmt \in Formats
  /\ addr \in 0 .. AddrMod - 1
  /\ w \in 0 .. WireLen
  /\ dropped \in 0 .. WireLen
  /\ nextBlk \in 0 .. WireLen
  /\ tracked \in BOOLEAN
  /\ last \in CallRec

\* mirisdr_open zeroes the device structure: p->addr = 0.  The first call
\* is not judged (nothing was expected of it); last starts as an empty call.
Init ==
  /\ fmt \in Formats
  /\ addr = 0
  /\ w = 0
  /\ dropped = 0
  /\ nextBlk = 0
  /\ tracked = FALSE
  /\ last = [aligned |-> TRUE, loss |-> FALSE, ret |-> 0, payload |-> 0]

\* The header word at wire half h: a real header on a block boundary.
HeaderAt(h, j) == IF h % 2 = 0 THEN (A0 + (h \div 2) * SamplesPerBlock(fmt)) % AddrMod
                               ELSE j

\* The wire loses a half block (an overrun, a lost packet).
WireDrop ==
  /\ w < WireLen
  /\ w' = w + 1
  /\ dropped' = dropped + 1
  /\ UNCHANGED <<fmt, addr, nextBlk, tracked, last>>

\* Mutant: the 16-bit decoders compare every block's header, not only
\* the first one, and resynchronise on the last.
Convert16EveryBlock(L, hFirst, hLast) ==
  LET N == SamplesPerBlock(fmt)
      k == L \div 2
  IN  /\ addr' = ((IF k = 0 THEN 0 ELSE hLast) + N) % AddrMod
      /\ last' = [aligned |-> w % 2 = 0,
                  loss |-> k > 0 /\ hLast /= addr,
                  ret |-> k * OutBytesPerBlock(fmt), payload |-> Payload(L)]

\* Mutant: the whole-block count rounded up, (cnt + 1023) >> 10.
Convert16RoundUp(L, hFirst, hLast) ==
  LET N == SamplesPerBlock(fmt)
      k == (L + 1) \div 2
  IN  /\ addr' = ((IF k = 0 THEN 0 ELSE hLast) + N) % AddrMod
      /\ last' = [aligned |-> w % 2 = 0,
                  loss |-> k > 0 /\ hFirst /= addr,
                  ret |-> k * OutBytesPerBlock(fmt), payload |-> Payload(L)]

\* mirisdr_samples_convert_252/336/384/504_s16 (lines 10-38, 49-77,
\* 91-156, 194-222): cnt >> 10 whole blocks are decoded; the header of the
\* first is compared with p->addr (a loss increments sync_loss_cnt); p->addr
\* becomes the header of the last block plus N, or 0 + N when there was no
\* whole block.  A trailing partial block is ignored.
Convert16(L, hFirst, hLast) ==
  LET N == SamplesPerBlock(fmt)
      k == L \div 2
  IN  /\ addr' = ((IF k = 0 THEN 0 ELSE hLast) + N) % AddrMod
      /\ last' = [aligned |-> w % 2 = 0,
                  loss |-> k > 0 /\ hFirst /= addr,
                  ret |-> k * OutBytesPerBlock(fmt), payload |-> Payload(L)]

\* Mutant: one more block than the loop bound i < cnt allows.
Convert8OneMore(L, hFirst) ==
  LET iters == L \div 2 + 1
  IN  /\ addr' = (hFirst + 504 * iters) % AddrMod
      /\ last' = [aligned |-> w % 2 = 0,
                  loss |-> hFirst /= addr,
                  ret |-> 1008 * iters, payload |-> Payload(L)]

\* Mutant: the address kept in a wider integer, never wrapped at 2^32.
Convert8NoWrap(L, hFirst) ==
  LET iters == (L + 1) \div 2
  IN  /\ addr' = hFirst + 504 * iters
      /\ last' = [aligned |-> w % 2 = 0,
                  loss |-> hFirst /= addr,
                  ret |-> 1008 * iters, payload |-> Payload(L)]

\* mirisdr_samples_convert_504_s8 (lines 167-184): the first header is
\* compared, on a loss p->addr takes it; then 1008 bytes are copied and
\* p->addr advances by 504 for every i = 16, 1040, ... below cnt, so a
\* trailing partial block counts as a whole one.
Convert8(L, hFirst) ==
  LET iters == (L + 1) \div 2
  IN  /\ addr' = (hFirst + 504 * iters) % AddrMod
      /\ last' = [aligned |-> w % 2 = 0,
                  loss |-> hFirst /= addr,
                  ret |-> 1008 * iters, payload |-> Payload(L)]

\* One call of the format's decoder on the next L halves of the wire
\* (_process_bulk_transfer, lines 146-175, or one packet of
\* _process_isochronous_transfer, lines 76-144).
Convert ==
  \E L \in CallLens, j1 \in Junk, j2 \in Junk :
    LET hFirst == HeaderAt(w, j1)
        hLast == HeaderAt(w + 2 * (L \div 2 - 1), j2)
    IN  /\ w + L <= WireLen
        /\ IF fmt = "504_s8" THEN Convert8(L, hFirst)
                             ELSE Convert16(L, hFirst, hLast)
        /\ w' = w + L
        /\ dropped' = 0
        /\ tracked' = (w % 2 = 0)
        /\ nextBlk' = IF w % 2 = 0 THEN w \div 2 + L \div 2 ELSE nextBlk
        /\ UNCHANGED fmt

Next == WireDrop \/ Convert

Spec == Init /\ [][Next]_vars

(***************************************************************************)
(* Properties.                                                             *)
(***************************************************************************)

\* Sample-loss detection (spec 4.4): a call (a step that consumes wire
\* halves without losing them) that starts on a block boundary and decodes
\* something, after a call that also started on one, reports a loss exactly
\* when the consumer's stream has a hole before it, i.e. when its first
\* block is not the one after the last block the consumer received whole.
LossIffHole ==
  [][/\ w' /= w /\ dropped' = 0 /\ last'.aligned /\ last'.ret > 0 /\ tracked
     => (last'.loss <=> w \div 2 /= nextBlk)]_vars

\* A decoder hands the framer no more bytes than the payload it received
\* can decode to: no stale buffer content reaches the consumer.
DecodedFromReceived ==
  last.ret * 1008 <= OutBytesPerBlock(fmt) * last.payload

=============================================================================
