----------------------------- MODULE CodecProofs ------------------------------
(***************************************************************************)
(* Proofs about the sample-address tracking of the decoders of            *)
(* src/src/convert.c, for every wire length, address width, start header  *)
(* and set of junk header values.                                          *)
(***************************************************************************)
EXTENDS SampleCodec, TLAPS

\* The 16-bit formats, whose decoders take cnt >> 10 whole blocks.
Formats16 == {"252_s16", "336_s16", "384_s16", "504_s16"}

(***************************************************************************)
(* Type correctness.  TypeOK is not inductive: a wire drop increments     *)
(* dropped, which stays within the wire bound only because it counts      *)
(* halves of the wire already passed.                                      *)
(***************************************************************************)
CInv ==
  /\ TypeOK
  /\ dropped <= w

\* Each format's constants are positive numbers.
LEMMA FormatFacts ==
  ASSUME NEW f \in Formats
  PROVE  /\ SamplesPerBlock(f) \in Nat \ {0}
         /\ OutBytesPerBlock(f) \in Nat \ {0}
BY CodecAssumption DEF SamplesPerBlock, OutBytesPerBlock

\* A header read from the wire is an address: a real header is reduced
\* modulo 2^32, a junk word is one by assumption.
LEMMA HeaderFacts ==
  ASSUME NEW h \in Int, NEW j \in Junk, fmt \in Formats
  PROVE  HeaderAt(h, j) \in 0 .. AddrMod - 1
BY CodecAssumption, FormatFacts DEF HeaderAt

\* A call of a decoder keeps the variables typed and consumes the halves
\* lost before it.
LEMMA ConvertCInv ==
  ASSUME CInv, Convert
  PROVE  CInv'
<1> USE DEF CInv, TypeOK
<1>1. PICK L \in CallLens, j1 \in Junk, j2 \in Junk :
        LET hFirst == HeaderAt(w, j1)
            hLast == HeaderAt(w + 2 * (L \div 2 - 1), j2)
        IN  /\ w + L <= WireLen
            /\ IF fmt = "504_s8" THEN Convert8(L, hFirst)
                                 ELSE Convert16(L, hFirst, hLast)
            /\ w' = w + L
            /\ dropped' = 0
            /\ tracked' = (w % 2 = 0)
            /\ nextBlk' = IF w % 2 = 0 THEN w \div 2 + L \div 2 ELSE nextBlk
            /\ UNCHANGED fmt
  BY DEF Convert
<1>2. L \in Nat \ {0} /\ w \in Nat /\ WireLen \in Nat
  BY CodecAssumption
<1>3. /\ HeaderAt(w, j1) \in 0 .. AddrMod - 1
      /\ HeaderAt(w + 2 * (L \div 2 - 1), j2) \in 0 .. AddrMod - 1
  BY <1>2, HeaderFacts
<1>4. /\ addr' \in 0 .. AddrMod - 1
      /\ last' \in CallRec
  <2>1. CASE fmt = "504_s8"
    <3>1. /\ addr' = (HeaderAt(w, j1) + 504 * ((L + 1) \div 2)) % AddrMod
          /\ last' = [aligned |-> w % 2 = 0,
                      loss |-> HeaderAt(w, j1) /= addr,
                      ret |-> 1008 * ((L + 1) \div 2), payload |-> Payload(L)]
      BY <1>1, <2>1 DEF Convert8
    <3>2. Payload(L) \in Nat
      BY <1>2 DEF Payload
    <3>3. QED
      BY <1>2, <1>3, <3>1, <3>2, CodecAssumption DEF CallRec
  <2>2. CASE fmt /= "504_s8"
    <3> DEFINE N == SamplesPerBlock(fmt)
               k == L \div 2
               hLast == HeaderAt(w + 2 * (L \div 2 - 1), j2)
    <3>1. /\ addr' = ((IF k = 0 THEN 0 ELSE hLast) + N) % AddrMod
          /\ last' = [aligned |-> w % 2 = 0,
                      loss |-> k > 0 /\ HeaderAt(w, j1) /= addr,
                      ret |-> k * OutBytesPerBlock(fmt), payload |-> Payload(L)]
      BY <1>1, <2>2 DEF Convert16
    <3>2. Payload(L) \in Nat /\ k \in Nat
      BY <1>2 DEF Payload
    <3>3. N \in Nat /\ OutBytesPerBlock(fmt) \in Nat
      BY FormatFacts
    <3>4. QED
      BY <1>2, <1>3, <3>1, <3>2, <3>3, CodecAssumption DEF CallRec
  <2>3. QED
    BY <2>1, <2>2
<1>5. nextBlk' \in 0 .. WireLen
  BY <1>1, <1>2
<1>6. QED
  BY <1>1, <1>2, <1>4, <1>5

\* A wire drop stays within the wire bound, and so does the count of
\* halves it lost.
LEMMA DropCInv ==
  ASSUME CInv, WireDrop
  PROVE  CInv'
BY CodecAssumption DEF WireDrop, CInv, TypeOK

LEMMA InitCInv ==
  Init => CInv
<1> SUFFICES ASSUME Init PROVE CInv
  OBVIOUS
<1>1. last \in CallRec
  BY DEF Init, CallRec
<1>2. addr \in 0 .. AddrMod - 1 /\ w \in 0 .. WireLen /\ dropped <= w
      /\ dropped \in 0 .. WireLen /\ nextBlk \in 0 .. WireLen
  BY CodecAssumption DEF Init
<1>3. fmt \in Formats /\ tracked \in BOOLEAN
  BY DEF Init
<1>4. QED
  BY <1>1, <1>2, <1>3 DEF CInv, TypeOK

LEMMA CInvStep ==
  CInv /\ [Next]_vars => CInv'
BY ConvertCInv, DropCInv DEF Next, vars, CInv, TypeOK

\* For every wire length, address width, start header and junk value,
\* the decoders keep p->addr a 32-bit address (wrapping at 2^32), and
\* the wire and block positions inside the wire.
THEOREM CodecTypeCorrect ==
  Spec => []TypeOK
<1>1. Spec => []CInv
  BY InitCInv, CInvStep, PTL DEF Spec
<1>2. QED
  BY <1>1, PTL DEF CInv

(***************************************************************************)
(* No stale bytes.  The 16-bit decoders take only whole blocks, so they    *)
(* are safe on any call; the 8-bit decoder also counts a trailing partial  *)
(* block (the s8Short finding), so it is safe only where every call       *)
(* carries whole blocks, as the isochronous packets of                     *)
(* _process_isochronous_transfer do.                                       *)
(***************************************************************************)
S8WholeBlocks ==
  "504_s8" \in Formats => \A L \in CallLens : L % 2 = 0

\* cnt >> 10 whole blocks never decode to more than the received payload.
LEMMA WholeBlocksFit ==
  ASSUME NEW L \in Nat, NEW f \in Formats16
  PROVE  ((L \div 2) * OutBytesPerBlock(f)) * 1008
           <= OutBytesPerBlock(f) * Payload(L)
<1>1. Payload(L) >= 1008 * (L \div 2)
  BY DEF Payload
<1>2. L \div 2 \in Nat
  OBVIOUS
<1>3. Payload(L) \in Nat
  BY DEF Payload
<1>4. PICK v \in {1008, 1344, 1536, 2016} : OutBytesPerBlock(f) = v
  BY DEF Formats16, OutBytesPerBlock
<1>5. QED
  <2>1. CASE v = 1008
    BY <1>1, <1>2, <1>3, <1>4, <2>1
  <2>2. CASE v = 1344
    BY <1>1, <1>2, <1>3, <1>4, <2>2
  <2>3. CASE v = 1536
    BY <1>1, <1>2, <1>3, <1>4, <2>3
  <2>4. CASE v = 2016
    BY <1>1, <1>2, <1>3, <1>4, <2>4
  <2>5. QED
    BY <2>1, <2>2, <2>3, <2>4

\* On a call of whole blocks the 8-bit decoder's loop runs once per block.
LEMMA S8EvenFits ==
  ASSUME NEW L \in Nat, L % 2 = 0
  PROVE  (1008 * ((L + 1) \div 2)) * 1008 <= 1008 * Payload(L)
<1>1. (L + 1) \div 2 = L \div 2 /\ Payload(L) = 1008 * (L \div 2)
  BY DEF Payload
<1>2. QED
  BY <1>1

\* A decoder call keeps what it reports within what it received.
LEMMA ConvertFits ==
  ASSUME S8WholeBlocks, TypeOK, Convert
  PROVE  DecodedFromReceived'
<1> USE DEF TypeOK
<1>1. PICK L \in CallLens, j1 \in Junk, j2 \in Junk :
        LET hFirst == HeaderAt(w, j1)
            hLast == HeaderAt(w + 2 * (L \div 2 - 1), j2)
        IN  /\ IF fmt = "504_s8" THEN Convert8(L, hFirst)
                                 ELSE Convert16(L, hFirst, hLast)
            /\ UNCHANGED fmt
  BY DEF Convert
<1>2. L \in Nat
  BY CodecAssumption
<1>3. CASE fmt = "504_s8"
  <2>1. last'.ret = 1008 * ((L + 1) \div 2) /\ last'.payload = Payload(L)
    BY <1>1, <1>3 DEF Convert8
  <2>2. L % 2 = 0
    BY <1>3 DEF S8WholeBlocks
  <2>3. QED
    BY <1>1, <1>2, <1>3, <2>1, <2>2, S8EvenFits
       DEF DecodedFromReceived, OutBytesPerBlock
<1>4. CASE fmt /= "504_s8"
  <2>1. last'.ret = (L \div 2) * OutBytesPerBlock(fmt)
        /\ last'.payload = Payload(L)
    BY <1>1, <1>4 DEF Convert16
  <2>2. fmt \in Formats16
    BY <1>4, CodecAssumption DEF Formats16
  <2>3. QED
    BY <1>1, <1>2, <2>1, <2>2, WholeBlocksFit DEF DecodedFromReceived
<1>5. QED
  BY <1>3, <1>4

\* Where the 8-bit decoder is only given whole blocks, no decoder hands
\* the framer more bytes than the payload it received decodes to, for
\* every wire length, address width and call length: no stale buffer
\* content reaches the consumer.
THEOREM NoStaleBytes ==
  ASSUME S8WholeBlocks
  PROVE  Spec => []DecodedFromReceived
<1>1. Init => DecodedFromReceived
  <2> SUFFICES ASSUME Init PROVE DecodedFromReceived
    OBVIOUS
  <2>1. last.ret = 0 /\ last.payload = 0 /\ fmt \in Formats
    BY DEF Init
  <2>2. OutBytesPerBlock(fmt) \in Nat
    BY <2>1, FormatFacts
  <2>3. QED
    BY <2>1, <2>2 DEF DecodedFromReceived
<1>2. CInv /\ DecodedFromReceived /\ [Next]_vars => DecodedFromReceived'
  BY ConvertFits DEF CInv, Next, WireDrop, vars, DecodedFromReceived
<1>3. Spec => []CInv
  BY InitCInv, CInvStep, PTL DEF Spec
<1>4. QED
  BY <1>1, <1>2, <1>3, PTL DEF Spec

=============================================================================
