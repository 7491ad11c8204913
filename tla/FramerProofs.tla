---------------------------- MODULE FramerProofs -----------------------------
(***************************************************************************)
(* Proofs about the output framer mirisdr_feed_async, for every set of    *)
(* frame sizes, every chunk bound and every stream length.                *)
(***************************************************************************)
EXTENDS OutputFramer, TLAPS

(***************************************************************************)
(* The invariant of the while loop of lines 38-52.  Between calls it is   *)
(* NothingLost; inside a call the chunk not yet consumed is the stream    *)
(* src .. fed - 1 and the bytes buffered behind the cursor run up to src. *)
(* NothingLost alone is not inductive: it says nothing while pc = "loop", *)
(* and the loop's deliveries are correct only because src is where the    *)
(* buffered bytes end.                                                     *)
(***************************************************************************)
FInv ==
  /\ TypeOK
  /\ outLen = 0 => pos = 0
  /\ outLen > 0 => pos < outLen
  /\ \A s \in 0 .. pos - 1 : out[s] = mark + s
  /\ pc = "idle" => mark + pos = fed
  /\ pc = "loop" => /\ outLen > 0
                    /\ mark + pos = src
                    /\ src + bytes = fed

(***************************************************************************)
(* Facts about the constants and the operators the actions are built of.  *)
(***************************************************************************)

\* The largest frame size bounds every other one, so a frame of any
\* session fits in the slots of p->xfer_out.
LEMMA MaxOutLenFacts ==
  /\ MaxOutLen \in OutLens
  /\ MaxOutLen \in Nat
  /\ \A l \in OutLens : l <= MaxOutLen
BY FramerAssumption DEF MaxOutLen

\* Slice(first, n) is the sequence of n positions from first on; it is a
\* sequence of positions when it ends inside the stream.
LEMMA SliceFacts ==
  ASSUME NEW first \in Nat, NEW n \in Nat, first + n <= StreamLen
  PROVE  /\ Slice(first, n) \in Seq(Positions)
         /\ Len(Slice(first, n)) = n
BY FramerAssumption DEF Slice, Positions

\* The memcpy writes base .. base + (hi - lo) - 1 into slots lo .. hi - 1:
\* the result holds positions while the copy ends inside the stream, and
\* the slots it does not touch
\* keep their contents.
LEMMA MemcpyFacts ==
  ASSUME NEW o \in [Slots -> Positions], NEW lo \in Nat, NEW hi \in Nat,
         NEW base \in Nat, base + (hi - lo) <= StreamLen + 1
  PROVE  /\ Memcpy(o, lo, hi, base) \in [Slots -> Positions]
         /\ \A s \in Slots : lo <= s /\ s < hi =>
                Memcpy(o, lo, hi, base)[s] = base + s - lo
         /\ \A s \in Slots : ~(lo <= s /\ s < hi) =>
                Memcpy(o, lo, hi, base)[s] = o[s]
BY FramerAssumption DEF Memcpy, Positions, Slots

(***************************************************************************)
(* The loop invariant is inductive: one step per action.                  *)
(***************************************************************************)

\* A session start or a resume reset empties the frame buffer's cursor
\* and puts the consumer's mark at the end of what was fed.
LEMMA ResetStep ==
  ASSUME FInv, SessionStart \/ ResumeReset
  PROVE  FInv'
<1> USE DEF FInv, TypeOK
<1>1. /\ pc = "idle" /\ pos' = 0 /\ mark' = fed
      /\ outLen' \in OutLens
      /\ UNCHANGED <<out, fed, src, bytes, pc, frame>>
  BY DEF SessionStart, ResumeReset
<1>2. outLen' \in Nat /\ outLen' <= MaxOutLen
  BY <1>1, FramerAssumption, MaxOutLenFacts
<1>3. pos' \in Slots \cup {outLen'}
  <2>1. CASE outLen' = 0
    BY <2>1, <1>1
  <2>2. CASE outLen' > 0
    BY <2>2, <1>1, <1>2, MaxOutLenFacts DEF Slots
  <2>3. QED
    BY <2>1, <2>2, <1>2
<1>4. QED
  BY <1>1, <1>3, FramerAssumption DEF Positions

\* A call of mirisdr_feed_async: in pass-through mode the chunk is the
\* frame and starts at the mark; in fixed mode the loop starts with the
\* chunk right behind the buffered bytes.
LEMMA FeedStep ==
  ASSUME FInv, FeedAsync
  PROVE  FInv'
<1> USE DEF FInv, TypeOK
<1>1. PICK n \in 1 .. MaxChunk :
        /\ pc = "idle"
        /\ fed + n <= StreamLen
        /\ fed' = fed + n
        /\ IF outLen = 0
             THEN /\ Deliver(Slice(fed, n))
                  /\ UNCHANGED <<pc, src, bytes>>
             ELSE /\ src' = fed
                  /\ bytes' = n
                  /\ pc' = "loop"
                  /\ UNCHANGED <<frame, mark>>
        /\ UNCHANGED <<outLen, pos, out>>
  BY DEF FeedAsync
<1>2. CASE outLen = 0
  <2>1. pos = 0 /\ mark = fed
    BY <1>1, <1>2 DEF Positions
  <2>2. /\ Slice(fed, n) \in Seq(Positions)
        /\ Len(Slice(fed, n)) = n
    <3>1. fed \in Nat /\ n \in Nat /\ fed + n <= StreamLen
      BY <1>1, FramerAssumption DEF Positions
    <3>2. QED
      BY <3>1, SliceFacts
  <2>3. QED
    BY <1>1, <1>2, <2>1, <2>2, FramerAssumption DEF Deliver, Positions
<1>3. CASE outLen # 0
  BY <1>1, <1>3, FramerAssumption DEF Positions
<1>4. QED
  BY <1>2, <1>3

\* One turn of the while loop delivers the next outLen positions of the
\* stream, whether the frame is assembled in p->xfer_out (pos > 0) or
\* passed in place (pos = 0), and leaves p->xfer_out holding positions.
LEMMA LoopDelivers ==
  ASSUME FInv, FramerLoop
  PROVE  /\ frame' = Slice(mark, outLen)
         /\ frame' \in Seq(Positions)
         /\ Len(frame') = outLen
         /\ mark' = mark + outLen
         /\ mark + outLen <= fed
         /\ out' \in [Slots -> Positions]
<1> USE DEF FInv, TypeOK
<1>1. /\ pc = "loop" /\ outLen > 0 /\ pos < outLen
      /\ mark + pos = src /\ src + bytes = fed
      /\ pos + bytes >= outLen
      /\ outLen \in Nat /\ outLen <= MaxOutLen /\ MaxOutLen \in Nat
      /\ pos \in Nat /\ mark \in Nat /\ src \in Nat /\ bytes \in Nat
      /\ fed <= StreamLen /\ out \in [Slots -> Positions]
  BY MaxOutLenFacts, FramerAssumption DEF FramerLoop, Positions, Slots
<1>2. mark + outLen <= StreamLen /\ src + (outLen - pos) <= StreamLen + 1
  BY <1>1, FramerAssumption
<1>6. /\ Slice(mark, outLen) \in Seq(Positions)
      /\ Len(Slice(mark, outLen)) = outLen
  BY <1>1, <1>2, SliceFacts
<1>7. mark + outLen <= fed
  BY <1>1
<1>3. CASE pos > 0
  <2>1. /\ out' = Memcpy(out, pos, outLen, src)
        /\ frame' = [k \in 1 .. outLen |-> out'[k - 1]]
        /\ mark' = mark + Len(frame')
    BY <1>3 DEF FramerLoop, Deliver
  <2>2. out' \in [Slots -> Positions]
    BY <1>1, <1>2, <2>1, MemcpyFacts
  <2>3. \A s \in 0 .. outLen - 1 : out'[s] = mark + s
    <3>1. SUFFICES ASSUME NEW s \in 0 .. outLen - 1 PROVE out'[s] = mark + s
      OBVIOUS
    <3>2. s \in Slots
      BY <1>1 DEF Slots
    <3>3. CASE s < pos
      <4>1. s \in 0 .. pos - 1 /\ out'[s] = out[s]
        BY <1>1, <2>1, <3>2, <3>3 DEF Memcpy
      <4>2. QED
        BY <4>1
    <3>4. CASE s >= pos
      <4>1. out'[s] = src + s - pos
        BY <1>1, <2>1, <3>2, <3>4 DEF Memcpy
      <4>2. QED
        BY <4>1, <1>1
    <3>5. QED
      BY <3>3, <3>4, <1>1
  <2>4. frame' = Slice(mark, outLen)
    <3>1. \A k \in 1 .. outLen : out'[k - 1] = mark + k - 1
      BY <1>1, <2>3
    <3>2. QED
      BY <2>1, <3>1 DEF Slice
  <2>5. QED
    BY <2>1, <2>2, <2>4, <1>6, <1>7
<1>4. CASE pos = 0
  <2>1. /\ frame' = Slice(src, outLen - pos)
        /\ mark' = mark + Len(frame')
        /\ out' = out
    BY <1>4 DEF FramerLoop, Deliver
  <2>2. QED
    BY <1>1, <1>6, <1>7, <1>4, <2>1
<1>5. QED
  BY <1>1, <1>3, <1>4

\* After a turn of the loop the cursor is back at 0 and the rest of the
\* chunk starts at the new mark.
LEMMA LoopStep ==
  ASSUME FInv, FramerLoop
  PROVE  FInv'
<1> USE DEF FInv, TypeOK
<1>1. /\ frame' = Slice(mark, outLen)
      /\ frame' \in Seq(Positions)
      /\ mark' = mark + outLen
      /\ mark + outLen <= fed
      /\ out' \in [Slots -> Positions]
  BY LoopDelivers
<1>2. /\ pc = "loop" /\ outLen > 0 /\ pos < outLen
      /\ mark + pos = src /\ src + bytes = fed
      /\ pos + bytes >= outLen
      /\ pos' = 0 /\ bytes' = bytes - (outLen - pos)
      /\ src' = src + (outLen - pos)
      /\ UNCHANGED <<outLen, fed, pc>>
  BY DEF FramerLoop
<1>3. 0 \in Slots
  BY <1>2, MaxOutLenFacts, FramerAssumption DEF Slots
<1>4. /\ mark' \in Positions /\ src' \in Positions
      /\ bytes' \in 0 .. MaxChunk /\ mark' + pos' = src'
  BY <1>1, <1>2, MaxOutLenFacts, FramerAssumption DEF Positions, Slots
<1>5. TypeOK'
  BY <1>1, <1>2, <1>3, <1>4
<1>7. src' + bytes' = fed'
  <2>1. outLen \in Nat /\ pos \in Nat /\ src \in Nat /\ bytes \in Nat
    BY FramerAssumption, MaxOutLenFacts DEF Positions, Slots
  <2>2. QED
    BY <1>2, <2>1
<1>8. \A s \in 0 .. pos' - 1 : out'[s] = mark' + s
  BY <1>2
<1>6. QED
  BY <1>2, <1>4, <1>5, <1>7, <1>8

\* The tail of a call copies the rest of the chunk behind the cursor, so
\* the buffered bytes again run from the mark up to what was fed.
LEMMA TailStep ==
  ASSUME FInv, FramerTail
  PROVE  FInv'
<1> USE DEF FInv, TypeOK
<1>1. /\ pc = "loop" /\ outLen > 0 /\ pos + bytes < outLen
      /\ mark + pos = src /\ src + bytes = fed
      /\ out' = Memcpy(out, pos, pos + bytes, src)
      /\ pos' = pos + bytes /\ bytes' = 0 /\ pc' = "idle"
      /\ UNCHANGED <<outLen, fed, src, frame, mark>>
      /\ outLen \in Nat /\ outLen <= MaxOutLen /\ MaxOutLen \in Nat
      /\ pos \in Nat /\ mark \in Nat /\ src \in Nat /\ bytes \in Nat
      /\ fed <= StreamLen /\ out \in [Slots -> Positions]
  BY MaxOutLenFacts, FramerAssumption DEF FramerTail, Positions, Slots
<1>2. out' \in [Slots -> Positions]
  <2>1. src + ((pos + bytes) - pos) <= StreamLen + 1 /\ pos + bytes \in Nat
    BY <1>1, FramerAssumption
  <2>2. QED
    BY <1>1, <2>1, MemcpyFacts
<1>3. pos' \in Slots
  BY <1>1 DEF Slots
<1>4. \A s \in 0 .. pos' - 1 : out'[s] = mark + s
  <2>1. SUFFICES ASSUME NEW s \in 0 .. pos' - 1 PROVE out'[s] = mark + s
    OBVIOUS
  <2>2. s \in Slots
    BY <1>1 DEF Slots
  <2>3. CASE s < pos
    <3>1. s \in 0 .. pos - 1 /\ out'[s] = out[s]
      BY <1>1, <2>2, <2>3 DEF Memcpy
    <3>2. QED
      BY <3>1
  <2>4. CASE s >= pos
    <3>1. out'[s] = src + s - pos
      BY <1>1, <2>2, <2>4 DEF Memcpy
    <3>2. QED
      BY <3>1, <1>1
  <2>5. QED
    BY <2>3, <2>4, <1>1
<1>5. TypeOK'
  BY <1>1, <1>2, <1>3, FramerAssumption DEF Positions
<1>6. QED
  BY <1>1, <1>4, <1>5

\* The initial state: an empty frame buffer and nothing fed.
LEMMA InitFInv ==
  Init => FInv
<1> SUFFICES ASSUME Init PROVE FInv
  OBVIOUS
<1>1. outLen \in Nat /\ outLen <= MaxOutLen /\ MaxOutLen \in Nat
  BY MaxOutLenFacts, FramerAssumption DEF Init
<1>2. pos \in Slots \cup {outLen}
  BY <1>1 DEF Init, Slots
<1>3. QED
  BY <1>1, <1>2, FramerAssumption DEF Init, FInv, TypeOK, Positions

\* Every step of the framer keeps the loop invariant.
LEMMA FInvStep ==
  FInv /\ [Next]_vars => FInv'
<1> SUFFICES ASSUME FInv, [Next]_vars PROVE FInv'
  OBVIOUS
<1>1. CASE FeedAsync
  BY <1>1, FeedStep
<1>2. CASE FramerLoop
  BY <1>2, LoopStep
<1>3. CASE FramerTail
  BY <1>3, TailStep
<1>4. CASE SessionStart \/ ResumeReset
  BY <1>4, ResetStep
<1>5. CASE UNCHANGED vars
  BY <1>5 DEF FInv, TypeOK, vars
<1>6. QED
  BY <1>1, <1>2, <1>3, <1>4, <1>5 DEF Next

(***************************************************************************)
(* The theorems.                                                           *)
(***************************************************************************)

\* The loop invariant holds in every reachable state of the framer.
LEMMA FInvHolds ==
  Spec => []FInv
BY InitFInv, FInvStep, PTL DEF Spec

\* The framer's variables keep their types for every set of frame sizes,
\* every chunk bound and every stream length: in particular the cursor
\* p->xfer_out_pos never leaves the buffer and the positions copied into
\* p->xfer_out never run past what the codec produced.
THEOREM FramerTypeCorrect ==
  Spec => []TypeOK
BY FInvHolds, PTL DEF FInv

\* Between two calls of mirisdr_feed_async nothing is lost or duplicated:
\* every byte fed was delivered, is buffered behind the cursor in order,
\* or was dropped by a session start or resume reset; the cursor stays
\* below the frame size.
THEOREM NoLoss ==
  Spec => []NothingLost
<1>1. FInv => NothingLost
  BY DEF FInv, NothingLost
<1>2. QED
  BY <1>1, FInvHolds, PTL

\* The step form of FramesInOrder: only a pass-through call and a turn of
\* the loop change the frame, and both hand over the slice that starts
\* at the mark.
LEMMA InOrderStep ==
  ASSUME FInv, [Next]_vars
  PROVE  frame' /= frame =>
           /\ frame' = Slice(mark, Len(frame'))
           /\ outLen > 0 => Len(frame') = outLen
<1>1. CASE FeedAsync
  <2>1. PICK n \in 1 .. MaxChunk :
          /\ pc = "idle"
          /\ fed + n <= StreamLen
          /\ IF outLen = 0
               THEN /\ Deliver(Slice(fed, n))
               ELSE UNCHANGED frame
    BY <1>1 DEF FeedAsync
  <2>2. CASE outLen = 0
    <3>1. mark = fed /\ fed \in Nat /\ n \in Nat
      BY <2>1, <2>2, FramerAssumption DEF FInv, TypeOK, Positions
    <3>2. Len(Slice(fed, n)) = n
      BY <2>1, <3>1, FramerAssumption, SliceFacts
    <3>3. QED
      BY <2>1, <2>2, <3>1, <3>2 DEF Deliver
  <2>3. QED
    BY <2>1, <2>2
<1>2. CASE FramerLoop
  BY <1>2, LoopDelivers
<1>3. CASE FramerTail \/ SessionStart \/ ResumeReset \/ UNCHANGED vars
  BY <1>3 DEF FramerTail, SessionStart, ResumeReset, vars
<1>4. QED
  BY <1>1, <1>2, <1>3 DEF Next

\* Every buffer mirisdr_feed_async hands to the consumer holds the bytes
\* it expects next, in stream order, and in fixed mode exactly
\* xfer_out_len of them, for every set of frame sizes and chunk bounds.
THEOREM InOrder ==
  Spec => FramesInOrder
<1>1. FInv /\ [Next]_vars =>
        [frame' /= frame =>
           /\ frame' = Slice(mark, Len(frame'))
           /\ outLen > 0 => Len(frame') = outLen]_vars
  BY InOrderStep
<1>2. QED
  BY <1>1, FInvHolds, PTL DEF Spec, FramesInOrder

=============================================================================
