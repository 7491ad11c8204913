---------------------------- MODULE OutputFramer -----------------------------
(***************************************************************************)
(* The output framer mirisdr_feed_async (src/src/async.c, lines 22-62)    *)
(* and its configuration by mirisdr_read_async (lines 380-382: frame size *)
(* and cursor of a new session) and mirisdr_start_async (line 529: the    *)
(* cursor reset of a resume).                                             *)
(*                                                                         *)
(* Sample data is abstracted to its position in the decoded stream: the    *)
(* codec output of a session is the stream 0, 1, 2, ...; a chunk handed to *)
(* the framer is the next Bytes positions of it, and the frame buffer      *)
(* p->xfer_out holds positions.  The consumer sees a sequence of frames;   *)
(* only the last one is kept, with the position the consumer expects next  *)
(* (mark), so the order and the completeness of the delivered stream can   *)
(* be checked step by step.                                                *)
(***************************************************************************)
EXTENDS Integers, Sequences

CONSTANTS
  OutLens,    \* the len arguments of read_async: 0 = pass-through
  MaxChunk,   \* the largest chunk the codec hands over in one call
  StreamLen   \* bound on the decoded bytes of a run

ASSUME FramerAssumption ==
  /\ OutLens \subseteq Nat /\ OutLens /= {}
  /\ MaxChunk \in Nat \ {0}
  /\ StreamLen \in Nat
  \* len is a uint32_t, so the frame sizes have a largest one
  /\ \E m \in OutLens : \A l \in OutLens : l <= m

\* The stream positions first .. first + n - 1, as a sequence.
Slice(first, n) == [k \in 1 .. n |-> first + k - 1]

Positions == 0 .. StreamLen

\* The slots of p->xfer_out a session can use.
MaxOutLen == CHOOSE m \in OutLens : \A l \in OutLens : l <= m

Slots == 0 .. MaxOutLen - 1

VARIABLES
  outLen,  \* p->xfer_out_len
  pos,     \* p->xfer_out_pos
  out,     \* p->xfer_out: slot -> stream position held there
  fed,     \* decoded bytes handed to the framer so far
  src,     \* the samples pointer inside the current call
  bytes,   \* the bytes argument, as the loop decrements it
  pc,      \* "idle" or "loop" (inside the while loop of line 38)
  frame,   \* the last buffer passed to p->cb
  mark     \* the stream position the consumer expects next

vars == <<outLen, pos, out, fed, src, bytes, pc, frame, mark>>

TypeOK ==
  /\ outLen \in OutLens
  /\ pos \in Slots \cup {outLen}
  /\ out \in [Slots -> Positions]
  /\ fed \in Positions
  /\ src \in Positions
  /\ bytes \in 0 .. MaxChunk
  /\ pc \in {"idle", "loop"}
  /\ frame \in Seq(Positions)
  /\ mark \in Positions

Init ==
  /\ outLen \in OutLens
  /\ pos = 0
  /\ out = [s \in Slots |-> 0]
  /\ fed = 0
  /\ src = 0
  /\ bytes = 0
  /\ pc = "idle"
  /\ frame = <<>>
  /\ mark = 0

\* p->cb(buf, len): the consumer receives frame f.
Deliver(f) == frame' = f /\ mark' = mark + Len(f)

\* memcpy(p->xfer_out + lo, samples, hi - lo): slots lo .. hi-1 receive
\* the positions base, base + 1, ...; the other slots keep theirs.
Memcpy(o, lo, hi, base) ==
  [s \in Slots |-> IF lo <= s /\ s < hi THEN base + s - lo ELSE o[s]]

\* Lines 22-37, as called from _libusb_callback (line 202) with the n > 0
\* bytes the codec produced.  In pass-through mode the chunk goes to the
\* consumer as it is; otherwise the while loop starts.
FeedAsync ==
  /\ pc = "idle"
  /\ \E n \in 1 .. MaxChunk :
       /\ fed + n <= StreamLen
       /\ fed' = fed + n
       /\ IF outLen = 0
            THEN /\ Deliver(Slice(fed, n))
                 /\ UNCHANGED <<pc, src, bytes>>
            ELSE /\ src' = fed
                 /\ bytes' = n
                 /\ pc' = "loop"
                 /\ UNCHANGED <<frame, mark>>
  /\ UNCHANGED <<outLen, pos, out>>

\* Mutant: samples += i forgotten; the next turn reads the same bytes.
FramerLoopNoAdvance ==
  /\ pc = "loop"
  /\ pos + bytes >= outLen
  /\ LET i == outLen - pos IN
       /\ IF pos > 0
            THEN /\ out' = Memcpy(out, pos, outLen, src)
                 /\ Deliver([k \in 1 .. outLen |-> out'[k - 1]])
            ELSE /\ Deliver(Slice(src, i))
                 /\ UNCHANGED out
       /\ bytes' = bytes - i
  /\ pos' = 0
  /\ UNCHANGED <<outLen, fed, src, pc>>

\* Mutant: p->xfer_out_pos = 0 forgotten after a delivery.
FramerLoopNoReset ==
  /\ pc = "loop"
  /\ pos + bytes >= outLen
  /\ LET i == outLen - pos IN
       /\ IF pos > 0
            THEN /\ out' = Memcpy(out, pos, outLen, src)
                 /\ Deliver([k \in 1 .. outLen |-> out'[k - 1]])
            ELSE /\ Deliver(Slice(src, i))
                 /\ UNCHANGED out
       /\ bytes' = bytes - i
       /\ src' = src + i
  /\ UNCHANGED <<outLen, pos, fed, pc>>

\* Lines 38-52: one turn of the while loop.  With bytes buffered, fill the
\* frame buffer up to outLen and deliver it; with none, deliver the next
\* outLen bytes of the chunk in place.  Then the cursor is reset.
FramerLoop ==
  /\ pc = "loop"
  /\ pos + bytes >= outLen
  /\ LET i == outLen - pos IN
       /\ IF pos > 0
            THEN /\ out' = Memcpy(out, pos, outLen, src)
                 /\ Deliver([k \in 1 .. outLen |-> out'[k - 1]])
            ELSE /\ Deliver(Slice(src, i))
                 /\ UNCHANGED out
       /\ bytes' = bytes - i
       /\ src' = src + i
  /\ pos' = 0
  /\ UNCHANGED <<outLen, fed, pc>>

\* Mutant: the memcpy of the remainder forgotten; only the cursor moves.
FramerTailNoCopy ==
  /\ pc = "loop"
  /\ pos + bytes < outLen
  /\ pos' = pos + bytes
  /\ bytes' = 0
  /\ pc' = "idle"
  /\ UNCHANGED <<outLen, out, fed, src, frame, mark>>

\* Lines 53-56: the loop is left; the remainder is copied behind the
\* cursor.
FramerTail ==
  /\ pc = "loop"
  /\ pos + bytes < outLen
  /\ out' = Memcpy(out, pos, pos + bytes, src)
  /\ pos' = pos + bytes
  /\ bytes' = 0
  /\ pc' = "idle"
  /\ UNCHANGED <<outLen, fed, src, frame, mark>>

\* Lines 380-382: a new session of read_async takes its frame size and
\* starts with an empty frame buffer (a fresh p->xfer_out, line 327);
\* the bytes the last session left in the buffer are dropped.
SessionStart ==
  /\ pc = "idle"
  /\ outLen' \in OutLens
  /\ pos' = 0
  /\ mark' = fed
  /\ UNCHANGED <<out, fed, src, bytes, pc, frame>>

\* Line 529: mirisdr_start_async (resume) resets the cursor, dropping the
\* bytes held since before the pause.
ResumeReset ==
  /\ pc = "idle"
  /\ pos' = 0
  /\ mark' = fed
  /\ UNCHANGED <<outLen, out, fed, src, bytes, pc, frame>>

Next == FeedAsync \/ FramerLoop \/ FramerTail \/ SessionStart \/ ResumeReset

Spec == Init /\ [][Next]_vars

(***************************************************************************)
(* Properties.                                                             *)
(***************************************************************************)

\* Every buffer mirisdr_feed_async hands to p->cb holds the bytes the
\* consumer expects next, in stream order, and in fixed mode exactly
\* xfer_out_len of them, whether it was assembled in p->xfer_out or passed
\* in place.
FramesInOrder ==
  [][frame' /= frame =>
       /\ frame' = Slice(mark, Len(frame'))
       /\ outLen > 0 => Len(frame') = outLen]_vars

\* Between two calls nothing is lost or duplicated: every byte handed to
\* the framer was delivered, is held behind the cursor (in slots
\* 0 .. pos-1, in order), or was dropped by a cursor reset; the cursor
\* stays below the frame size.
NothingLost ==
  pc = "idle" =>
    /\ mark + pos = fed
    /\ outLen > 0 => pos < outLen
    /\ \A s \in 0 .. pos - 1 : out[s] = mark + s

=============================================================================
