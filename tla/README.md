# Verification of libmirisdr's asynchronous streaming engine

This directory holds the TLA+ models of libmirisdr-6 (`src/`), the TLC
configurations that check them, and the TLAPS proofs about them.
`PROJECT.json` records, for each model definition, which source lines it
translates (its `map`). It also lists the runs, mutants, findings, hazards
and theorems.

## The system

The async path of a receiving application involves these parts:

- **Drive loop** (`mirisdr_read_async`, `src/src/async.c` 365-519) runs on
  the application's thread. It does the following, in order:
  - allocates the pool of libusb transfers (`mirisdr_async_alloc`);
  - starts the device stream (`mirisdr_streaming_start`, `streaming.c`);
  - sets `async_status` to RUNNING and submits every transfer;
  - pumps `libusb_handle_events_timeout` until `async_status` leaves RUNNING
    and PAUSED;
  - when the status is CANCELING, cancels every transfer whose last
    reported status is not CANCELLED and waits until all are;
  - writes INACTIVE, pumps once more, frees the pool and stops streaming.

  The failure exits (`failed_free`) skip the last two steps of that exit
  path.
- **Completion callback** (`_libusb_callback`, 177-230) runs inside a pump:
  - on COMPLETED it decodes the buffer (the codec), feeds the framer and
    resubmits;
  - on a bulk sync loss it re-arms `sync_loss_cnt` and resubmits 512 bytes
    short;
  - on an error, or when resubmission fails, it writes CANCELING (through
    `mirisdr_cancel_async`) and then FAILED.
- **Control calls** run from other threads, or from the consumer callback:
  - `mirisdr_cancel_async` and `mirisdr_cancel_async_now` (233-289);
  - pause `mirisdr_stop_async` (552-597), which pumps events itself;
  - resume `mirisdr_start_async` (522-549).

  Every one of them reads and then writes the shared `p->async_status`
  without a lock.
- **Codec** (`src/src/convert.c`) turns 1024-byte wire blocks into samples.
  It tracks the device's sample counter in `p->addr` and counts losses in
  `sync_loss_cnt`.
- **Framer** (`mirisdr_feed_async`, 22-62) cuts the decoded stream into
  frames of `xfer_out_len` bytes, or passes it through when that length is 0.
- **Applications:** `miri_sdr.c` calls cancel from its consumer callback and
  from its signal handler. `mirisdr_close` calls `cancel_async_now` and then
  frees the device.

## Modules

| module | models | state ↔ code |
|---|---|---|
| `MiriAsync` | drive loop, callback, the four control calls, pool life, streaming flag | see below |
| `AsyncLifecycle` | the abstract promise of spec 4.1: status word and the blocking read_async call | `status` ↔ `async_status`, `session` ↔ `drv /= "idle"` |
| `MiriAsyncProofs` | theorems about `MiriAsync` | — |
| `LifecycleProofs` | the proof that `MiriAsync` implements `AsyncLifecycle` with one control thread and no fault | — |
| `ReceiverProofs` | theorems about `MiriAsync` in miri_sdr's configuration: no control thread, consumer and signal cancels, libusb faults | — |
| `PauseProofs` | the theorem that pause writes PAUSED only over an idle pool | — |
| `MCMiriAsync` | model values for the control threads | — |
| `OutputFramer` | `mirisdr_feed_async`, the cursor set-up of read_async (376-382) and resume (528-529) | see below |
| `FramerProofs` | theorems about `OutputFramer` | — |
| `CodecProofs` | theorems about `SampleCodec` | — |
| `SampleCodec` | address tracking, loss detection and output length of the five decoders, as called by `_process_bulk_transfer` / `_process_isochronous_transfer` | see below |

**MiriAsync: state.**
- `async_status` is `p->async_status`.
- `pool` means `p->xfer != NULL`.
- `inflight[i]` means transfer i is submitted and libusb has not yet called
  it back.
- `xstatus[i]` is `p->xfer[i]->status`, the last status libusb reported.
  Submitting does not reset it.
- `cancelled[i]` records that `libusb_cancel_transfer` was called on this
  submission.
- `xlen[i]` is the bulk length: full, or short by 512 bytes.
- `sync_loss_cnt` is `p->sync_loss_cnt`.
- `streaming` is the device stream.
- `drv` is the drive thread's position: idle, in the pump, in the drain, or
  in the final pump.
- `cli[c]` is each control thread's position inside its API call.

**MiriAsync: actions.** Each action is one atomic stretch of code, cut
wherever the code reads `async_status` and later acts on what it read:
- `ReadAsync` runs from entry to the first pump, with every early return and
  with a submission loop that can fail part-way.
- `DriveCheck` is one pump and the loop test.
- `CancelRound` / `DrainRound` are the cancel round of lines 476-494.
- `FinalReturn` is the last pump, the free and the stop.
- `LibusbCallback(i)` is one whole callback, with the consumer's possible
  cancel inside it.
- Each control call is split in two at its gap:
  - `CancelAsync` reads and `CancelWrite` writes;
  - `CancelAsyncNow` is followed by `CancelNowPoll`;
  - pause is `StopAsync`, `StopRound`, `StopPump`, `StopCheck`, `StopWrite`;
  - resume is `StartAsync`, `ResumeCheck`, `ResumeWrite`.
- `SignalCancel` is miri_sdr's signal handler (`miri_sdr.c` 103-110). It
  runs on the interrupted drive thread, so its `mirisdr_cancel_async` reads
  and writes the status in one step; it is enabled by `"signal"` in
  `ClientOps`.
- `StreamingStart` / `StreamingStop` are the two functions of
  `streaming.c`. Each sends one vendor request whose result is ignored, so
  the model only sets the stream flag; they are part of the actions that
  call them (`ReadAsync`, `FinalReturn`, `StopWrite`, `ResumeWrite`).

libusb is modelled by the guarantees the code relies on:
- a transfer is called back once per submission;
- COMPLETED happens only while the device streams;
- CANCELLED happens only after a cancel of that submission;
- the fault constants allow error statuses, submission errors and fatal pump
  errors.

**AsyncLifecycle and the refinement.** `AsyncLifecycle` states, with no
transfers, pumps or threads, what a user of the library is promised:
- a session starts only from INACTIVE with no read_async in progress;
- pause, resume and cancel move it RUNNING → PAUSED → RUNNING →
  CANCELING, and only while it is driven;
- the drive loop ends a cancel with INACTIVE;
- FAILED may replace any other state and nothing replaces it;
- read_async returns only from INACTIVE or FAILED.

`MiriAsync` instantiates it as
`Life == INSTANCE AsyncLifecycle WITH status <- async_status, session <- drv /= "idle"`,
and `Lifecycle == Life!Spec` is checked as a PROPERTY. Every step of
`MiriAsync` must then be a step of the abstract machine or leave both
`async_status` and the drive thread's presence unchanged.

**OutputFramer.** The data is abstracted to stream positions:
- the n-th decoded byte of a session is the number n;
- `out` maps each slot of `p->xfer_out` to the position it holds;
- `pos`, `outLen`, `src` and `bytes` are the C variables of the same role;
- `frame` is the last buffer passed to `p->cb`;
- `mark` is the position the consumer expects next.

Actions:
- `FeedAsync` is entry, and in pass-through mode the whole call;
- `FramerLoop` is one turn of the while loop;
- `FramerTail` is the final memcpy;
- `SessionStart` and `ResumeReset` are the cursor resets.

`Memcpy(o, lo, hi, base)` is a memcpy into slots `lo .. hi-1` of the
buffer, which has `MaxOutLen` slots (the largest frame size, the size
`xfer_out` is allocated with). Each copy writes exactly the bytes the C
call copies: the loop `xfer_out_len - xfer_out_pos`, the tail `bytes`.

**SampleCodec.** The wire is a sequence of 512-byte half blocks. Block b
carries the header `A0 + b*N` mod 2^32. A call receives the next L half
blocks, after the wire may have lost some. A header read from a buffer that
does not start on a block boundary is an arbitrary `Junk` value.

`Convert16` is the four 16-bit decoders:
- they decode `cnt >> 10` whole blocks;
- they compare only the first header with the expected address;
- `addr` becomes the last header plus N, or `0 + N` after a runt.

`Convert8` is the 8-bit decoder:
- it loops for every `i = 16, 1040, ... < cnt`, so a partial block counts;
- it copies 1008 bytes and adds 504 each time.

Ghost variables record what the consumer has received:
- `nextBlk` is the block after the last whole block delivered;
- `tracked` means the previous call was aligned;
- `last` records the last call's loss flag, output and payload.

The bit unpacking of sample values is not modelled yet.

## Runs

All `MCMiriAsync` runs use 2 transfers. Two transfers are enough for one
transfer to be in flight while the other has already reported. Each further
transfer only repeats that case.

Passing runs:

| run | what it shows |
|---|---|
| cancel | One thread cancels a fault-free bulk session. Sessions are driven to the end (`SessionDriven`). The pool is freed only after all transfers are cancelled (`NoFreeWhileInFlight`). Every cancel completes (`CancelingEnds`, under fairness). The engine implements the abstract lifecycle (`Lifecycle`). |
| pause | Pause, resume and cancel of an isochronous session keep `SessionDriven`, `CancelingEnds` and `Lifecycle`. |
| faults | What miri_sdr does: failing transfers, failing resubmission, a consumer that cancels from the callback and a signal handler that cancels, with no other thread. FAILED is terminal (`FailedIsTerminal`), cancels complete, and `Lifecycle` holds: the signal cancel is atomic, so no write is lost. |
| pauseFaults | With transfer, event-pump and consumer-cancel faults (submission never fails here) and without resume, pause writes PAUSED only when nothing is in flight (`PauseQuiesces`). |
| framer | Frames are delivered in order and at the right size (`FramesInOrder`). Nothing is lost or duplicated between calls (`NothingLost`). Frame length 3 with chunks of 1-4 bytes gives chunks shorter than, equal to and longer than a frame, as well as completions of a partly filled frame. |
| codecIsoc | All five formats with whole-block packets. A0 = 65000 with AddrMod = 65536 makes the counter wrap within the run. Losses are reported exactly when the consumer's stream has a hole (`LossIffHole`). No stale bytes are decoded (`DecodedFromReceived`). |
| codecBulk | The 16-bit formats with full, short and runt transfers, including reads that are not block aligned: the same two properties. |

Each passing property has a mutant in `PROJECT.json`: a plausible bug in
the mapped code, such as a dropped wait, a missing status write, an
off-by-one re-arm or a forgotten cursor reset. TLC finds each mutant
violating its property under the run's configuration.

One more configuration, `MCMiriAsync_all.cfg`, is kept for reference. It
runs two threads making every call under every fault and checks `TypeOK`
over about 1.3 million states. `TypeCorrect` proves the same property for
every instance.

Violation runs (each one checks one property). The runs listed in
`PROJECT.json` are marked *; each of them is a finding. The other rows are
configurations kept for reference. Each one reproduces a further
consequence of the same root causes, and each was confirmed violated with
`tlc`.

| run | property | what the code does |
|---|---|---|
| staleCancel* | SessionDriven | A cancel's late CANCELING write (async.c:242) outlives the session ended by the consumer's own cancel. read_async is then refused forever and `cancel_async_now` spins. |
| failedDowngrade | FailedIsTerminal | The same late write overwrites FAILED. |
| staleFree* | NoFreeWhileInFlight | After a resume, `xstatus` still says CANCELLED, so the drain skips the resubmitted transfers and frees them in flight (482). |
| stalePause | PauseQuiesces | The same stale status makes a second pause write PAUSED at once (566). |
| cancelNowEarly* | CancelNowQuiesces | `cancel_async_now` returns on INACTIVE (written at 490) while read_async is still pumping, freeing and stopping. `mirisdr_close` frees the device under it. |
| failNoStop | StreamingStoppedOnExit | The `failed_free` exit does not stop streaming (515). |
| lostCancel* | Lifecycle | A cancel (here miri_sdr's signal handler) lands between pause's RUNNING check (async.c:582) and its PAUSED write (591). The write overwrites CANCELING, so a status the abstract machine never allows (CANCELING → PAUSED) appears and the cancel is lost: read_async keeps pumping a paused session. Resume has the same window (539-543). |
| failFree | NoFreeWhileInFlight | The `failed_free` exit after a failed transfer frees the others in flight. |
| submitFree | NoFreeWhileInFlight | A submission failing part-way frees the transfers already submitted (452). |
| eventErr | SessionDriven | A fatal pump error returns with the status still RUNNING and the pool freed (466). |
| s8Short* | DecodedFromReceived | The 8-bit decoder copies a whole block for the trailing half block of a short bulk transfer (convert.c:178). |
| s8MissedLoss | LossIffHole | The same partial block advances `p->addr` by 504, so the loss of the rest of that block is not reported (180). |

Deadlock is checked in cancel, pause and framer. Those systems can always
act: read_async can be called again, and a new session can start. It is not
checked in the runs with faults: FAILED, or a fatal pump error, really does
end all activity of the library. It is not checked in the codec runs either,
which stop at the wire bound.

## Fairness

`Spec` is `Init /\ [][Next]_vars /\ Fairness`. The fairness conditions are:
- **Weak fairness of the drive thread's steps once inside read_async.** The
  thread loops without blocking on anything but the pump.
- **Weak fairness of each step of a control call a thread has entered.**
  None of these steps blocks.
- **Strong fairness of libusb reporting a transfer that was asked to
  cancel.** The report is possible only while some thread pumps events, and
  pumping starts and stops repeatedly.

Making the API calls, or calling read_async, is the application's choice.
Those steps are not fair. Only `CancelingEnds` depends on this fairness.

## Proofs (`MiriAsyncProofs`, checked by `tlapm`)

- **`TypeCorrect`: `Spec => []TypeOK`.** This holds for every value of the
  constants allowed by the ASSUMEs, for any pool size, any set of threads and
  every fault. `TypeOK` bounds `sync_loss_cnt` to
  `-NumXfers+1 .. NumXfers`, so the proof shows that the re-arm at async.c
  204-213 keeps the counter in range. It rests on lemmas that each action
  family preserves `TypeOK`: `SyncLossTyped`, `CallbackTyped`,
  `ClientStepTyped`, `TypeStep` and `InitTyped`.
- **`PoolOutlivesTransfers`:
  `NoFaultNoResume => (Spec => []NoFreeWhileInFlight)`.**
  - *Assumption.* `NoFaultNoResume` means no libusb fault and no resume in
    the client operations. The findings show the property fails without it.
  - *Why the invariant must be strengthened.* `NoFreeWhileInFlight` is not
    inductive. The free in `FinalReturn` is safe only because the drain
    before it waited until every transfer reported CANCELLED, and a
    CANCELLED transfer is not in flight. The inductive invariant `IInv` is
    the conjunction of:
    - `TypeOK`;
    - the status is never FAILED;
    - `CancelledIdle`: a transfer whose last status is CANCELLED is not in
      flight. Resume breaks this, by resubmitting without resetting the
      status.
    - `FinalIdle`: in the final pump nothing is in flight;
    - the property itself.
  - *Proof structure.* `IInvStep` proves `IInv` is preserved with one case
    per action. `ClientStepFrame` shows the control calls leave the pool and
    the transfers alone. `CallbackStep` shows a callback only takes a
    transfer out of flight, or resubmits one that is not CANCELLED.

## Proofs (`LifecycleProofs`, checked by `tlapm`)

All three theorems assume `SoleController`: at most one control thread, no
signal cancel, no consumer cancel and no libusb fault. The findings show
`Lifecycle` and `SessionDriven` fail without it.
- **`Implements`: `Spec => Lifecycle`.** The initial states map to the
  abstract initial state (`LInvInit`, `RefineStep` for the steps).
  `RefineStep` shows each action is an abstract step or a stutter: the
  callbacks and the first phases of the control calls change neither
  `async_status` nor `drv` (`CallbackQuiet`, `ClientQuiet`); `ReadAsync` is
  `Start`; the drain's INACTIVE write (`DrainRound`) is `Drained` and
  `FinalReturn` is `Return`; the write phases are `Pause`, `Resume` or `Cancel`.
- *Why a strengthening is needed.* A control call writes the status on the
  strength of a read made steps before. The write is an abstract step only
  if that read is still true. `LInv` adds:
  - `PendingWrites`: a thread about to write CANCELING, PAUSED or RUNNING
    still sees the status its check required. With one thread and no
    faults nobody else writes in between; this is exactly what breaks in
    the lostCancel finding.
  - `DrivePlace`: the status and the drive thread's position agree (a live
    status means the drive thread pumps, INACTIVE in the final pump, the
    pool is held while the drive thread is in read_async and streaming is
    off when it is not).
  - the status is never FAILED.

  `LInvStep` proves it is preserved, with one case per action
  (`ClientLInv` for the control calls). `LInv` was first checked with TLC
  on the cancel and pause configurations.
- **`StatusDriven`: `Spec => []SessionDriven`** and **`StreamStopped`:
  `Spec => []StreamingStoppedOnExit`** follow from `LInv`. The runs check
  `SessionDriven` on small instances; the theorem gives it for any pool
  size. `StreamingStoppedOnExit` is proved only. In the cancel run it would
  restate `FinalReturn`'s streaming stop; the theorem also covers resume,
  whose streaming start must never land after the session ended. The
  failNoStop reference run shows it fails on the failure exits.

## Proofs (`ReceiverProofs`, checked by `tlapm`)

These theorems cover miri_sdr's own configuration: no control thread, both
cancels of the drive thread (consumer and signal), and every libusb fault.
- **`FailedStays`: `Clients = {} => (Spec => FailedIsTerminal)`.** The
  action property follows from `DInv == TypeOK /\ DrainOnCanceling`. Every
  writer of the status but the drain checks it first. The drain writes
  INACTIVE without a new read, so the invariant must say the drain runs
  only on CANCELING. That holds because nobody pumps events, and so no
  callback can write FAILED, while the drive thread is between its pumps
  (`NoPumpInDrain`).
- **`ReceiverDriven`: `Receiver => (Spec => []SessionDriven)`**, where
  `Receiver` is no control thread and an event pump that does not fail.
  Transfer and submit faults are allowed. `SInv` adds to `DInv` that the
  final pump sees INACTIVE or FAILED and that the pool is held during a
  session. A failing pump breaks the property: the loop leaves with the
  status live.
- **`ReceiverImplements`: `Receiver => (Spec => Lifecycle)`.**
  `ReceiverRefineStep` maps each step to an abstract step or a stutter,
  from `SInv`. With faults, FAILED is an abstract state the session may
  reach and leave only by returning.

## Proofs (`PauseProofs`, checked by `tlapm`)

- **`PauseIsQuiet`: `OnlyPause => (Spec => PauseQuiesces)`.** When the
  control threads only pause, a PAUSED write finds no transfer in flight,
  whatever libusb, the pump and the consumer do. The inductive invariant
  `PInv` is the conjunction of:
  - `TypeOK` and `CancelledIdle`;
  - `DrainNotLive`: the drain runs only on CANCELING or FAILED, so nothing
    writes INACTIVE while a pause is pending and read_async cannot start
    a new session under it;
  - `PausePending`: a thread past its last cancel round sees RUNNING or
    PAUSED and every transfer CANCELLED;
  - `InPause`: every control thread is in the pause call.

  A pause racing a signal cancel violates the property. The signal drains,
  read_async restarts, and the pending pause writes PAUSED over new
  transfers. This is another face of the lostCancel finding, and the reason
  for the assumption.

## Proofs (`FramerProofs`, checked by `tlapm`)

For every set of frame sizes, every chunk bound and every stream length:
- **`FramerTypeCorrect`: `Spec => []TypeOK`.**
- **`NoLoss`: `Spec => []NothingLost`.** The inductive invariant `FInv`
  is the loop invariant of lines 38-52. The slots below the cursor hold the
  stream from `mark`. Inside a call, the unconsumed chunk is `src .. fed-1`,
  and the buffered bytes end at `src`. `NothingLost` says nothing inside
  the loop, and a delivery is right only because of that last fact.
- **`InOrder`: `Spec => FramesInOrder`.** This is the action property that
  every frame is the next `outLen` positions of the stream (`LoopDelivers`).

## Proofs (`CodecProofs`, checked by `tlapm`)

- **`CodecTypeCorrect`: `Spec => []TypeOK`.** This needs `dropped <= w`:
  the wire only drops halves it has already passed.
- **`NoStaleBytes`: `S8WholeBlocks => (Spec => []DecodedFromReceived)`.**
  The 16-bit decoders take `cnt >> 10` whole blocks. Those never produce
  more than the payload received, for each output size (`WholeBlocksFit`).
  The 8-bit decoder counts a partial block too. So the theorem assumes
  that with the s8 format every call length is whole blocks.
  The s8Short run shows what happens otherwise.

Not proved, and only model-checked:
- Liveness (`CancelingEnds`), because TLAPS does not handle ENABLED and
  fairness reasoning.
- `LossIffHole`. It rests on the headers `A0 + b*N` being distinct mod
  2^32 over the blocks of a call, a fact of modular arithmetic that the SMT
  backend does not settle with the nonlinear terms involved.
- The properties in the configurations the findings show false: more
  than one control thread, resume, a pause racing a cancel, and a
  failing event pump. Only TLC runs there, and it finds the violations.

## Not modelled

- The sample bit layouts of the decoders.
- Buffer contents.
- `malloc` failures in `mirisdr_async_alloc`.
- Device register programming and USB enumeration, which are pure device
  I/O.
- The CLI's option parsing and file output.
- **A resume racing a feed.** With transfers still in flight after a stale
  pause, a resume reset of `xfer_out_pos` can race a concurrent feed. This
  needs the framer composed with `MiriAsync`. It is listed as an uncovered
  hazard.
- **The Windows console handler.** `SignalCancel` is one atomic step, as
  the POSIX handler runs on the thread it interrupts (miri_sdr.c 103-110).
  The `_WIN32` handler registered at line 275 runs on a thread of its own,
  so its read and write of the status are a second canceller; the runs
  with two control threads show what such a canceller can do.
- **A write inside read_async's set-up.** `ReadAsync` is one step from the
  INACTIVE check (374) to the RUNNING write (459). With one writer, as in
  every passing run, nothing can land in between.
- **`p->addr` is never reset by read_async.** Spec 4.1 says it is. The model
  starts each run from the zeroed device.

## Plan for later work

1. Decoder bit layouts as operators, checked against reference definitions
   of each format over small blocks.
2. Compose the framer with `MiriAsync`, for resume and feed interleavings.
3. Prove `LossIffHole`, with a lemma on the distinctness of the headers
   mod 2^32.
