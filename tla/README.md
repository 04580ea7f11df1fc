# TLA+ verification of the TDM slave driver

This directory holds a TLA+ model of the TDM slave engine in
`src/modules/i2s/src/tdm_slave.c`, with its API in `src/modules/i2s/api/tdm.h`.
It contains:

- the TLC runs that check the model on small instances;
- the TLAPS proofs of its main invariants;
- `PROJECT.json`, which lists the components, runs, mutants, the map from
  definitions to source lines, the findings and the hazards.

## 1. Inventory

### Components and their state

| Component | Source | State | Operations |
|---|---|---|---|
| Frame engine (`tdm_main_loop`) | tdm_slave.c 227-338 | `restart`, `tdm_config`, `safe_in_buffer`/`safe_out_buffer`, `tdm_interrupt_data.fsync_time`, interrupt mask | outer loop: mask, `init`, polarity/offset, priming `process` (if `num_out > 0`), `commit_buffers`, first `hold_for_frame_sync`, arm trigger, unmask, clear ports, `preload_data`. Inner loop: `hold_for_frame_sync`, `restart_check`, `process`, `commit_buffers`, `preload_data` |
| Frame interrupt (`tdm_isr`) | 169-192 | p_bclk trigger time and enable | read the trigger time, `port_in` of input line 0, `IN16` into channels 0 and 1 of `working_in_buffer`, re-arm at `now + frame_len` |
| Double buffer (`commit_buffers`, `in_s`, `out_s`) | 107-135 | `static current_buf_no`, `working_in/out_buffer`, the two buffers per direction | commit: working := buffer[cur]; flip cur; safe := buffer[cur] |
| Bit packer (`OUT16`, `IN16`, `OUT24`) | 39-89 | none (pure) | zip/unzip and bit reversal between samples and port words |
| Port set-up (`tdm_slave`, `tdm_slave_init_ports`) | 137-167, 340-372 | ports and clock block | assert the limits, reset/enable the ports, compute `frame_len`, enter the loop |
| Callback contract | tdm.h 90-206 | application data | `init`, `restart_check` (returns NoRestart, Restart or Shutdown), `process` |
| Test application | src/test/.../tdm_slave_tx16_test.c | `cnt`, `test_data`, `rx_data` | fill 16x16-bit frames; exit at frame 5; exit if `init` is called twice |
| Master variants | tdm.h 208-299 | — | only declared; no implementation in the repository |

### How the components interact

The main loop and the interrupt run on one hardware thread. The interrupt
preempts the main loop wherever interrupts are unmasked. That is everywhere
except from `interrupt_mask_all` (line 258) to `interrupt_unmask_all`
(line 303).

The two share:
- `tdm_interrupt_data.working_in_buffer`, written by `commit_buffers` and
  used by the interrupt;
- the two input buffers of `in_s`.

The application callbacks run on the main loop's thread. `process` runs
while the frame interrupt may fire. The bus master drives frame sync and the
bit clock. The main loop blocks only in `hold_for_frame_sync`.

### What is hard

- **Which of `tdm_isr` and `commit_buffers` runs first in a frame.** This
  depends on how long `process` runs relative to `offset + 32` bit clocks.
  The commit in the inner loop is not masked.
- **The restart and shutdown protocol:** the `restart` local, masking during
  reconfiguration, a trigger left armed from the previous run, and exit with
  the trigger still armed.
- **The static `current_buf_no`.** It must agree with the locals
  `safe_*_buffer` and `working_*_buffer`. Those are re-initialised on each
  call of `tdm_slave`, but the static is not.
- **Timing arithmetic** on 16-bit port timestamps, and the level-triggered
  wait for frame sync.
- **Bit-exact packing** (zip/unzip + bitrev).

### Properties that make each component correct

- Engine:
  - after a restart it returns to running frames (`RestartResumesFrames`);
  - after shutdown there is no further activity (`ExitDisarms`);
  - buffers do not carry data across a restart (`NoStaleDelivery`).
- Double buffer plus interrupt:
  - `process` gets the capture of the previous frame (`FreshDelivery`);
  - the word transmitted is the one `process` last wrote
    (`TransmitsLatestOutput`);
  - the selector agrees with the pointers (`OutputIInv`).
- Interrupt: it re-arms exactly one frame later (`TypeOK`, through the
  trigger states). At bit-clock level its trigger stays `offset + 32` bit
  clocks into a frame (`CaptureAligned`), and the frame-level behaviour is
  what the bit-level timing produces (`TimingRefinesFrames`).
- Output timing: the word `preload_data` queues goes out at the next sync
  edge plus the offset (`OutputAligned`).
- Bit packer: the wire carries each slot MSB first (`WireOrder`), and IN16
  recovers the low 16 bits of what OUT16 sent (`LoopbackIntact`).

## 2. Modules

### `TdmSlave.tla`: the engine, the interrupt and the double buffer

**State:**
- `pc`: where `tdm_main_loop` is;
- `restart`;
- `current_buf_no` (the static);
- `working_buf` and `safe_buf`: buffer indices. The in and out pointers
  always carry the same index, so one variable each;
- `in_s`: per input buffer, the age in frames of the capture held in
  channels 0 and 1, and whether it was captured before the current
  configuration;
- `masked`;
- `trigger`: Off, NextFrame, ThisFrame or Missed. This is the p_bclk time
  trigger, counted in frames;
- ghosts: `last_out`, `first_frame`, `received`, `restarts`, `sessions`.

**Actions:**

| Action | Code |
|---|---|
| `tdm_slave` (with `tdm_slave_init_ports`, `MainLoopEntry`) | a call of the job |
| `Configure` | lines 256-289, one step because interrupts are masked |
| `FirstSync` | lines 290-319 and the loop tests |
| `NextFrameSync` | line 323 |
| `restart_check` | line 324 |
| `process` | lines 325-331 |
| `CommitWorking` | lines 130-132 |
| `CommitSafe` | lines 133-134 |
| `preload_data` | line 335 and the loop tests at lines 321 and 256 |
| `tdm_isr` | lines 169-192 |
| `FsyncEdge` | the bus, when the main loop is not waiting |

`commit_buffers` is two actions because the interrupt can preempt it
between them.

**Abstractions:**
- **Time.** A frame is the interval between two frame-sync edges. The
  interrupt of a frame fires once, at any point after the edge and before
  the next one, unless interrupts are masked. Under the callback contract
  the main loop is back in `hold_for_frame_sync` before the next edge.
- **Sample values.** They are left out. A buffer is told apart by which
  frame it captured.
- **Configuration values** (polarity and offset) are left out. They only
  move bit-clock timing, which the frame abstraction does not see.

**Constants:**
- `NumOut` and `NumIn`, with `PortsAssumption` mirroring the `xassert`s;
- `AgeCap`: ages saturate, so 3 means "3 or more";
- `MaxRestarts` and `MaxSessions`: named bounds on the nondeterministic
  callback answers and on repeated calls;
- `IsrBeforeCommit`: when TRUE, `process` returns only after the frame's
  interrupt has fired. This is the timing the design intends: the interrupt
  preempts `process`.

**Fairness (`FairSpec`):**
- weak fairness of the main loop: it owns its hardware thread;
- weak fairness of the interrupt: an armed, unmasked trigger fires;
- weak fairness of the bus edges: the master keeps clocking.

### `MC_TdmSlave.tla`

Gives `MaxPorts = 4` (TDM_MAX_PORTS) and `AgeCap = 3`. The cfgs give the
rest. One input and one output line is the configuration of the repository's
test.

### `TdmSlaveProofs.tla`: TLAPS proofs (see section 4)

### `BitPacker.tla`: the 16-bit data path

One frame's data, from the output buffer through the pins back into the
input buffer.

**State:**
- `phase`: which step comes next (process, preload, capture);
- `tx[l][c]`: channel c of output line l of the working output buffer;
- `wire[l]`: the 32 bits on output line l, in time order;
- `rx[l][c]`: channel c of input line l of the working input buffer.

A machine word is a function from bit index (0 = LSB) to bit. The xcore
instructions are the permutations they perform:
- `zip d, e, 4` interleaves the 16-bit chunks of the pair d:e;
- `unzip` undoes that;
- `bitrev` reverses the word.
`OUT16` and `IN16` are the two macros. They return the pair of registers
after the asm block.

**Actions:** `process` (any words of `TestWords` in every channel);
`preload_data` (OUT16 of channels 0 and 1 on every output line, then
`port_out_at_time`); `tdm_isr` (`port_in` on line 0, IN16 into channels 0
and 1, then `break`).

**Hardware assumptions:**
- a buffered 32-bit port shifts bit 0 first (`PortOut`, `PortIn`);
- output line l is wired to input line l (the loopback scenario, spec
  section 8).

**Why one-hot words are enough.** Every operation is a bit permutation or
a zero fill, so each output bit is one input bit or 0. Checking the zero
word and all 32 one-hot words in every channel therefore shows where every
bit goes, and so covers all 2^32 words. `BitPackerProofs` proves the same
properties for all words directly.

`OUT24` is not modelled: it is used nowhere, and its asm lists `Z` as an
output operand without `+` or `=`, so it would not compile if used.

### `TdmTiming.tla`: the engine in bit-clock time

**State:** TdmSlave's variables except `trigger`, `restarts` and
`sessions`, plus:
- `pos`: the bus master's position in the frame;
- `timer`: the port counter of p_bclk, `TimerBits` wide, wrapping;
- `armed`, `isr_time`: the trigger of `tdm_isr`;
- `fsync_time`, `out_time`: the frame-sync timestamp and the time of the
  last `port_out_at_time`;
- `elapsed`: bit clocks since `hold_for_frame_sync` last returned, capped at
  `MinLoopBits`.

**Actions:**
- Time-dependent steps are written here:
  - `Tick`: one bit clock of the bus;
  - `HoldReturns`: `hold_for_frame_sync` returns at the sync edge, or at
    once if `p_fsync` is still high (it waits for a level), used by
    `FirstSync` and `NextFrameSync`;
  - `FirstSync`: sets the trigger to
    `fsync_time + frame_len + offset + 32`;
  - `preload_data`: queues output for `fsync_time + frame_len + offset`;
  - `tdm_isr`: fires when the counter equals the trigger time and re-arms
    `frame_len` later.
- The other steps are TdmSlave's own actions, taken through the instance
  `T`.

**Constants:** `FrameLen`, `Offset`, `FsyncWidth` (width of the sync
pulse), `MinLoopBits` (shortest pass of the main loop between two waits),
`TimerBits`, `TimerStarts` (the counter values at the sync edge of the
frame the run starts in; `Init` sets `timer` to one of them plus `pos`).
`TimingAssumption` requires `FrameLen + Offset + 32 < 2^TimerBits`, so a
trigger time is never a whole counter period ahead. `FrameAssumption`
restates TdmSlave's assumptions on the shared constants.

**Refinement.** `T == INSTANCE TdmSlave WITH trigger <- TrigOf, ...` maps
the trigger time to TdmSlave's frame-level trigger. The mapping counts how
many frame edges lie between now and the trigger time: Off, ThisFrame,
NextFrame, or more. The guards of that `CASE` are disjoint. An earlier
form had overlapping guards, which makes a TLA+ `CASE` nondeterministic;
TLC takes the first true guard and so never showed the overlap. `restarts` and `sessions` map to the values of one call
with no restart (`MaxRestarts = 0`). `TimingRefinesFrames == T!Spec` says
every bit-level behaviour is a behaviour of the frame engine.
`FairTimingRefinesFrames == T!FairSpec` says that, with the bus clocking,
the frame engine's fairness holds too.

**Fairness (`FairSpec`):** weak fairness of `Tick` (the master keeps
clocking), of the main loop (it owns its thread) and of `tdm_isr` (a due,
unmasked trigger fires).

**Why the bounds are enough.**
- The counter is 7 bits wide instead of 16. It wraps every 2-3 frames,
  and 128 is not a multiple of 48, so the sync timestamp takes many
  different residues.
- `FrameLen = 48` is three 16-bit channels.
- `Offset = 1` makes the offset visible in every timestamp.
- The behaviour depends on the counter only through its value at the
  frame's sync edge, because every time the code computes is relative to a
  returned timestamp. So `Init` starts the counter at `TimerStarts`
  (0 and 5) plus `pos`, rather than at every counter value. The wrap still
  happens in every run, at a different frame for each start.

## 3. Runs

| Run | Expect | Shows |
|---|---|---|
| `core` | pass | `TypeOK`, `FreshDelivery`, `TransmitsLatestOutput` and `OutputIInv` hold for one call with up to one restart when `process` outlasts the interrupt. |
| `short_process` | violation | `FreshDelivery` fails when `process` returns before the interrupt, which `tdm.h` allows. The capture lands in the buffer just made working, so the safe buffer the next `process` call reads holds no capture of the previous frame. This is the same whether the interrupt comes before the commit or inside its unmasked window (lines 130-133), where both pointers name one buffer. |
| `restart_stalls` | violation | `RestartResumesFrames` (liveness, under `FairSpec`) fails. `restart` is never reset, so after one restart the outer loop repeats `init` every frame and `restart_check` is never called again. |
| `exit_armed` | violation | `ExitDisarms` fails. After shutdown the trigger is still armed, and `tdm_isr` fires on the dead stack frame of `tdm_main_loop`. |
| `second_call` | violation | `TransmitsLatestOutput` fails in a second call of `tdm_slave`. The static selector is out of step with the fresh locals, so the first frame sends the unfilled buffer. |
| `restart_stale` | violation | `NoStaleDelivery` fails. The priming `process` call after a restart reads a capture made before the restart. |

| `packer` | pass | `WireOrder` and `LoopbackIntact` for one line and two channels, over the zero word and all one-hot words (630,531 states). |
| `packer_lines` | violation | `LoopbackIntact` fails with two lines: line 1 is never captured, because of the `break` at line 187. |
| `packer_chans` | violation | `LoopbackIntact` fails with four channels: channels 2 and 3 are never sent or received. |
| `timing` | pass | Under `FairSpec`: `TypeOK`, `OutputAligned`, `CaptureAligned`, their inductive strengthenings `OutputIInv` and `CaptureIInv`, and `FairTimingRefinesFrames` for a 48-bit frame, offset 1, a 1-bit sync pulse and a wrapping counter (192,768 states, about 20 seconds). `TypeOK` includes the frame engine's `T!TypeOK`, so a trigger re-armed more than a frame ahead (say at `now + 2 * frame_len`) breaks it. The refinement includes the frame engine's fairness, so the fairness `TdmSlave` assumes follows from a clocking bus. |
| `timing_fsync_level` | violation | `TimingRefinesFrames` (under `Spec`) fails with a sync pulse 4 bit clocks wide. The trace shows `hold_for_frame_sync` returning a second time in the same frame, before the next sync edge, which starts another pass of the frame loop. |
| `timing_short_frame` | violation | `TimingRefinesFrames` fails for `frame_len = 32` and offset 0. The first trigger is set two sync edges ahead, so the first capture belongs to a frame the loop has already committed. |

**Why the bounds are enough.** Every buffer-level behaviour repeats with
period 2 frames, because the buffer selector has two values. The properties
compare ages 0, 1 and 2 or more, so `AgeCap = 3` distinguishes every case.
One restart and two sessions are enough for the restart and re-entry paths,
since each later one starts from the same abstract states. The `core` run
reaches 232 distinct states and fires every action.

## 4. Proofs (`TdmSlaveProofs.tla`, checked by tlapm)

- `TypeCorrect`: `Spec => []TypeOK` for all constants satisfying
  `PortsAssumption` and `BoundsAssumption`. It rests on the lemmas
  `InitType` and `TypeInductive`, and on the helper lemmas `AgedType` and
  `TriggerAfterEdgeType`.
- `OutputPath`: assuming `MaxSessions = 1`,
  `Spec => []TransmitsLatestOutput` for any line counts, any number of
  restarts and any interrupt timing.
  - `TransmitsLatestOutput` is not inductive by itself. The strengthening is
    `OutputIInv`, which TLC checks in the `core` run.
  - `OutputIInv` adds `CallShape`: `pc = "idle"` exactly before the first
    call, and `current_buf_no = 0` there.
  - It adds `SelectorAgrees`: `safe_buf = current_buf_no` and
    `working_buf = 1 - current_buf_no`, except inside `commit_buffers`,
    where both pointers name `1 - current_buf_no`.
  - It adds `LastOutTracked`: where `last_out` is at the commit and preload
    points.
  - The step lemma `OutputStep` has one case per action. Only `tdm_slave`,
    `Configure` and `CommitWorking` need arithmetic on the selector. The
    hypothesis `MaxSessions = 1` is essential: `second_call` shows the
    statement is false for a second call.
- `OutputIInvHolds`: `Spec => []OutputIInv` under the same hypothesis. This
  is the strengthening itself, which the `core` run checks.
- `FreshDeliveryHolds`: assuming `IsrBeforeCommit`,
  `Spec => []FreshDelivery` for any number of calls, restarts and lines.
  - The strengthening is `FreshIInv` (in TdmSlave). It adds three parts:
    - `LoopSelectors`: where the two pointers stand relative to
      `current_buf_no` at each point of the loop;
    - `TriggerInLoop`: the trigger is `NextFrame` from `hold` to
      `preload`, and `ThisFrame` or `NextFrame` at `check` and `process`;
    - `CaptureFollowed`: the age of the capture in the working, safe or
      just-committed buffer at each point of the loop. It is 0 once this
      frame's interrupt has fired, and 1 in the safe buffer at `process`.
  - The step lemma `FreshStep` has one case per action. `tdm_isr` splits
    on `NumIn > 0`. The hypothesis is essential: `short_process` shows
    the statement is false when `process` returns before the interrupt.
  - `FreshIInv` was checked by TLC on 12 instances: one or two sessions,
    zero to two restarts, and (NumOut, NumIn) in {(1,1), (0,2), (2,0)}. It is
    not an invariant of the `core` run, because it implies
    `FreshDelivery`. A mutant that breaks `FreshDelivery` would break
    `FreshIInv` first, so TLC would report the wrong property.

## 4b. Proofs (`BitPackerProofs.tla`)

- `TypeCorrect`: `Spec => []TypeOK` for every line count, channel count and
  set of sample words allowed by `LinesAssumption` and `ChansAssumption`.
- `WireOrderHolds`: `Spec => []WireOrder`. It rests on `Out16Wire`: for
  all words a and b, `PortOut(OUT16(a, b)[2]) = SlotLayout(a, b)`. That is
  the bit-index arithmetic of zip and bitrev, checked by SMT for each bit.
- `LoopbackHolds`: for one line and two channels,
  `Spec => []LoopbackIntact`. It rests on `In16Slots`: IN16 of a zero word
  and the received transfer gives back the low 16 bits of a and b.
- No strengthening is needed beyond `TypeOK` (and `WireOrder` for the
  loopback step): at the capture, the wire holds the slot layout of `tx`.

## 4c. Proofs (`TdmTimingProofs.tla`)

All four theorems assume `FsyncWidth = 1`. With a wider pulse `OutputAligned` and
`CaptureAligned` are false, as the `timing_fsync_level` finding shows. `TimingAssumption`
states `Mod = 2^TimerBits` as a positive natural number, because the
provers cannot do induction on the exponent.

- `OutputAlignedHolds`: `Spec => []OutputAligned` for every frame length,
  offset and counter width.
  - The strengthening is `OutputIInv` (in TdmTiming, checked by the
    `timing` run). Its main conjunct is `FsyncAnchored`: between the sync
    edge and `preload_data`, `fsync_time = (timer - pos) % Mod`. The
    timestamp is the counter value at the start of the frame.
  - A bit clock moves `timer` and `pos` together, and the loop cannot be
    outside `hold` at the end of a frame. So the relation survives every
    tick, and `preload_data` turns it into `OutputAligned`.
- `OutputIInvHolds` and `CaptureIInvHolds` state the two strengthenings
  themselves as `Spec => []OutputIInv` and `Spec => []CaptureIInv`. The
  `timing` run checks both.
- `CaptureAlignedHolds`: `Spec => []CaptureAligned`.
  - The strengthening is `CaptureIInv`, also checked by `timing`. Its
    conjunct `ArmedShape` says:
    - there is no armed trigger before the first sync;
    - an armed trigger is never masked;
    - within one call there is no restart.
  - So the counter never passes an armed trigger time without `tdm_isr`
    firing.
  - The lemmas `AheadTick`, `AheadIsr` and `AheadArm` say how the
    distance to the trigger moves: a tick lowers it by one (or by a frame
    at the wrap of `pos`), a re-arm adds `frame_len`, and `FirstSync` sets
    it to `frame_len + offset + 32`.
- These rest on modular-arithmetic lemmas (`ModUnique`, `ModSub`,
  `ModShift`, `CountDown`), proved from the division identity.

## 4d. Proofs (`TdmTimingRefinement.tla`)

Both theorems assume `FsyncWidth = 1` and `CapturePoint < FrameLen`,
where `CapturePoint == Offset + 32`. The runs `timing_fsync_level` and
`timing_short_frame` show that each hypothesis is needed.

- `TimingRefinement`: `Spec => TimingRefinesFrames`. Every behaviour of
  the bit-clock engine is a behaviour of the frame engine `TdmSlave` under
  the mapping `TrigOf`. This holds for every frame length, offset, counter
  width and line count.
- `TimingTypeCorrect`: `Spec => []TypeOK`. This includes `T!TypeOK`: the
  mapped trigger is never `Later`, so it is never more than one frame
  ahead.
- The inductive invariant is `RefineIInv`, which TLC checked on four
  (frame length, offset) pairs: 48/1, 48/15, 40/7 and 34/1. It combines:
  - `TypeOK`;
  - `CaptureIInv`;
  - `NoCaptureYet`: before the first sync, no buffer holds a capture, so
    the aging a sync edge implies in `T` changes nothing;
  - `ElapsedInFrame`: inside the loop, the bit clocks since the last wait
    returned are at most `pos`, so the next wait cannot return without an
    edge.
- The lemma `Phase` shows that an armed trigger is `CapturePoint` or
  `FrameLen + CapturePoint` bit clocks ahead of the frame start.
- The step lemma `RefineStep` maps each step:
  - a tick at the frame end maps to `T!FsyncEdge` (`EdgeMovesTrigger`);
  - any other tick is a stutter (`TickKeepsTrigger`);
  - `FirstSync`, `NextFrameSync` and `tdm_isr` map to their `T` actions;
  - every other action is a `T` action already.
- `RestStep` keeps the remaining conjuncts, and `RefineInductive` combines
  it with `CaptureStep` and `TTypeInductive`.
- Like `FreshIInv`, `RefineIInv` is not in a run's cfg, since it implies
  the listed properties.

**Only model-checked:**
- `FairTimingRefinesFrames`, the refinement with the frame engine's
  fairness. It is a liveness property;
- the liveness property `RestartResumesFrames`. TLAPS does not do liveness
  under fairness, or `ENABLED`, here;
- the properties of the violation runs, and all properties at
  `MaxSessions > 1` or `FsyncWidth > 1`.

## 5. Not modelled

- The port/clock hardware beyond the bit clock, the sync pulse, the p_bclk
  counter and trigger, and the output time: clock-block set-up, polarity
  and the input ports' trigger times.
- The master variants, which have no source.
- `OUT24` (see BitPacker above).
- The test application. It is in the plan below.

## 6. Plan

Order of work, most important behaviour first:

1. (done) `TdmSlave`: the main loop, the interrupt, the double buffer and
   restart/shutdown, with the runs above and the proofs of `TypeOK` and
   `TransmitsLatestOutput`.
2. (done) `BitPacker.tla` with its proofs.
3. (done) `TdmTiming.tla`, refining `TdmSlave`, with the findings on the
   level-triggered wait and on short frames.
4. (done) Proofs of `FreshDelivery` under `IsrBeforeCommit` and of the
   refinement `TimingRefinesFrames`.
5. `TdmSlaveTest.tla`: `TdmSlave` composed with the test's callbacks.
   Properties: the test's frame count, and its "restart means fsync error"
   exit.
6. Two engine instances on one tile, sharing the static `current_buf_no`.
