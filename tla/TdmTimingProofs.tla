-------------------------- MODULE TdmTimingProofs ---------------------------
(***************************************************************************)
(* Proofs about the bit-clock model TdmTiming.tla, for every frame length, *)
(* offset and counter width that satisfy TimingAssumption.                 *)
(***************************************************************************)
EXTENDS TdmTiming, TLAPS


(* Subtracting after a reduction modulo Mod is the same as subtracting    *)
(* before it: the wrap of port_timestamp_t loses nothing.                  *)
(* The remainder is the unique s in 0..M-1 with y = c * M + s.           *)
LEMMA ModUnique == ASSUME NEW M \in Nat \ {0}, NEW y \in Int, NEW c \in Int,
                          NEW s \in 0..M - 1, y = c * M + s
                   PROVE  y % M = s
BY SMT

LEMMA ModSub == ASSUME NEW M \in Nat \ {0}, NEW a \in Int, NEW k \in Int
                PROVE  ((a % M) - k) % M = (a - k) % M
<1> DEFINE r == a % M
           q == a \div M
           s == (r - k) % M
           p == (r - k) \div M
<1>1. a = q * M + r /\ r \in Int /\ q \in Int
  BY SMT
<1>2. r - k = p * M + s /\ s \in 0..M - 1 /\ p \in Int
  BY <1>1, SMT
<1>3. a - k = (q + p) * M + s
  BY <1>1, <1>2, SMT
<1>4. (a - k) % M = s
  <2>1. a - k \in Int /\ q + p \in Int
    BY <1>1, <1>2
  <2>2. QED
    BY <1>2, <1>3, <2>1, ModUnique
<1>5. QED
  BY <1>4

LEMMA ModSmall == ASSUME NEW M \in Nat \ {0}, NEW x \in 0..M - 1
                  PROVE  x % M = x
<1>1. x = 0 * M + x
  OBVIOUS
<1>2. QED
  BY <1>1, ModUnique

(* The same for a stamp named by a primed variable, which SMT does not   *)
(* type: the lemma is instantiated by Zenon.                              *)
LEMMA StampAnchor == ASSUME NEW M \in Nat \ {0}, NEW x \in 0..M - 1
                     PROVE  (x - 0) % M = x
<1>1. x - 0 = x
  OBVIOUS
<1>2. QED
  BY <1>1, ModSmall

LEMMA ModAdd == ASSUME NEW M \in Nat \ {0}, NEW a \in Int, NEW k \in Int
                PROVE  ((a % M) + k) % M = (a + k) % M
<1>0. -k \in Int
  OBVIOUS
<1>1. ((a % M) - (-k)) % M = (a - (-k)) % M
  BY <1>0, ModSub
<1>2. QED
  BY <1>1

-----------------------------------------------------------------------------
(***************************************************************************)
(* OutputAligned, through its inductive strengthening OutputIInv of       *)
(* TdmTiming.tla.                                                          *)
(***************************************************************************)
(* Every time the code computes is a port timestamp.                      *)
LEMMA LaterStamp == ASSUME NEW t \in Int, NEW n \in Int PROVE Later(t, n) \in Stamps
BY TimingAssumption DEF Later, Stamps

(* The run starts at some position in a frame, with the counter at a     *)
(* timestamp.                                                              *)
LEMMA InitStamps == Init => pos \in 0..FrameLen - 1 /\ timer \in Stamps
<1> SUFFICES ASSUME Init PROVE pos \in 0..FrameLen - 1 /\ timer \in Stamps
  OBVIOUS
<1>1. PICK s \in TimerStarts : timer = Later(s, pos)
  BY DEF Init
<1>2. s \in Int /\ pos \in 0..FrameLen - 1
  BY TimingAssumption DEF Init, Stamps
<1>3. QED
  BY <1>1, <1>2, LaterStamp

LEMMA OutputInit == Init => OutputIInv
<1> SUFFICES ASSUME Init PROVE OutputIInv
  OBVIOUS
<1>1. pc = "idle" /\ fsync_time = 0
  BY DEF Init, T!Init
<1>2. QED
  BY <1>1, InitStamps, TimingAssumption DEF OutputIInv, FsyncAnchored, OutputAligned,
                                           LoopPcs, Stamps

(* With a one-bit-clock sync pulse, every step keeps OutputIInv.          *)
LEMMA OutputStep == ASSUME FsyncWidth = 1
                    PROVE  OutputIInv /\ [Next]_vars => OutputIInv'
<1> SUFFICES ASSUME OutputIInv, [Next]_vars PROVE OutputIInv'
  OBVIOUS
<1>0. /\ Mod \in Nat \ {0} /\ FrameLen \in Nat \ {0} /\ Offset \in Nat
      /\ pos \in 0..FrameLen - 1 /\ timer \in Stamps /\ fsync_time \in Stamps
  BY TimingAssumption DEF OutputIInv
<1>1. CASE Tick
  <2>1. /\ pos' = (pos + 1) % FrameLen /\ timer' = (timer + 1) % Mod
        /\ UNCHANGED <<pc, fsync_time, out_time>>
    BY <1>1 DEF Tick, Later
  <2>2. pos' \in 0..FrameLen - 1 /\ timer' \in Stamps /\ fsync_time' \in Stamps
    BY <1>0, <2>1 DEF Stamps
  <2>3. CASE pc \in LoopPcs \cup {"hold"}
    <3>1. pos' = pos + 1
      <4>1. pos # FrameLen - 1
        BY <1>1, <2>3 DEF Tick, LoopPcs
      <4>2. QED
        BY <1>0, <2>1, <4>1
    <3>2. FsyncAnchored'
      <4>1. SUFFICES ASSUME pc \in LoopPcs PROVE fsync_time = (timer' - pos') % Mod
        BY <2>1 DEF FsyncAnchored
      <4>2. fsync_time = (timer - pos) % Mod
        BY <4>1 DEF OutputIInv, FsyncAnchored
      <4>3. (((timer + 1) % Mod) - (pos + 1)) % Mod = ((timer + 1) - (pos + 1)) % Mod
        <5>1. timer + 1 \in Int /\ pos + 1 \in Int
          BY <1>0 DEF Stamps
        <5>2. QED
          BY <1>0, <5>1, ModSub
      <4>4. QED
        BY <1>0, <2>1, <3>1, <4>2, <4>3 DEF Stamps
    <3>3. OutputAligned'
      <4>1. SUFFICES ASSUME pc = "hold", NumOut > 0
                     PROVE  out_time = Later(timer', FrameLen - pos' + Offset)
        BY <2>1 DEF OutputAligned
      <4>2. out_time = Later(timer, FrameLen - pos + Offset)
        BY <4>1 DEF OutputIInv, OutputAligned
      <4>3. (((timer + 1) % Mod) + (FrameLen - (pos + 1) + Offset)) % Mod
              = (timer + 1 + (FrameLen - (pos + 1) + Offset)) % Mod
        <5>1. timer + 1 \in Int /\ FrameLen - (pos + 1) + Offset \in Int
          BY <1>0 DEF Stamps
        <5>2. QED
          BY <1>0, <5>1, ModAdd
      <4>4. QED
        BY <1>0, <2>1, <3>1, <4>2, <4>3 DEF Later, Stamps
    <3>4. QED
      BY <2>2, <3>2, <3>3 DEF OutputIInv
  <2>4. CASE pc \notin LoopPcs \cup {"hold"}
    BY <2>1, <2>2, <2>4 DEF OutputIInv, FsyncAnchored, OutputAligned
  <2>5. QED
    BY <2>3, <2>4
<1>2. CASE tdm_slave
  BY <1>2 DEF tdm_slave, OutputIInv, FsyncAnchored, OutputAligned, LoopPcs
<1>3. CASE Configure
  BY <1>3 DEF Configure, T!Configure, timing, OutputIInv, FsyncAnchored,
              OutputAligned, LoopPcs
<1>4. CASE FirstSync
  <2>1. /\ pos' = 0 /\ timer' \in Stamps /\ fsync_time' = timer'
        /\ pc' \in {"hold", "configure"}
        /\ NumOut > 0 => out_time' = Later(timer', FrameLen + Offset)
    BY <1>0, <1>4 DEF FirstSync, HoldReturns, FsyncHigh, Later, Stamps
  <2>2. pos' \in 0..FrameLen - 1 /\ fsync_time' \in Stamps
    BY <1>0, <2>1
  <2>3. FsyncAnchored'
    BY <2>1 DEF FsyncAnchored, LoopPcs
  <2>4. OutputAligned'
    <3>1. FrameLen - pos' + Offset = FrameLen + Offset
      BY <1>0, <2>1
    <3>2. QED
      BY <2>1, <3>1 DEF OutputAligned
  <2>5. QED
    BY <2>1, <2>2, <2>3, <2>4 DEF OutputIInv
<1>5. CASE NextFrameSync
  <2>1. /\ pos' = 0 /\ timer' \in Stamps /\ fsync_time' = timer'
        /\ pc' = "check"
    BY <1>0, <1>5 DEF NextFrameSync, HoldReturns, FsyncHigh, Later, Stamps
  <2>2. (timer' - 0) % Mod = timer'
    <3>1. timer' \in 0..Mod - 1
      BY <2>1 DEF Stamps
    <3>2. QED
      BY <1>0, <3>1, StampAnchor, Zenon
  <2>3. pos' \in 0..FrameLen - 1 /\ fsync_time' \in Stamps
    BY <1>0, <2>1
  <2>4. FsyncAnchored'
    BY <2>1, <2>2 DEF FsyncAnchored
  <2>5. OutputAligned'
    BY <2>1 DEF OutputAligned
  <2>6. QED
    BY <2>1, <2>3, <2>4, <2>5 DEF OutputIInv
<1>6. CASE restart_check \/ process \/ CommitWorking \/ CommitSafe
  <2>1. pc \in LoopPcs /\ pc' \in LoopPcs /\ UNCHANGED timing
    BY <1>6 DEF restart_check, process, CommitWorking, CommitSafe,
                T!restart_check, T!process, T!CommitWorking, T!CommitSafe, LoopPcs
  <2>2. QED
    BY <2>1 DEF timing, OutputIInv, FsyncAnchored, OutputAligned, LoopPcs
<1>7. CASE preload_data
  <2>1. /\ pc = "preload" /\ pc' \in {"hold", "configure", "done"}
        /\ NumOut > 0 => out_time' = Later(fsync_time, FrameLen + Offset)
        /\ UNCHANGED <<pos, timer, fsync_time>>
    BY <1>7 DEF preload_data, T!preload_data
  <2>2. fsync_time = (timer - pos) % Mod
    BY <2>1 DEF OutputIInv, FsyncAnchored, LoopPcs
  <2>3. (((timer - pos) % Mod) + (FrameLen + Offset)) % Mod
          = (timer - pos + (FrameLen + Offset)) % Mod
    <3>1. timer - pos \in Int /\ FrameLen + Offset \in Int
      BY <1>0 DEF Stamps
    <3>2. QED
      BY <1>0, <3>1, ModAdd
  <2>4. OutputAligned'
    BY <1>0, <2>1, <2>2, <2>3 DEF OutputAligned, Later, Stamps
  <2>5. QED
    BY <1>0, <2>1, <2>4 DEF OutputIInv, FsyncAnchored, LoopPcs
<1>8. CASE tdm_isr
  BY <1>8 DEF tdm_isr, OutputIInv, FsyncAnchored, OutputAligned
<1>9. CASE UNCHANGED vars
  BY <1>9 DEF vars, data, timing, OutputIInv, FsyncAnchored, OutputAligned
<1>10. QED
  BY <1>1, <1>2, <1>3, <1>4, <1>5, <1>6, <1>7, <1>8, <1>9 DEF Next

(* Spec section 8, offset: for every frame length, offset and counter     *)
(* width, with a frame-sync pulse of one bit clock, the word preload_data *)
(* queues goes out offset bit clocks after the next frame-sync edge, the  *)
(* 16-bit wrap of port_timestamp_t included.                               *)
THEOREM OutputAlignedHolds == ASSUME FsyncWidth = 1
                              PROVE  Spec => []OutputAligned
<1>1. OutputIInv => OutputAligned
  BY DEF OutputIInv
<1>2. QED
  BY <1>1, OutputInit, OutputStep, PTL DEF Spec

(* The strengthening itself: while the frame loop runs, the timestamp     *)
(* hold_for_frame_sync returned is the counter value at the start of the  *)
(* current frame, whatever the counter width and wherever it wraps.       *)
THEOREM OutputIInvHolds == ASSUME FsyncWidth = 1
                           PROVE  Spec => []OutputIInv
BY OutputInit, OutputStep, PTL DEF Spec

-----------------------------------------------------------------------------
(***************************************************************************)
(* CaptureAligned, through its inductive strengthening CaptureIInv of     *)
(* TdmTiming.tla. Ahead(p, i, t) is TriggerAhead at position p, trigger   *)
(* time i and counter t; the lemmas below say how it moves when the       *)
(* counter ticks, when tdm_isr re-arms and when FirstSync arms.           *)
(***************************************************************************)
Ahead(p, i, t) == p + ((i - t) % Mod)

(* Adding whole periods does not change a remainder.                      *)
LEMMA ModShift == ASSUME NEW M \in Nat \ {0}, NEW x \in Int, NEW c \in Int
                  PROVE  (x + c * M) % M = x % M
<1> DEFINE s == x % M
           p == x \div M
<1>1. x = p * M + s /\ s \in 0..M - 1 /\ p \in Int
  BY SMT
<1>2. x + c * M = (p + c) * M + s /\ x + c * M \in Int /\ p + c \in Int
  BY <1>1, SMT
<1>3. QED
  BY <1>1, <1>2, ModUnique

(* The position in the frame after one bit clock.                         *)
LEMMA WrapPos == ASSUME NEW p \in 0..FrameLen - 1
                 PROVE  (p + 1) % FrameLen = IF p = FrameLen - 1 THEN 0 ELSE p + 1
<1>1. FrameLen \in Nat \ {0}
  BY TimingAssumption
<1>2. CASE p = FrameLen - 1
  <2>1. p + 1 = 0 + 1 * FrameLen
    BY <1>1, <1>2
  <2>2. (0 + 1 * FrameLen) % FrameLen = 0 % FrameLen
    BY <1>1, ModShift
  <2>3. 0 % FrameLen = 0
    BY <1>1, ModSmall
  <2>4. QED
    BY <1>2, <2>1, <2>2, <2>3
<1>3. CASE p # FrameLen - 1
  <2>1. p + 1 \in 0..FrameLen - 1
    BY <1>1, <1>3
  <2>2. QED
    BY <1>1, <1>3, <2>1, ModSmall
<1>4. QED
  BY <1>2, <1>3

(* A counter that is not at the trigger time moves one bit clock closer  *)
(* to it: the distance to the trigger time goes down by one.              *)
LEMMA CountDown == ASSUME NEW M \in Nat \ {0}, NEW i \in 0..M - 1,
                          NEW t \in 0..M - 1, i # t
                   PROVE  /\ (i - t) % M \in 1..M - 1
                          /\ (i - ((t + 1) % M)) % M = ((i - t) % M) - 1
<1> DEFINE d == (i - t) % M
           c == (i - t) \div M
<1>1. i - t = c * M + d /\ d \in 0..M - 1 /\ c \in Int
  BY SMT
<1>2. d # 0
  <2>1. CASE i > t
    <3>1. i - t \in 0..M - 1
      BY <2>1
    <3>2. d = i - t
      BY <3>1, ModSmall
    <3>3. QED
      BY <2>1, <3>2
  <2>2. CASE i < t
    <3>1. i - t = (-1) * M + (i - t + M) /\ i - t + M \in 0..M - 1
      BY <2>2
    <3>2. d = i - t + M
      BY <3>1, ModUnique
    <3>3. QED
      BY <2>2, <3>2
  <2>3. QED
    BY <2>1, <2>2
<1>3. (t + 1) % M = (t + 1) - (IF t = M - 1 THEN 1 ELSE 0) * M
  <2>1. CASE t = M - 1
    <3>1. t + 1 = 0 + 1 * M
      BY <2>1
    <3>2. (0 + 1 * M) % M = 0 % M /\ 0 % M = 0
      BY ModShift, ModSmall
    <3>3. QED
      BY <2>1, <3>1, <3>2
  <2>2. CASE t # M - 1
    <3>1. t + 1 \in 0..M - 1
      BY <2>2
    <3>2. QED
      BY <2>2, <3>1, ModSmall
  <2>3. QED
    BY <2>1, <2>2
<1>4. d - 1 \in 0..M - 1
  BY <1>1, <1>2
<1>6. (i - ((t + 1) % M)) % M = d - 1
  <2>1. CASE t = M - 1
    <3>1. (t + 1) % M = (t + 1) - 1 * M
      BY <1>3, <2>1
    <3>2. /\ i - ((t + 1) % M) = (c + 1) * M + (d - 1) /\ c + 1 \in Int
          /\ i - ((t + 1) % M) \in Int
      BY <1>1, <3>1
    <3>3. QED
      BY <1>4, <3>2, ModUnique
  <2>2. CASE t # M - 1
    <3>1. (t + 1) % M = t + 1
      BY <1>3, <2>2
    <3>2. i - ((t + 1) % M) = c * M + (d - 1) /\ i - ((t + 1) % M) \in Int
      BY <1>1, <3>1
    <3>3. QED
      BY <1>1, <1>4, <3>2, ModUnique
  <2>3. QED
    BY <2>1, <2>2
<1>7. QED
  BY <1>1, <1>2, <1>6

(* Between firings, a bit clock keeps the trigger's phase in the frame.   *)
LEMMA AheadTick == ASSUME NEW p \in 0..FrameLen - 1, NEW i \in Stamps,
                          NEW t \in Stamps, i # t
                   PROVE  Ahead((p + 1) % FrameLen, i, (t + 1) % Mod) % FrameLen
                            = Ahead(p, i, t) % FrameLen
<1>0. Mod \in Nat \ {0} /\ FrameLen \in Nat \ {0}
  BY TimingAssumption
<1> DEFINE d == (i - t) % Mod
<1>1. d \in 1..Mod - 1 /\ (i - ((t + 1) % Mod)) % Mod = d - 1
  BY <1>0, CountDown DEF Stamps
<1>2. CASE p = FrameLen - 1
  <2>1. (p + 1) % FrameLen = 0
    BY <1>2, WrapPos
  <2>2. Ahead((p + 1) % FrameLen, i, (t + 1) % Mod) = (p + d) + (-1) * FrameLen
    BY <1>0, <1>1, <1>2, <2>1 DEF Ahead
  <2>3. ((p + d) + (-1) * FrameLen) % FrameLen = (p + d) % FrameLen
    <3>1. p + d \in Int /\ -1 \in Int
      BY <1>0, <1>1
    <3>2. QED
      BY <1>0, <3>1, ModShift
  <2>4. QED
    BY <2>2, <2>3 DEF Ahead
<1>3. CASE p # FrameLen - 1
  <2>1. (p + 1) % FrameLen = p + 1
    BY <1>3, WrapPos
  <2>2. QED
    BY <1>1, <2>1 DEF Ahead
<1>4. QED
  BY <1>2, <1>3

(* tdm_isr re-arms exactly one frame later: the phase is kept.            *)
LEMMA AheadIsr == ASSUME NEW p \in 0..FrameLen - 1, NEW t \in Stamps
                  PROVE  Ahead(p, (t + FrameLen) % Mod, t) % FrameLen
                           = Ahead(p, t, t) % FrameLen
<1>0. Mod \in Nat \ {0} /\ FrameLen \in Nat \ {0} /\ FrameLen \in 0..Mod - 1
  BY TimingAssumption DEF PortBufferBits
<1>1. (((t + FrameLen) % Mod) - t) % Mod = ((t + FrameLen) - t) % Mod
  <2>1. t + FrameLen \in Int /\ t \in Int
    BY <1>0 DEF Stamps
  <2>2. QED
    BY <1>0, <2>1, ModSub
<1>2. ((t + FrameLen) - t) % Mod = FrameLen
  <2>1. (t + FrameLen) - t = FrameLen
    BY <1>0 DEF Stamps
  <2>2. QED
    BY <1>0, <2>1, ModSmall
<1>3. (t - t) % Mod = 0
  <2>1. t - t = 0
    BY DEF Stamps
  <2>2. QED
    BY <1>0, <2>1, ModSmall
<1>4. (p + 1 * FrameLen) % FrameLen = p % FrameLen
  <2>1. p \in Int /\ 1 \in Int
    OBVIOUS
  <2>2. QED
    BY <1>0, <2>1, ModShift
<1>5. Ahead(p, (t + FrameLen) % Mod, t) = p + 1 * FrameLen
  BY <1>0, <1>1, <1>2 DEF Ahead
<1>6. Ahead(p, t, t) = p
  BY <1>3 DEF Ahead
<1>7. QED
  BY <1>4, <1>5, <1>6

(* FirstSync arms the trigger frame_len + offset + 32 bit clocks after   *)
(* the sync edge: offset + 32 bit clocks into a frame.                    *)
LEMMA AheadArm == ASSUME NEW t \in Stamps
                  PROVE  Ahead(0, Later(t, FrameLen + Offset + PortBufferBits), t) % FrameLen
                           = (Offset + PortBufferBits) % FrameLen
<1> DEFINE K == FrameLen + Offset + PortBufferBits
<1>0. Mod \in Nat \ {0} /\ FrameLen \in Nat \ {0} /\ K \in 0..Mod - 1
      /\ Offset + PortBufferBits \in Int /\ t \in Int /\ t + K \in Int
  BY TimingAssumption DEF PortBufferBits, Stamps
<1>1. (((t + K) % Mod) - t) % Mod = ((t + K) - t) % Mod
  BY <1>0, ModSub
<1>2. ((t + K) - t) % Mod = K
  <2>1. (t + K) - t = K
    BY <1>0 DEF Stamps
  <2>2. QED
    BY <1>0, <2>1, ModSmall
<1>3. ((Offset + PortBufferBits) + 1 * FrameLen) % FrameLen
        = (Offset + PortBufferBits) % FrameLen
  <2>1. 1 \in Int
    OBVIOUS
  <2>2. QED
    BY <1>0, <2>1, ModShift
<1>4. Ahead(0, Later(t, K), t) = (Offset + PortBufferBits) + 1 * FrameLen
  BY <1>0, <1>1, <1>2, TimingAssumption DEF Ahead, Later, PortBufferBits
<1>5. QED
  BY <1>3, <1>4

LEMMA CaptureInit == Init => CaptureIInv
<1> SUFFICES ASSUME Init PROVE CaptureIInv
  OBVIOUS
<1>1. pc = "idle" /\ restart = "NoRestart" /\ ~armed
  BY DEF Init, T!Init
<1>2. pos \in 0..FrameLen - 1 /\ timer \in Stamps /\ isr_time \in Stamps
  BY InitStamps, TimingAssumption DEF Init, Stamps
<1>3. QED
  BY <1>1, <1>2 DEF CaptureIInv, ArmedShape, CaptureAligned

(* The trigger's phase, written with Ahead.                               *)
LEMMA AheadIsTriggerAhead == TriggerAhead = Ahead(pos, isr_time, timer)
BY DEF TriggerAhead, Ahead

(* With a one-bit-clock sync pulse, every step keeps CaptureIInv.         *)
LEMMA CaptureStep == ASSUME FsyncWidth = 1
                     PROVE  CaptureIInv /\ [Next]_vars => CaptureIInv'
<1> SUFFICES ASSUME CaptureIInv, [Next]_vars PROVE CaptureIInv'
  OBVIOUS
<1>0. /\ Mod \in Nat \ {0} /\ FrameLen \in Nat \ {0}
      /\ pos \in 0..FrameLen - 1 /\ timer \in Stamps /\ isr_time \in Stamps
      /\ ArmedShape /\ CaptureAligned
  BY TimingAssumption DEF CaptureIInv
<1>1. CASE Tick
  <2>1. /\ pos' = (pos + 1) % FrameLen /\ timer' = (timer + 1) % Mod
        /\ UNCHANGED <<armed, isr_time, pc, restart, masked>>
        /\ ~IsrReady
    BY <1>1 DEF Tick, Later
  <2>2. pos' \in 0..FrameLen - 1 /\ timer' \in Stamps /\ isr_time' \in Stamps
    BY <1>0, <2>1 DEF Stamps
  <2>3. ArmedShape'
    BY <1>0, <2>1 DEF ArmedShape
  <2>4. CaptureAligned'
    <3>1. SUFFICES ASSUME armed'
                   PROVE  TriggerAhead' % FrameLen = (Offset + PortBufferBits) % FrameLen
      BY DEF CaptureAligned
    <3>2. isr_time # timer
      BY <1>0, <2>1, <3>1 DEF ArmedShape, IsrReady
    <3>3. Ahead((pos + 1) % FrameLen, isr_time, (timer + 1) % Mod) % FrameLen
            = Ahead(pos, isr_time, timer) % FrameLen
      BY <1>0, <3>2, AheadTick
    <3>4. TriggerAhead' = Ahead((pos + 1) % FrameLen, isr_time, (timer + 1) % Mod)
      BY <2>1 DEF TriggerAhead, Ahead
    <3>5. QED
      BY <1>0, <2>1, <3>1, <3>3, <3>4, AheadIsTriggerAhead DEF CaptureAligned
  <2>5. QED
    BY <2>2, <2>3, <2>4 DEF CaptureIInv
<1>2. CASE tdm_slave
  <2>1. /\ ~armed' /\ pc' = "configure" /\ restart' = "NoRestart"
        /\ UNCHANGED <<pos, timer, isr_time>>
    BY <1>2 DEF tdm_slave, T!tdm_slave, T!MainLoopEntry
  <2>2. QED
    BY <1>0, <2>1 DEF CaptureIInv, ArmedShape, CaptureAligned
<1>3. CASE Configure
  <2>1. /\ pc = "configure" /\ pc' = "first_sync"
        /\ UNCHANGED <<pos, timer, isr_time, armed, restart>>
    BY <1>3 DEF Configure, T!Configure, timing
  <2>2. ~armed /\ restart = "NoRestart"
    BY <1>0, <2>1 DEF ArmedShape
  <2>3. QED
    BY <1>0, <2>1, <2>2 DEF CaptureIInv, ArmedShape, CaptureAligned
<1>4. CASE FirstSync
  <2>1. restart = "NoRestart"
    BY <1>0, <1>4 DEF FirstSync, ArmedShape
  <2>2. /\ pos' = 0 /\ timer' \in Stamps
        /\ isr_time' = Later(timer', FrameLen + Offset + PortBufferBits)
        /\ armed' /\ ~masked' /\ pc' = "hold" /\ UNCHANGED restart
    BY <1>0, <1>4, <2>1 DEF FirstSync, HoldReturns, FsyncHigh, Later, Stamps
  <2>3. pos' \in 0..FrameLen - 1 /\ isr_time' \in Stamps
    <3>1. timer' \in Int /\ FrameLen + Offset + PortBufferBits \in Int
      BY <2>2, TimingAssumption DEF Stamps, PortBufferBits
    <3>2. Later(timer', FrameLen + Offset + PortBufferBits) \in Stamps
      BY <3>1, LaterStamp, Zenon
    <3>3. 0 \in 0..FrameLen - 1
      BY <1>0
    <3>4. QED
      BY <2>2, <3>2, <3>3, Zenon
  <2>4. ArmedShape'
    BY <1>0, <2>2 DEF ArmedShape
  <2>5. CaptureAligned'
    <3>1. Ahead(0, Later(timer', FrameLen + Offset + PortBufferBits), timer') % FrameLen
            = (Offset + PortBufferBits) % FrameLen
      BY <2>2, AheadArm, Zenon
    <3>2. TriggerAhead' = Ahead(0, Later(timer', FrameLen + Offset + PortBufferBits), timer')
      BY <2>2, Zenon DEF TriggerAhead, Ahead
    <3>3. QED
      BY <3>1, <3>2 DEF CaptureAligned
  <2>6. QED
    BY <2>2, <2>3, <2>4, <2>5 DEF CaptureIInv
<1>5. CASE NextFrameSync
  <2>1. /\ pc' = "check" /\ UNCHANGED <<armed, isr_time, restart, masked>>
        /\ ~IsrReady
    BY <1>5 DEF NextFrameSync, HoldReturns
  <2>2. ArmedShape'
    BY <1>0, <2>1 DEF ArmedShape
  <2>3. CASE pos = FrameLen - 1 /\ pos' = 0 /\ timer' = Later(timer, 1)
    <3>1. pos' = (pos + 1) % FrameLen /\ timer' = (timer + 1) % Mod
      BY <1>0, <2>3, WrapPos DEF Later
    <3>2. pos' \in 0..FrameLen - 1 /\ timer' \in Stamps
      BY <1>0, <3>1 DEF Stamps
    <3>3. CaptureAligned'
      <4>1. SUFFICES ASSUME armed'
                     PROVE  TriggerAhead' % FrameLen = (Offset + PortBufferBits) % FrameLen
        BY DEF CaptureAligned
      <4>2. isr_time # timer
        BY <1>0, <2>1, <4>1 DEF ArmedShape, IsrReady
      <4>3. Ahead((pos + 1) % FrameLen, isr_time, (timer + 1) % Mod) % FrameLen
              = Ahead(pos, isr_time, timer) % FrameLen
        BY <1>0, <4>2, AheadTick
      <4>4. TriggerAhead' = Ahead((pos + 1) % FrameLen, isr_time, (timer + 1) % Mod)
        BY <2>1, <3>1 DEF TriggerAhead, Ahead
      <4>5. QED
        BY <1>0, <2>1, <4>1, <4>3, <4>4, AheadIsTriggerAhead DEF CaptureAligned
    <3>4. QED
      BY <1>0, <2>1, <2>2, <3>2, <3>3 DEF CaptureIInv
  <2>4. CASE UNCHANGED <<pos, timer>>
    BY <1>0, <2>1, <2>2, <2>4 DEF CaptureIInv, CaptureAligned, TriggerAhead
  <2>5. QED
    BY <1>5, <2>3, <2>4 DEF NextFrameSync, HoldReturns
<1>6. CASE restart_check
  <2>1. /\ pc' = "process" /\ restart' # "Restart"
        /\ UNCHANGED <<pos, timer, isr_time, armed, masked>>
    BY <1>6 DEF restart_check, T!restart_check, timing
  <2>2. QED
    BY <1>0, <2>1 DEF CaptureIInv, ArmedShape, CaptureAligned, TriggerAhead
<1>7. CASE process \/ CommitWorking \/ CommitSafe
  <2>1. /\ pc' \in {"commit", "commit_safe", "preload"}
        /\ UNCHANGED <<pos, timer, isr_time, armed, masked, restart>>
    BY <1>7 DEF process, CommitWorking, CommitSafe, T!process, T!CommitWorking,
                T!CommitSafe, timing
  <2>2. QED
    BY <1>0, <2>1 DEF CaptureIInv, ArmedShape, CaptureAligned, TriggerAhead
<1>8. CASE preload_data
  <2>1. /\ pc = "preload" /\ restart # "Restart"
        /\ pc' = CASE restart = "NoRestart" -> "hold"
                   [] restart = "Restart"   -> "configure"
                   [] OTHER                 -> "done"
        /\ UNCHANGED <<pos, timer, isr_time, armed, masked, restart>>
    BY <1>0, <1>8 DEF preload_data, T!preload_data, ArmedShape
  <2>2. pc' \in {"hold", "done"}
    BY <2>1
  <2>3. QED
    BY <1>0, <2>1, <2>2 DEF CaptureIInv, ArmedShape, CaptureAligned, TriggerAhead
<1>9. CASE tdm_isr
  <2>1. /\ armed /\ timer = isr_time
        /\ isr_time' = (isr_time + FrameLen) % Mod
        /\ UNCHANGED <<pos, timer, armed, masked, pc, restart>>
    BY <1>9 DEF tdm_isr, IsrReady, Later
  <2>2. isr_time' \in Stamps
    BY <1>0, <2>1 DEF Stamps
  <2>3. Ahead(pos, (timer + FrameLen) % Mod, timer) % FrameLen
          = Ahead(pos, timer, timer) % FrameLen
    BY <1>0, AheadIsr
  <2>4. TriggerAhead' = Ahead(pos, (timer + FrameLen) % Mod, timer)
    BY <2>1 DEF TriggerAhead, Ahead
  <2>5. CaptureAligned'
    BY <1>0, <2>1, <2>3, <2>4, AheadIsTriggerAhead DEF CaptureAligned
  <2>6. QED
    BY <1>0, <2>1, <2>2, <2>5 DEF CaptureIInv, ArmedShape
<1>10. CASE UNCHANGED vars
  BY <1>0, <1>10 DEF vars, data, timing, CaptureIInv, ArmedShape, CaptureAligned,
                     TriggerAhead
<1>11. QED
  BY <1>1, <1>2, <1>3, <1>4, <1>5, <1>6, <1>7, <1>8, <1>9, <1>10 DEF Next

(* For every frame length, offset and counter width, with a frame-sync    *)
(* pulse of one bit clock: once FirstSync has armed it, the trigger of    *)
(* tdm_isr stays offset + 32 bit clocks into a frame, through every       *)
(* re-arm at now + frame_len and every wrap of the port counter, so each  *)
(* capture reads the word of channels 0 and 1 just after it has arrived.  *)
THEOREM CaptureAlignedHolds == ASSUME FsyncWidth = 1
                               PROVE  Spec => []CaptureAligned
<1>1. CaptureIInv => CaptureAligned
  BY DEF CaptureIInv
<1>2. QED
  BY <1>1, CaptureInit, CaptureStep, PTL DEF Spec

(* The strengthening itself: the trigger of tdm_isr is off until the     *)
(* first sync, never armed while interrupts are masked, and once armed is *)
(* offset + 32 bit clocks into this frame or the next one, so the counter *)
(* never passes it without the interrupt firing.                          *)
THEOREM CaptureIInvHolds == ASSUME FsyncWidth = 1
                            PROVE  Spec => []CaptureIInv
BY CaptureInit, CaptureStep, PTL DEF Spec

=============================================================================
