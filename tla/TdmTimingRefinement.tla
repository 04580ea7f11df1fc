------------------------ MODULE TdmTimingRefinement -------------------------
(***************************************************************************)
(* The bit-clock model TdmTiming.tla implements the frame engine           *)
(* TdmSlave.tla under the mapping T of TdmTiming: every bit-clock step is  *)
(* a step of the frame engine or leaves its variables alone. The proof    *)
(* holds for every frame length, offset, counter width and number of      *)
(* lines, when the frame-sync pulse is one bit clock wide and the capture *)
(* point offset + TDM_PORT_BUFFER_BITS lies inside the frame: the two     *)
(* runs timing_fsync_level and timing_short_frame show that the           *)
(* refinement fails without either.                                       *)
(***************************************************************************)
EXTENDS TdmTimingProofs

USE FrameAssumption

(* Where in a frame tdm_isr reads its word: offset + TDM_PORT_BUFFER_BITS. *)
CapturePoint == Offset + PortBufferBits

(* TrigOf as a function of the armed flag and the trigger's distance.     *)
TrigAt(a, x) == CASE ~a                                -> "Off"
                  [] a /\ x < FrameLen                   -> "ThisFrame"
                  [] a /\ x \in FrameLen..2 * FrameLen - 1 -> "NextFrame"
                  [] OTHER                              -> "Later"

LEMMA TrigOfIsTrigAt == /\ TrigOf = TrigAt(armed, Ahead(pos, isr_time, timer))
                        /\ TrigOf' = TrigAt(armed', Ahead(pos', isr_time', timer'))
BY DEF TrigOf, TrigAt, TriggerAhead, Ahead

-----------------------------------------------------------------------------
(***************************************************************************)
(* The frame engine's steps keep its type, under the mapping: the proof   *)
(* of TdmSlaveProofs!TypeInductive, for the instance T.                   *)
(***************************************************************************)
LEMMA TAgedType == ASSUME NEW c \in T!Capture PROVE T!Aged(c) \in T!Capture
BY DEF T!Aged, T!Capture, T!NoCapture

LEMMA TTriggerAfterEdgeType == ASSUME NEW t \in T!TriggerStates
                               PROVE  T!TriggerAfterEdge(t) \in T!TriggerStates
BY DEF T!TriggerAfterEdge, T!TriggerStates

LEMMA TTypeInductive == T!TypeOK /\ [T!Next]_(T!vars) => T!TypeOK'
<1> SUFFICES ASSUME T!TypeOK, [T!Next]_(T!vars) PROVE T!TypeOK'
  OBVIOUS
<1>1. T!FrameEnds => in_s' \in [T!Bufs -> T!Capture]
  BY TAgedType DEF T!FrameEnds, T!TypeOK
<1>2. CASE T!tdm_slave
  BY <1>2 DEF T!tdm_slave, T!tdm_slave_init_ports, T!MainLoopEntry, T!TypeOK,
              T!Pcs, T!RestartAnswers, T!Bufs, T!Capture, T!Zeroed, T!NoCapture,
              T!TriggerStates, T!NoBuf
<1>3. CASE T!Configure
  <2>1. in_s' \in [T!Bufs -> T!Capture]
    BY <1>3 DEF T!Configure, T!TypeOK, T!Capture
  <2>2. received' \in T!Capture
    BY <1>3, <2>1 DEF T!Configure, T!TypeOK, T!Bufs
  <2>3. QED
    BY <1>3, <2>1, <2>2 DEF T!Configure, T!TypeOK, T!Pcs, T!Bufs, T!NoBuf
<1>4. CASE T!FirstSync
  BY <1>1, <1>4 DEF T!FirstSync, T!TypeOK, T!Pcs, T!TriggerStates
<1>5. CASE T!NextFrameSync
  BY <1>1, <1>5, TTriggerAfterEdgeType DEF T!NextFrameSync, T!TypeOK, T!Pcs
<1>6. CASE T!restart_check
  BY <1>6 DEF T!restart_check, T!TypeOK, T!Pcs, T!RestartAnswers
<1>7. CASE T!process
  BY <1>7 DEF T!process, T!TypeOK, T!Pcs, T!Bufs, T!NoBuf
<1>8. CASE T!CommitWorking
  BY <1>8 DEF T!CommitWorking, T!TypeOK, T!Pcs, T!Bufs
<1>9. CASE T!CommitSafe
  BY <1>9 DEF T!CommitSafe, T!TypeOK, T!Pcs
<1>10. CASE T!preload_data
  BY <1>10 DEF T!preload_data, T!TypeOK, T!Pcs
<1>11. CASE T!tdm_isr
  BY <1>11 DEF T!tdm_isr, T!TypeOK, T!Capture, T!NoCapture, T!TriggerStates
<1>12. CASE T!FsyncEdge
  BY <1>1, <1>12, TTriggerAfterEdgeType DEF T!FsyncEdge, T!TypeOK
<1>13. CASE UNCHANGED T!vars
  BY <1>13 DEF T!vars, T!TypeOK
<1>14. QED
  BY <1>2, <1>3, <1>4, <1>5, <1>6, <1>7, <1>8, <1>9, <1>10, <1>11, <1>12,
     <1>13 DEF T!Next, T!MainLoop

-----------------------------------------------------------------------------
(***************************************************************************)
(* The distance to the trigger time in bit clocks, exactly (TdmTimingProofs *)
(* has it modulo frame_len).                                              *)
(***************************************************************************)

(* A bit clock that is not the trigger time brings the trigger one bit     *)
(* clock closer; at the end of a frame the distance counts from the next. *)
LEMMA AheadStep == ASSUME NEW p \in 0..FrameLen - 1, NEW i \in Stamps,
                          NEW t \in Stamps, i # t
                   PROVE  /\ Ahead(p, i, t) >= p + 1
                          /\ Ahead((p + 1) % FrameLen, i, (t + 1) % Mod)
                               = IF p = FrameLen - 1 THEN Ahead(p, i, t) - FrameLen
                                                     ELSE Ahead(p, i, t)
<1>0. Mod \in Nat \ {0} /\ FrameLen \in Nat \ {0}
  BY TimingAssumption
<1> DEFINE d == (i - t) % Mod
<1>1. d \in 1..Mod - 1 /\ (i - ((t + 1) % Mod)) % Mod = d - 1
  BY <1>0, CountDown DEF Stamps
<1>2. (p + 1) % FrameLen = IF p = FrameLen - 1 THEN 0 ELSE p + 1
  BY WrapPos
<1>3. QED
  BY <1>0, <1>1, <1>2 DEF Ahead

(* A timestamp K bit clocks after t lies K bit clocks ahead of t.         *)
LEMMA AheadLater == ASSUME NEW t \in Stamps, NEW K \in 0..Mod - 1
                    PROVE  (Later(t, K) - t) % Mod = K
<1>0. Mod \in Nat \ {0} /\ t \in Int /\ t + K \in Int
  BY TimingAssumption DEF Stamps
<1>1. (((t + K) % Mod) - t) % Mod = ((t + K) - t) % Mod
  BY <1>0, ModSub
<1>2. (t + K) - t = K
  BY <1>0
<1>3. QED
  BY <1>0, <1>1, <1>2, ModSmall DEF Later

(* tdm_isr re-arms one frame after the trigger time it fires at.          *)
LEMMA AheadRearm == ASSUME NEW p \in 0..FrameLen - 1, NEW t \in Stamps
                    PROVE  Ahead(p, Later(t, FrameLen), t) = p + FrameLen
<1>1. FrameLen \in 0..Mod - 1
  BY TimingAssumption DEF PortBufferBits
<1>2. QED
  BY <1>1, AheadLater DEF Ahead

(* FirstSync arms the trigger frame_len + capture point after the edge.   *)
LEMMA AheadFirstArm == ASSUME NEW t \in Stamps
                       PROVE  Ahead(0, Later(t, FrameLen + Offset + PortBufferBits), t)
                                = FrameLen + CapturePoint
<1>1. /\ FrameLen + Offset + PortBufferBits \in 0..Mod - 1
      /\ FrameLen + Offset + PortBufferBits = FrameLen + CapturePoint
  BY TimingAssumption DEF CapturePoint, PortBufferBits
<1>2. QED
  BY <1>1, AheadLater DEF Ahead

(* An armed trigger lies at the capture point of this frame or the next:  *)
(* CaptureAligned fixes it modulo frame_len, the type of the mapped       *)
(* trigger bounds it by two frames.                                       *)
LEMMA Phase == ASSUME CapturePoint < FrameLen, RefineIInv, armed
               PROVE  Ahead(pos, isr_time, timer) \in {CapturePoint, FrameLen + CapturePoint}
<1> DEFINE A == Ahead(pos, isr_time, timer)
<1>0. /\ Mod \in Nat \ {0} /\ FrameLen \in Nat \ {0}
      /\ CapturePoint \in 0..FrameLen - 1
      /\ pos \in 0..FrameLen - 1 /\ isr_time \in Stamps /\ timer \in Stamps
  BY TimingAssumption DEF RefineIInv, CaptureIInv, CapturePoint, PortBufferBits
<1>1. A \in Nat
  BY <1>0 DEF Ahead, Stamps
<1>2. A < 2 * FrameLen
  <2>1. TrigAt(TRUE, A) \in T!TriggerStates
    BY TrigOfIsTrigAt DEF RefineIInv, TypeOK, T!TypeOK
  <2>2. SUFFICES ASSUME A >= 2 * FrameLen PROVE FALSE
    BY <1>0, <1>1
  <2>3. TrigAt(TRUE, A) = "Later"
    BY <1>0, <1>1, <2>2 DEF TrigAt
  <2>4. QED
    BY <2>1, <2>3 DEF T!TriggerStates
<1>3. A % FrameLen = CapturePoint
  <2>1. A % FrameLen = CapturePoint % FrameLen
    BY DEF RefineIInv, CaptureIInv, CaptureAligned, TriggerAhead, Ahead, CapturePoint
  <2>2. QED
    BY <1>0, <2>1, ModSmall
<1>4. CASE A < FrameLen
  BY <1>0, <1>1, <1>3, <1>4, ModSmall
<1>5. CASE A >= FrameLen
  <2>1. A = 1 * FrameLen + (A - FrameLen) /\ A - FrameLen \in 0..FrameLen - 1
    BY <1>0, <1>1, <1>2, <1>5
  <2>2. A % FrameLen = A - FrameLen
    BY <1>0, <1>1, <2>1, ModUnique
  <2>3. QED
    BY <1>0, <1>1, <1>3, <2>2
<1>6. QED
  BY <1>0, <1>1, <1>4, <1>5

-----------------------------------------------------------------------------
(***************************************************************************)
(* How one bit clock moves the mapped trigger: inside a frame not at all, *)
(* at a frame's end as the frame engine's edge moves it. An armed trigger *)
(* is never due at the end of a frame: tdm_isr would have fired first.    *)
(***************************************************************************)
LEMMA TickKeepsTrigger ==
    ASSUME RefineIInv, pos # FrameLen - 1, ~IsrReady,
           pos' = (pos + 1) % FrameLen, timer' = Later(timer, 1),
           armed' = armed, isr_time' = isr_time
    PROVE  TrigOf' = TrigOf
<1>0. pos \in 0..FrameLen - 1 /\ timer \in Stamps /\ isr_time \in Stamps
  BY DEF RefineIInv, CaptureIInv
<1>1. Ahead(pos', isr_time', timer') = Ahead((pos + 1) % FrameLen, isr_time, (timer + 1) % Mod)
  BY DEF Later
<1>2. CASE armed
  <2>1. isr_time # timer
    BY <1>2 DEF RefineIInv, CaptureIInv, ArmedShape, IsrReady
  <2>2. Ahead((pos + 1) % FrameLen, isr_time, (timer + 1) % Mod) = Ahead(pos, isr_time, timer)
    BY <1>0, <2>1, AheadStep
  <2>3. QED
    BY <1>1, <2>2, TrigOfIsTrigAt
<1>3. CASE ~armed
  <2>1. ~armed'
    BY <1>3, Zenon
  <2>2. QED
    BY <1>3, <2>1, TrigOfIsTrigAt DEF TrigAt
<1>4. QED
  BY <1>2, <1>3

LEMMA EdgeMovesTrigger ==
    ASSUME CapturePoint < FrameLen, RefineIInv, pos = FrameLen - 1, ~IsrReady,
           pos' = 0, timer' = Later(timer, 1),
           armed' = armed, isr_time' = isr_time, masked' = masked
    PROVE  /\ TrigOf # "ThisFrame"
           /\ TrigOf' = T!TriggerAfterEdge(TrigOf)
<1>0. /\ pos \in 0..FrameLen - 1 /\ timer \in Stamps /\ isr_time \in Stamps
      /\ FrameLen \in Nat \ {0} /\ CapturePoint \in Nat
  BY TimingAssumption DEF RefineIInv, CaptureIInv, CapturePoint, PortBufferBits
<1>1. Ahead(pos', isr_time', timer') = Ahead((pos + 1) % FrameLen, isr_time, (timer + 1) % Mod)
  BY <1>0, WrapPos DEF Later
<1>2. CASE armed
  <2> DEFINE A == Ahead(pos, isr_time, timer)
  <2>1. isr_time # timer
    BY <1>2 DEF RefineIInv, CaptureIInv, ArmedShape, IsrReady
  <2>2. A >= FrameLen /\ Ahead((pos + 1) % FrameLen, isr_time, (timer + 1) % Mod) = A - FrameLen
    BY <1>0, <2>1, AheadStep
  <2>3. A = FrameLen + CapturePoint
    BY <1>0, <1>2, <2>2, Phase
  <2>4. TrigOf = "NextFrame"
    BY <1>0, <1>2, <2>3, TrigOfIsTrigAt DEF TrigAt
  <2>5. TrigOf' = "ThisFrame"
    <3>1. armed'
      BY <1>2, Zenon
    <3>2. Ahead((pos + 1) % FrameLen, isr_time, (timer + 1) % Mod) = CapturePoint
      BY <1>0, <2>2, <2>3
    <3>5. Ahead(pos', isr_time', timer') = CapturePoint
      BY <1>1, <3>2, Zenon
    <3>3. TrigAt(TRUE, CapturePoint) = "ThisFrame"
      BY <1>0 DEF TrigAt
    <3>4. QED
      BY <3>1, <3>5, <3>3, TrigOfIsTrigAt, Zenon
  <2>6. QED
    BY <2>4, <2>5 DEF T!TriggerAfterEdge
<1>3. CASE ~armed
  <2>1. ~armed'
    BY <1>3, Zenon
  <2>2. TrigOf = "Off"
    BY <1>3, TrigOfIsTrigAt, Zenon DEF TrigAt
  <2>3. TrigOf' = "Off"
    BY <2>1, TrigOfIsTrigAt, Zenon DEF TrigAt
  <2>4. QED
    BY <2>2, <2>3 DEF T!TriggerAfterEdge
<1>4. QED
  BY <1>2, <1>3

-----------------------------------------------------------------------------
(***************************************************************************)
(* Every step of the bit-clock model is a step of the frame engine under  *)
(* the mapping, or leaves the mapped variables alone: a bit clock inside  *)
(* a frame stutters, the clock at a frame's end outside the frame loop is *)
(* FsyncEdge, the two waits for frame sync are FirstSync and              *)
(* NextFrameSync, tdm_isr at its trigger time is tdm_isr.                 *)
(***************************************************************************)
LEMMA RefineStep == ASSUME FsyncWidth = 1, CapturePoint < FrameLen
                    PROVE  RefineIInv /\ [Next]_vars => [T!Next]_(T!vars)
<1> SUFFICES ASSUME RefineIInv, [Next]_vars PROVE [T!Next]_(T!vars)
  OBVIOUS
<1>0. /\ pos \in 0..FrameLen - 1 /\ timer \in Stamps /\ isr_time \in Stamps
      /\ FrameLen \in Nat \ {0} /\ Mod \in Nat \ {0} /\ MinLoopBits \in 1..FrameLen
      /\ CapturePoint \in Nat /\ in_s \in [T!Bufs -> T!Capture]
  BY TimingAssumption DEF RefineIInv, CaptureIInv, CapturePoint, PortBufferBits,
                          TypeOK, T!TypeOK
<1>1. CASE Tick
  <2>1. CASE pos = FrameLen - 1
    <3>1. /\ pc \in {"idle", "configure", "done"} /\ pos' = 0
          /\ timer' = Later(timer, 1) /\ ~IsrReady
          /\ armed' = armed /\ isr_time' = isr_time /\ masked' = masked
      BY <1>0, <1>1, <2>1, WrapPos DEF Tick, Later
    <3>2. TrigOf # "ThisFrame" /\ TrigOf' = T!TriggerAfterEdge(TrigOf)
      BY <3>1, <2>1, EdgeMovesTrigger
    <3>3. T!FsyncEdge
      BY <1>1, <2>1, <3>1, <3>2 DEF Tick, T!FsyncEdge, T!FrameEnds, T!IsrDue
    <3>4. QED
      BY <3>3 DEF T!Next
  <2>2. CASE pos # FrameLen - 1
    <3>1. TrigOf' = TrigOf
      BY <1>1, <2>2, TickKeepsTrigger DEF Tick
    <3>2. in_s' = in_s
      BY <1>1, <2>2 DEF Tick
    <3>3. QED
      BY <1>1, <3>1, <3>2 DEF Tick, T!vars
  <2>3. QED
    BY <2>1, <2>2
<1>2. CASE tdm_slave
  BY <1>2 DEF tdm_slave, T!Next, T!MainLoop
<1>3. CASE Configure \/ restart_check \/ process \/ CommitWorking \/ CommitSafe
             \/ preload_data
  BY <1>3 DEF Configure, restart_check, process, CommitWorking, CommitSafe,
              preload_data, T!Next, T!MainLoop
<1>4. CASE FirstSync
  <2>1. /\ ~armed /\ restart = "NoRestart" /\ pc = "first_sync"
        /\ \A b \in T!Bufs : in_s[b].age = T!NoCapture
    BY <1>4 DEF FirstSync, RefineIInv, CaptureIInv, ArmedShape, NoCaptureYet
  <2>2. TrigOf = "Off"
    BY <2>1, TrigOfIsTrigAt, Zenon DEF TrigAt
  <2>3. pos' = 0 /\ timer' \in Stamps /\ in_s' = [b \in T!Bufs |-> T!Aged(in_s[b])]
    <3>1. CASE /\ pos = FrameLen - 1 /\ pos' = 0 /\ timer' = Later(timer, 1)
               /\ in_s' = [b \in T!Bufs |-> T!Aged(in_s[b])]
      BY <1>0, <3>1 DEF Later, Stamps
    <3>2. CASE FsyncHigh /\ UNCHANGED <<pos, timer, in_s>>
      <4>1. pos' = 0
        BY <1>0, <3>2 DEF FsyncHigh
      <4>2. in_s = [b \in T!Bufs |-> T!Aged(in_s[b])]
        BY <1>0, <2>1 DEF T!Aged
      <4>3. QED
        BY <1>0, <3>2, <4>1, <4>2
    <3>3. QED
      BY <1>4, <3>1, <3>2 DEF FirstSync, HoldReturns
  <2>4. TrigOf' = "NextFrame"
    <3>1. isr_time' = Later(timer', FrameLen + Offset + PortBufferBits) /\ armed'
      BY <1>4 DEF FirstSync
    <3>2. \A t \in Stamps : Ahead(0, Later(t, FrameLen + Offset + PortBufferBits), t)
                              = FrameLen + CapturePoint
      BY AheadFirstArm
    <3>3. Ahead(pos', isr_time', timer') = FrameLen + CapturePoint
      BY <2>3, <3>1, <3>2, Zenon
    <3>4. TrigAt(TRUE, FrameLen + CapturePoint) = "NextFrame"
      BY <1>0 DEF TrigAt
    <3>5. QED
      BY <3>1, <3>3, <3>4, TrigOfIsTrigAt, Zenon
  <2>5. T!FirstSync
    BY <1>4, <2>1, <2>2, <2>3, <2>4 DEF FirstSync, T!FirstSync, T!FrameEnds, T!IsrDue
  <2>6. QED
    BY <2>5 DEF T!Next, T!MainLoop
<1>5. CASE NextFrameSync
  <2>1. /\ pos = FrameLen - 1 /\ pos' = 0 /\ timer' = Later(timer, 1)
        /\ in_s' = [b \in T!Bufs |-> T!Aged(in_s[b])]
    <3>1. ~(FsyncHigh /\ elapsed >= MinLoopBits)
      <4>1. elapsed <= pos /\ elapsed \in 0..MinLoopBits
        BY <1>5 DEF NextFrameSync, RefineIInv, ElapsedInFrame, TypeOK
      <4>2. QED
        BY <1>0, <4>1 DEF FsyncHigh
    <3>2. QED
      BY <1>5, <3>1 DEF NextFrameSync, HoldReturns
  <2>2. ~IsrReady /\ armed' = armed /\ isr_time' = isr_time /\ masked' = masked
    BY <1>5 DEF NextFrameSync, HoldReturns
  <2>3. TrigOf # "ThisFrame" /\ TrigOf' = T!TriggerAfterEdge(TrigOf)
    BY <2>1, <2>2, EdgeMovesTrigger
  <2>4. T!NextFrameSync
    BY <1>5, <2>1, <2>3 DEF NextFrameSync, T!NextFrameSync, T!FrameEnds, T!IsrDue
  <2>5. QED
    BY <2>4 DEF T!Next, T!MainLoop
<1>6. CASE tdm_isr
  <2>1. armed /\ ~masked /\ timer = isr_time /\ armed' /\ pos' = pos /\ timer' = timer
        /\ isr_time' = Later(isr_time, FrameLen)
    BY <1>6 DEF tdm_isr, IsrReady
  <2>2. TrigOf = "ThisFrame"
    <3>1. Ahead(pos, isr_time, timer) = pos
      <4>1. isr_time - timer = 0
        BY <1>0, <2>1 DEF Stamps
      <4>2. 0 % Mod = 0
        BY <1>0, ModSmall
      <4>3. QED
        BY <1>0, <4>1, <4>2 DEF Ahead
    <3>2. TrigAt(TRUE, pos) = "ThisFrame"
      BY <1>0 DEF TrigAt
    <3>3. QED
      BY <2>1, <3>1, <3>2, TrigOfIsTrigAt, Zenon
  <2>3. TrigOf' = "NextFrame"
    <3>1. Ahead(pos, Later(timer, FrameLen), timer) = pos + FrameLen
      BY <1>0, AheadRearm
    <3>2. Ahead(pos', isr_time', timer') = pos + FrameLen
      BY <2>1, <3>1, Zenon
    <3>3. TrigAt(TRUE, pos + FrameLen) = "NextFrame"
      BY <1>0 DEF TrigAt
    <3>4. QED
      BY <2>1, <3>2, <3>3, TrigOfIsTrigAt, Zenon
  <2>4. T!tdm_isr
    BY <1>6, <2>1, <2>2, <2>3 DEF tdm_isr, T!tdm_isr, T!IsrDue
  <2>5. QED
    BY <2>4 DEF T!Next
<1>7. CASE UNCHANGED vars
  <2>1. TrigOf' = TrigOf
    BY <1>7 DEF vars, timing, TrigOf, TriggerAhead
  <2>2. QED
    BY <1>7, <2>1 DEF vars, data, timing, T!vars
<1>8. QED
  BY <1>1, <1>2, <1>3, <1>4, <1>5, <1>6, <1>7 DEF Next

-----------------------------------------------------------------------------
(***************************************************************************)
(* RefineIInv is inductive. CaptureIInv is kept by CaptureStep of          *)
(* TdmTimingProofs, the frame engine's type by RefineStep and               *)
(* TTypeInductive; what remains is the type of the other timestamps,       *)
(* NoCaptureYet and ElapsedInFrame.                                        *)
(***************************************************************************)
Rest == /\ armed \in BOOLEAN
        /\ fsync_time \in Stamps
        /\ out_time \in Stamps
        /\ elapsed \in 0..MinLoopBits
        /\ NoCaptureYet
        /\ ElapsedInFrame

(* hold_for_frame_sync returns inside the frame with a timestamp.         *)
LEMMA HoldReturnsFacts ==
    ASSUME pos \in 0..FrameLen - 1, timer \in Stamps, HoldReturns
    PROVE  /\ pos' \in 0..FrameLen - 1 /\ timer' \in Stamps
           /\ fsync_time' = timer' /\ elapsed' = 0
<1>1. fsync_time' = timer' /\ elapsed' = 0
  BY DEF HoldReturns
<1>2. CASE pos = FrameLen - 1 /\ pos' = 0 /\ timer' = Later(timer, 1)
  <2>1. Later(timer, 1) \in Stamps
    BY LaterStamp DEF Stamps
  <2>2. QED
    BY <1>1, <1>2, <2>1, TimingAssumption
<1>3. CASE UNCHANGED <<pos, timer>>
  BY <1>1, <1>3
<1>4. QED
  BY <1>2, <1>3 DEF HoldReturns

LEMMA RestStep == ASSUME FsyncWidth = 1, CapturePoint < FrameLen
                  PROVE  RefineIInv /\ [Next]_vars => Rest'
<1> SUFFICES ASSUME RefineIInv, [Next]_vars PROVE Rest'
  OBVIOUS
<1>0. /\ pos \in 0..FrameLen - 1 /\ timer \in Stamps /\ isr_time \in Stamps
      /\ fsync_time \in Stamps /\ out_time \in Stamps /\ armed \in BOOLEAN
      /\ elapsed \in 0..MinLoopBits /\ MinLoopBits \in 1..FrameLen
      /\ in_s \in [T!Bufs -> T!Capture]
      /\ ArmedShape /\ NoCaptureYet /\ ElapsedInFrame
  BY TimingAssumption DEF RefineIInv, CaptureIInv, TypeOK, T!TypeOK
<1>1. \A t \in Int, n \in Int : Later(t, n) \in Stamps
  BY LaterStamp
<1>2. CASE Tick
  <2>1. pc \in LoopPcs \cup {"hold"} => pos # FrameLen - 1
    BY <1>2 DEF Tick, LoopPcs
  <2>2. pos # FrameLen - 1 => pos' = pos + 1
    BY <1>0, <1>2, WrapPos DEF Tick
  <2>3. NoCaptureYet'
    BY <1>0, <1>2 DEF Tick, NoCaptureYet, T!Aged
  <2>4. QED
    BY <1>0, <1>2, <2>1, <2>2, <2>3 DEF Tick, Rest, ElapsedInFrame
<1>3. CASE tdm_slave
  <2>1. /\ pc' = "configure" /\ armed' = FALSE
        /\ UNCHANGED <<pos, timer, isr_time, fsync_time, out_time, elapsed>>
    BY <1>3 DEF tdm_slave
  <2>2. \A b \in T!Bufs : in_s'[b].age = T!NoCapture
    BY <1>3 DEF tdm_slave, T!tdm_slave, T!MainLoopEntry, T!Zeroed
  <2>3. armed' \in BOOLEAN
    BY <2>1, Zenon
  <2>4. QED
    BY <1>0, <2>1, <2>2, <2>3 DEF Rest, NoCaptureYet, ElapsedInFrame, LoopPcs
<1>4. CASE Configure
  <2>1. pc' = "first_sync" /\ UNCHANGED timing
    BY <1>4 DEF Configure, T!Configure
  <2>2. \A b \in T!Bufs : in_s'[b].age = in_s[b].age
    BY <1>0, <1>4 DEF Configure, T!Configure, T!Capture
  <2>3. pc = "configure"
    BY <1>4 DEF Configure, T!Configure
  <2>4. QED
    BY <1>0, <2>1, <2>2, <2>3 DEF timing, Rest, NoCaptureYet, ElapsedInFrame, LoopPcs
<1>5. CASE FirstSync
  <2>1. pc' = "hold"
    <3>1. restart = "NoRestart" /\ pc = "first_sync"
      BY <1>0, <1>5 DEF FirstSync, ArmedShape
    <3>2. QED
      BY <1>5, <3>1 DEF FirstSync
  <2>2. /\ pos' \in 0..FrameLen - 1 /\ timer' \in Stamps
        /\ fsync_time' = timer' /\ elapsed' = 0
    BY <1>0, <1>5, HoldReturnsFacts DEF FirstSync
  <2>3. armed' /\ out_time' = IF NumOut > 0 THEN Later(timer', FrameLen + Offset) ELSE out_time
    BY <1>5 DEF FirstSync
  <2>4. out_time' \in Stamps
    <3>1. CASE NumOut > 0
      <4>1. timer' \in Int /\ FrameLen + Offset \in Int
        BY <2>2, TimingAssumption DEF Stamps
      <4>2. Later(timer', FrameLen + Offset) \in Stamps
        BY <1>1, <4>1, Zenon
      <4>3. QED
        BY <2>3, <3>1, <4>2, Zenon
    <3>2. CASE ~(NumOut > 0)
      BY <1>0, <2>3, <3>2, Zenon
    <3>3. QED
      BY <3>1, <3>2
  <2>5. QED
    BY <1>0, <2>1, <2>2, <2>3, <2>4 DEF Rest, NoCaptureYet, ElapsedInFrame
<1>6. CASE NextFrameSync
  <2>1. /\ pos' \in 0..FrameLen - 1 /\ timer' \in Stamps
        /\ fsync_time' = timer' /\ elapsed' = 0
    BY <1>0, <1>6, HoldReturnsFacts DEF NextFrameSync
  <2>2. pc' = "check" /\ UNCHANGED <<armed, out_time>>
    BY <1>6 DEF NextFrameSync
  <2>3. QED
    BY <1>0, <2>1, <2>2 DEF Rest, NoCaptureYet, ElapsedInFrame, LoopPcs
<1>7. CASE restart_check \/ process \/ CommitWorking \/ CommitSafe
  <2>1. pc \in LoopPcs /\ pc' \in LoopPcs /\ UNCHANGED timing
    BY <1>7 DEF restart_check, process, CommitWorking, CommitSafe,
                T!restart_check, T!process, T!CommitWorking, T!CommitSafe, LoopPcs
  <2>2. QED
    BY <1>0, <2>1 DEF timing, Rest, NoCaptureYet, ElapsedInFrame, LoopPcs
<1>8. CASE preload_data
  <2>1. pc = "preload" /\ restart # "Restart"
    BY <1>0, <1>8 DEF preload_data, T!preload_data, ArmedShape
  <2>2. pc' \in {"hold", "done"}
    BY <1>8, <2>1 DEF preload_data, T!preload_data
  <2>3. /\ UNCHANGED <<pos, armed, fsync_time, elapsed>>
        /\ out_time' = IF NumOut > 0 THEN Later(fsync_time, FrameLen + Offset) ELSE out_time
    BY <1>8 DEF preload_data
  <2>4. out_time' \in Stamps
    <3>1. fsync_time \in Int /\ FrameLen + Offset \in Int
      BY <1>0, TimingAssumption DEF Stamps
    <3>2. Later(fsync_time, FrameLen + Offset) \in Stamps
      BY <1>1, <3>1
    <3>3. QED
      BY <1>0, <2>3, <3>2
  <2>5. QED
    BY <1>0, <2>1, <2>2, <2>3, <2>4 DEF Rest, NoCaptureYet, ElapsedInFrame, LoopPcs
<1>9. CASE tdm_isr
  <2>1. pc \notin {"idle", "configure", "first_sync"}
    <3>1. armed
      BY <1>9 DEF tdm_isr, IsrReady
    <3>2. QED
      BY <1>0, <3>1 DEF ArmedShape
  <2>2. UNCHANGED <<pc, pos, armed, fsync_time, out_time, elapsed>>
    BY <1>9 DEF tdm_isr
  <2>3. QED
    BY <1>0, <2>1, <2>2 DEF Rest, NoCaptureYet, ElapsedInFrame
<1>10. CASE UNCHANGED vars
  BY <1>0, <1>10 DEF vars, data, timing, Rest, NoCaptureYet, ElapsedInFrame
<1>11. QED
  BY <1>2, <1>3, <1>4, <1>5, <1>6, <1>7, <1>8, <1>9, <1>10 DEF Next

LEMMA RefineInit == Init => RefineIInv
<1> SUFFICES ASSUME Init PROVE RefineIInv
  OBVIOUS
<1>1. pos \in 0..FrameLen - 1 /\ timer \in Stamps
  BY InitStamps
<1>2. /\ armed = FALSE /\ isr_time = 0 /\ fsync_time = 0 /\ out_time = 0
      /\ elapsed = MinLoopBits /\ T!Init
  BY DEF Init
<1>3. /\ 0 \in Stamps /\ MinLoopBits \in 0..MinLoopBits
      /\ T!Zeroed \in T!Capture
  BY TimingAssumption DEF Stamps, T!Zeroed, T!Capture, T!NoCapture
<1>4. T!TypeOK
  <2>1. /\ pc = "idle" /\ restart = "NoRestart" /\ current_buf_no = 0
        /\ working_buf = 1 /\ safe_buf = 0 /\ in_s = [b \in T!Bufs |-> T!Zeroed]
        /\ masked = FALSE /\ TrigOf = "Off" /\ last_out = T!NoBuf
        /\ first_frame = TRUE /\ received = T!Zeroed
    BY <1>2 DEF T!Init
  <2>2. in_s \in [T!Bufs -> T!Capture]
    BY <2>1, <1>3
  <2>3. (IF pc = "idle" THEN 0 ELSE 1) \in 0..1
    BY <2>1
  <2>4. masked \in BOOLEAN /\ first_frame \in BOOLEAN
    BY <2>1, Zenon
  <2>5. QED
    BY <2>1, <2>2, <2>3, <2>4, <1>3 DEF T!TypeOK, T!Pcs, T!RestartAnswers, T!Bufs,
                                 T!NoBuf, T!TriggerStates
<1>5. CaptureIInv
  BY CaptureInit
<1>6. NoCaptureYet
  <2>1. in_s = [b \in T!Bufs |-> T!Zeroed]
    BY <1>2 DEF T!Init
  <2>2. \A b \in T!Bufs : in_s[b].age = T!NoCapture
    BY <2>1 DEF T!Zeroed
  <2>3. QED
    BY <2>2 DEF NoCaptureYet
<1>7. ElapsedInFrame
  BY <1>2 DEF T!Init, ElapsedInFrame, LoopPcs
<1>8. QED
  BY <1>1, <1>2, <1>3, <1>4, <1>5, <1>6, <1>7 DEF RefineIInv, TypeOK

LEMMA RefineInductive == ASSUME FsyncWidth = 1, CapturePoint < FrameLen
                         PROVE  RefineIInv /\ [Next]_vars => RefineIInv'
<1> SUFFICES ASSUME RefineIInv, [Next]_vars PROVE RefineIInv'
  OBVIOUS
<1>1. CaptureIInv'
  BY CaptureStep DEF RefineIInv
<1>2. T!TypeOK'
  BY RefineStep, TTypeInductive DEF RefineIInv, TypeOK
<1>3. Rest'
  BY RestStep
<1>4. QED
  BY <1>1, <1>2, <1>3 DEF RefineIInv, TypeOK, CaptureIInv, Rest

-----------------------------------------------------------------------------
(* TypeOK of TdmTiming: in every reachable state the trigger of tdm_isr,  *)
(* seen at frame granularity, is one of the frame engine's trigger states *)
(* (never more than a frame ahead), and every timestamp the code keeps is *)
(* a port_timestamp_t.                                                     *)
THEOREM TimingTypeCorrect == ASSUME FsyncWidth = 1, CapturePoint < FrameLen
                             PROVE  Spec => []TypeOK
<1>1. RefineIInv => TypeOK
  BY DEF RefineIInv
<1>2. QED
  BY <1>1, RefineInit, RefineInductive, PTL DEF Spec

(* The bit-level engine of tdm_slave.c implements the frame engine: with  *)
(* a one-bit-clock frame-sync pulse and the capture point inside the      *)
(* frame, every wait for frame sync returns at one edge, tdm_isr fires    *)
(* once in each frame after the first sync and no edge passes while it is *)
(* due, for every frame length, offset, counter width and number of lines.*)
THEOREM TimingRefinement == ASSUME FsyncWidth = 1, CapturePoint < FrameLen
                            PROVE  Spec => TimingRefinesFrames
<1>1. Spec => []RefineIInv
  BY RefineInit, RefineInductive, PTL DEF Spec
<1>2. Init => T!Init
  BY DEF Init
<1>3. RefineIInv /\ [Next]_vars => [T!Next]_(T!vars)
  BY RefineStep
<1>4. QED
  BY <1>1, <1>2, <1>3, PTL DEF Spec, TimingRefinesFrames, T!Spec
=============================================================================
