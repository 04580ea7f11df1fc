------------------------------ MODULE TdmTiming ------------------------------
(***************************************************************************)
(* The TDM slave engine of src/modules/i2s/src/tdm_slave.c at bit-clock    *)
(* resolution, for one call of tdm_slave without restarts. Time is the bus *)
(* master's position in the frame (pos) and the free-running port counter *)
(* of p_bclk (timer), TimerBits wide and wrapping (16 bits on xcore).     *)
(* Every timestamp the code computes is taken modulo 2^TimerBits.          *)
(*                                                                         *)
(* hold_for_frame_sync returns as soon as p_fsync reads 1, which it does  *)
(* for the first FsyncWidth bit clocks of every frame. tdm_isr fires when *)
(* the counter reaches its trigger time. The main loop's steps that do not *)
(* depend on time are TdmSlave's own; the steps that do (waiting for      *)
(* frame sync, arming and firing the trigger, queueing output at a time) *)
(* are defined here. The frame engine TdmSlave is the abstract            *)
(* specification: its trigger states and frame-sync edges are what the    *)
(* bit-level timing must produce.                                          *)
(***************************************************************************)
EXTENDS Integers

CONSTANTS
    NumOut, NumIn, MaxPorts, AgeCap,  \* as in TdmSlave
    FrameLen,     \* frame_len = num_chans * num_data_bits, in bit clocks
    Offset,       \* tdm_config.offset, in bit clocks
    FsyncWidth,   \* bit clocks for which the master holds p_fsync at 1
    MinLoopBits,  \* bit clocks the main loop takes at least between waits
    TimerBits,    \* width of port timestamps (port_timestamp_t)
    TimerStarts   \* port counter values at the sync edge of the frame the
                  \* run starts in

VARIABLES
    pc, restart, current_buf_no, working_buf, safe_buf, in_s, masked,
    last_out, first_frame, received,  \* as in TdmSlave
    pos,          \* bit clocks since the current frame's sync edge
    timer,        \* the port counter of p_bclk
    armed,        \* triggerable_enable_trigger(p_bclk) in force
    isr_time,     \* port_set_trigger_time(p_bclk, ...): when tdm_isr fires
    fsync_time,   \* tdm_interrupt_data.fsync_time
    out_time,     \* time of the last port_out_at_time of preload_data
    elapsed       \* bit clocks since hold_for_frame_sync last returned (capped)

data == <<pc, restart, current_buf_no, working_buf, safe_buf, in_s, masked,
          last_out, first_frame, received>>
timing == <<pos, timer, armed, isr_time, fsync_time, out_time, elapsed>>
vars == <<data, timing>>

PortBufferBits == 32   \* TDM_PORT_BUFFER_BITS
Mod == 2 ^ TimerBits
Stamps == 0..Mod - 1

ASSUME TimingAssumption ==
    /\ FrameLen \in Nat \ {0}
    /\ Offset \in Nat
    /\ FsyncWidth \in 1..FrameLen
    /\ MinLoopBits \in 1..FrameLen
    /\ TimerBits \in Nat
    /\ Mod \in Nat \ {0}    \* 2^TimerBits, stated for the provers
    /\ FrameLen + Offset + PortBufferBits < Mod
    /\ TimerStarts \subseteq Stamps

(* The constants shared with TdmSlave meet its assumptions.              *)
ASSUME FrameAssumption ==
    /\ MaxPorts \in Nat
    /\ NumOut \in 0..MaxPorts
    /\ NumIn \in 0..MaxPorts
    /\ AgeCap \in Nat \ {0, 1}

(* Where the trigger time lies, seen from now at frame granularity.       *)
TriggerAhead == pos + ((isr_time - timer) % Mod)
TrigOf == CASE ~armed                                   -> "Off"
            [] armed /\ TriggerAhead < FrameLen          -> "ThisFrame"
            [] armed /\ TriggerAhead \in FrameLen..2 * FrameLen - 1
                                                        -> "NextFrame"
            [] OTHER                                    -> "Later"

T == INSTANCE TdmSlave WITH trigger <- TrigOf, restarts <- 0,
                            sessions <- IF pc = "idle" THEN 0 ELSE 1,
                            MaxRestarts <- 0, MaxSessions <- 1,
                            IsrBeforeCommit <- FALSE

FsyncHigh == pos < FsyncWidth
IsrReady == armed /\ ~masked /\ timer = isr_time
Later(t, n) == (t + n) % Mod

(* Mutant of HoldReturns: the timestamp taken one bit clock before the    *)
(* edge, as when the port time is read instead of the trigger time.       *)
HoldReturnsEarly == /\ ~IsrReady
                    /\ \/ /\ pos = FrameLen - 1
                          /\ pos' = 0
                          /\ timer' = Later(timer, 1)
                          /\ in_s' = [b \in T!Bufs |-> T!Aged(in_s[b])]
                       \/ /\ FsyncHigh
                          /\ elapsed >= MinLoopBits
                          /\ UNCHANGED <<pos, timer, in_s>>
                    /\ fsync_time' = timer
                    /\ elapsed' = 0

(* hold_for_frame_sync returns: either the main loop is waiting and the  *)
(* edge of the next frame comes (the captures age by a frame), or p_fsync *)
(* is already at 1 when the loop arrives.                                 *)
HoldReturns == /\ ~IsrReady
               /\ \/ /\ pos = FrameLen - 1
                     /\ pos' = 0
                     /\ timer' = Later(timer, 1)
                     /\ in_s' = [b \in T!Bufs |-> T!Aged(in_s[b])]
                  \/ /\ FsyncHigh
                     /\ elapsed >= MinLoopBits
                     /\ UNCHANGED <<pos, timer, in_s>>
               /\ fsync_time' = timer'
               /\ elapsed' = 0

-----------------------------------------------------------------------------
Init == /\ pos \in 0..FrameLen - 1
        /\ \E s \in TimerStarts : timer = Later(s, pos)
        /\ armed = FALSE
        /\ isr_time = 0
        /\ fsync_time = 0
        /\ out_time = 0
        /\ elapsed = MinLoopBits
        /\ T!Init

(* One bit clock passes. The main loop cannot be waiting for frame sync  *)
(* while p_fsync is 1, an armed and unmasked trigger fires at its time,   *)
(* and by the callback contract the frame loop's steps end before the    *)
(* next frame begins; the edge while waiting is HoldReturns.              *)
Tick == /\ ~IsrReady
        /\ pc \in {"hold", "first_sync"} => ~FsyncHigh \/ elapsed < MinLoopBits
        /\ pos = FrameLen - 1 => pc \in {"idle", "configure", "done"}
        /\ pos' = (pos + 1) % FrameLen
        /\ timer' = Later(timer, 1)
        /\ elapsed' = IF elapsed < MinLoopBits THEN elapsed + 1 ELSE elapsed
        /\ in_s' = IF pos = FrameLen - 1
                     THEN [b \in T!Bufs |-> T!Aged(in_s[b])] ELSE in_s
        /\ UNCHANGED <<armed, isr_time, fsync_time, out_time>>
        /\ UNCHANGED <<pc, restart, current_buf_no, working_buf, safe_buf,
                       masked, last_out, first_frame, received>>

(* tdm_slave: port_reset(p_bclk) of tdm_slave_init_ports drops the       *)
(* trigger, and tdm_main_loop is entered.                                  *)
tdm_slave == /\ armed' = FALSE
             /\ pc' = "configure"
             /\ UNCHANGED <<pos, timer, isr_time, fsync_time, out_time, elapsed>>
             /\ T!tdm_slave

Configure == UNCHANGED timing /\ T!Configure

(* Mutant of FirstSync: the trigger set without frame_len.                 *)
FirstSyncNoFrameLen ==
    /\ pc = "first_sync"
    /\ HoldReturns
    /\ isr_time' = Later(timer', Offset + PortBufferBits)
    /\ armed' = TRUE
    /\ masked' = FALSE
    /\ out_time' = IF NumOut > 0 THEN Later(timer', FrameLen + Offset) ELSE out_time
    /\ pc' = IF restart = "NoRestart" THEN "hold" ELSE "configure"
    /\ UNCHANGED <<restart, current_buf_no, working_buf, safe_buf, last_out,
                   first_frame, received>>

(* Mutant of FirstSync: the trigger set without TDM_PORT_BUFFER_BITS.      *)
FirstSyncNoBufferBits ==
    /\ pc = "first_sync"
    /\ HoldReturns
    /\ isr_time' = Later(timer', FrameLen + Offset)
    /\ armed' = TRUE
    /\ masked' = FALSE
    /\ out_time' = IF NumOut > 0 THEN Later(timer', FrameLen + Offset) ELSE out_time
    /\ pc' = IF restart = "NoRestart" THEN "hold" ELSE "configure"
    /\ UNCHANGED <<restart, current_buf_no, working_buf, safe_buf, last_out,
                   first_frame, received>>

(* Mutant of FirstSync: interrupt_unmask_all left out.                    *)
FirstSyncMasked ==
    /\ pc = "first_sync"
    /\ HoldReturns
    /\ isr_time' = Later(timer', FrameLen + Offset + PortBufferBits)
    /\ armed' = TRUE
    /\ UNCHANGED masked
    /\ out_time' = IF NumOut > 0 THEN Later(timer', FrameLen + Offset) ELSE out_time
    /\ pc' = IF restart = "NoRestart" THEN "hold" ELSE "configure"
    /\ UNCHANGED <<restart, current_buf_no, working_buf, safe_buf, last_out,
                   first_frame, received>>

(* The first hold_for_frame_sync; the trigger of p_bclk set to            *)
(* fsync_time + frame_len + offset + TDM_PORT_BUFFER_BITS and enabled,    *)
(* interrupts unmasked, and preload_data queues the first word at         *)
(* fsync_time + frame_len + offset.                                        *)
FirstSync == /\ pc = "first_sync"
             /\ HoldReturns
             /\ isr_time' = Later(timer', FrameLen + Offset + PortBufferBits)
             /\ armed' = TRUE
             /\ masked' = FALSE
             /\ out_time' = IF NumOut > 0 THEN Later(timer', FrameLen + Offset) ELSE out_time
             /\ pc' = IF restart = "NoRestart" THEN "hold" ELSE "configure"
             /\ UNCHANGED <<restart, current_buf_no, working_buf, safe_buf,
                            last_out, first_frame, received>>

(* hold_for_frame_sync at the top of the frame loop.                      *)
NextFrameSync == /\ pc = "hold"
                 /\ HoldReturns
                 /\ pc' = "check"
                 /\ UNCHANGED <<armed, isr_time, out_time>>
                 /\ UNCHANGED <<restart, current_buf_no, working_buf, safe_buf,
                                masked, last_out, first_frame, received>>

restart_check == UNCHANGED timing /\ T!restart_check
process == UNCHANGED timing /\ T!process
CommitWorking == UNCHANGED timing /\ T!CommitWorking
CommitSafe == UNCHANGED timing /\ T!CommitSafe

(* Mutant of preload_data: the output time without the offset.            *)
PreloadNoOffset == /\ out_time' = IF NumOut > 0 THEN Later(fsync_time, FrameLen)
                                                ELSE out_time
                   /\ UNCHANGED <<pos, timer, armed, isr_time, fsync_time, elapsed>>
                   /\ T!preload_data

(* preload_data: port_out_at_time(fsync_time + frame_len + offset).        *)
preload_data == /\ out_time' = IF NumOut > 0 THEN Later(fsync_time, FrameLen + Offset)
                                             ELSE out_time
                /\ UNCHANGED <<pos, timer, armed, isr_time, fsync_time, elapsed>>
                /\ T!preload_data

(* Mutant of tdm_isr: the next trigger time computed as the time read    *)
(* back plus two frame lengths (a wrong constant in the re-arm).           *)
IsrTwoFrameLens == /\ IsrReady
                   /\ in_s' = IF NumIn > 0 /\ pc # "done"
                                THEN [in_s EXCEPT ![working_buf] = [age |-> 0, old |-> FALSE]]
                                ELSE in_s
                   /\ isr_time' = Later(isr_time, 2 * FrameLen)
                   /\ UNCHANGED <<pos, timer, armed, fsync_time, out_time, elapsed>>
                   /\ UNCHANGED <<pc, restart, current_buf_no, working_buf, safe_buf,
                                  masked, last_out, first_frame, received>>

(* tdm_isr at its trigger time: the capture goes to working_in_buffer     *)
(* (not once the loop has returned) and the trigger moves to the trigger  *)
(* time read back plus frame_len.                                          *)
tdm_isr == /\ IsrReady
           /\ in_s' = IF NumIn > 0 /\ pc # "done"
                        THEN [in_s EXCEPT ![working_buf] = [age |-> 0, old |-> FALSE]]
                        ELSE in_s
           /\ isr_time' = Later(isr_time, FrameLen)
           /\ UNCHANGED <<pos, timer, armed, fsync_time, out_time, elapsed>>
           /\ UNCHANGED <<pc, restart, current_buf_no, working_buf, safe_buf,
                          masked, last_out, first_frame, received>>

Next == \/ Tick \/ tdm_slave \/ Configure \/ FirstSync \/ NextFrameSync
        \/ restart_check \/ process \/ CommitWorking \/ CommitSafe
        \/ preload_data \/ tdm_isr

Spec == Init /\ [][Next]_vars

MainLoop == \/ tdm_slave \/ Configure \/ FirstSync \/ NextFrameSync
            \/ restart_check \/ process \/ CommitWorking \/ CommitSafe
            \/ preload_data

(* The bus master keeps clocking, the thread of tdm_main_loop is never    *)
(* descheduled, and a due trigger fires.                                   *)
FairSpec == /\ Spec
            /\ WF_vars(Tick)
            /\ WF_vars(MainLoop)
            /\ WF_vars(tdm_isr)

-----------------------------------------------------------------------------
TypeOK == /\ T!TypeOK
          /\ pos \in 0..FrameLen - 1
          /\ timer \in Stamps
          /\ armed \in BOOLEAN
          /\ isr_time \in Stamps
          /\ fsync_time \in Stamps
          /\ out_time \in Stamps
          /\ elapsed \in 0..MinLoopBits

(* The bit-level engine implements the frame engine: every frame-sync     *)
(* wait returns at one edge, tdm_isr fires once in each frame after the   *)
(* first sync, and no edge passes while it is due, so the frame-level     *)
(* behaviour TdmSlave checks is the code's behaviour in bit-clock time.   *)
TimingRefinesFrames == T!Spec

(* Under a bus that keeps clocking, the bit-level engine also meets the   *)
(* frame engine's fairness: frame-sync edges keep coming, the main loop   *)
(* keeps moving and an armed, unmasked trigger fires in its frame.        *)
FairTimingRefinesFrames == T!FairSpec

(* Spec section 8, offset: while the loop waits for frame sync, the word  *)
(* preload_data queued goes out at the next frame's sync edge plus the    *)
(* configured offset, across wrap-around of the 16-bit port counter.      *)
OutputAligned == pc = "hold" /\ NumOut > 0
                    => out_time = Later(timer, FrameLen - pos + Offset)

(* The inductive strengthening of OutputAligned: between the sync edge    *)
(* and preload_data, the timestamp hold_for_frame_sync returned is the    *)
(* counter value at the frame's start (FsyncAnchored); preload_data adds  *)
(* frame_len + offset to it, and while the loop waits the counter and the *)
(* position advance together.                                              *)
LoopPcs == {"check", "process", "commit", "commit_safe", "preload"}

FsyncAnchored == pc \in LoopPcs => fsync_time = (timer - pos) % Mod

OutputIInv == /\ pos \in 0..FrameLen - 1
              /\ timer \in Stamps
              /\ fsync_time \in Stamps
              /\ FsyncAnchored
              /\ OutputAligned

(* The armed trigger of tdm_isr lies offset + TDM_PORT_BUFFER_BITS bit    *)
(* clocks into this frame or the next: every capture reads the word of    *)
(* channels 0 and 1 just after it has been shifted in.                    *)
CaptureAligned == armed =>
                     TriggerAhead % FrameLen = (Offset + PortBufferBits) % FrameLen

(* The inductive strengthening of CaptureAligned. Before the first sync   *)
(* no trigger is armed, an armed trigger is never masked (interrupts are  *)
(* unmasked when it is enabled and masked again only by a new             *)
(* configuration), and within one call without restarts the outer loop   *)
(* runs once. So the counter never passes the trigger time without        *)
(* tdm_isr firing, and TriggerAhead changes only by whole frames.         *)
ArmedShape == /\ pc \in {"idle", "configure", "first_sync"} => ~armed
              /\ pc \in {"configure", "first_sync"} => restart = "NoRestart"
              /\ restart # "Restart"
              /\ armed => ~masked

CaptureIInv == /\ pos \in 0..FrameLen - 1
               /\ timer \in Stamps
               /\ isr_time \in Stamps
               /\ ArmedShape
               /\ CaptureAligned

(***************************************************************************)
(* The invariant the refinement TimingRefinesFrames rests on, besides     *)
(* CaptureIInv. Before the first sync no capture exists, so the aging a    *)
(* frame-sync edge implies changes nothing; inside the frame loop the     *)
(* bit clocks since hold_for_frame_sync returned are never more than the  *)
(* position in the frame, so the next wait cannot return without an edge.*)
(***************************************************************************)
NoCaptureYet == pc \in {"idle", "configure", "first_sync"}
                   => \A b \in T!Bufs : in_s[b].age = T!NoCapture

ElapsedInFrame == pc \in LoopPcs \cup {"hold"} => elapsed <= pos

RefineIInv == /\ TypeOK
              /\ CaptureIInv
              /\ NoCaptureYet
              /\ ElapsedInFrame
=============================================================================
