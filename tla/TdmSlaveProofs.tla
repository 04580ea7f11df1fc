--------------------------- MODULE TdmSlaveProofs ---------------------------
(***************************************************************************)
(* Proofs about the TDM slave engine of TdmSlave.tla, for every value of  *)
(* the constants that satisfies PortsAssumption and BoundsAssumption.     *)
(***************************************************************************)
EXTENDS TdmSlave, TLAPS

USE PortsAssumption, BoundsAssumption

(* Aging a capture at a frame-sync edge keeps it a capture.               *)
LEMMA AgedType == ASSUME NEW c \in Capture PROVE Aged(c) \in Capture
BY DEF Aged, Capture, NoCapture

(* Edges move the trigger only between its states.                       *)
LEMMA TriggerAfterEdgeType == ASSUME NEW t \in TriggerStates
                              PROVE TriggerAfterEdge(t) \in TriggerStates
BY DEF TriggerAfterEdge, TriggerStates

(* Every step of the engine preserves the type invariant.                 *)
LEMMA TypeInductive == TypeOK /\ [Next]_vars => TypeOK'
  <2> SUFFICES ASSUME TypeOK, [Next]_vars PROVE TypeOK'
    OBVIOUS
  <2>1. FrameEnds => in_s' \in [Bufs -> Capture]
    BY AgedType DEF FrameEnds, TypeOK
  <2>2. CASE tdm_slave
    BY <2>2 DEF tdm_slave, tdm_slave_init_ports, MainLoopEntry, TypeOK, Pcs, RestartAnswers, Bufs, Capture,
                Zeroed, NoCapture, TriggerStates, NoBuf
  <2>3. CASE Configure
    <3>1. in_s' \in [Bufs -> Capture]
      BY <2>3 DEF Configure, TypeOK, Capture
    <3>2. received' \in Capture
      BY <2>3, <3>1 DEF Configure, TypeOK, Bufs
    <3>3. QED
      BY <2>3, <3>1, <3>2 DEF Configure, TypeOK, Pcs, Bufs, NoBuf
  <2>4. CASE FirstSync
    BY <2>1, <2>4 DEF FirstSync, TypeOK, Pcs, TriggerStates
  <2>5. CASE NextFrameSync
    BY <2>1, <2>5, TriggerAfterEdgeType DEF NextFrameSync, TypeOK, Pcs
  <2>6. CASE restart_check
    BY <2>6 DEF restart_check, TypeOK, Pcs, RestartAnswers
  <2>7. CASE process
    BY <2>7 DEF process, TypeOK, Pcs, Bufs, NoBuf
  <2>8. CASE CommitWorking
    BY <2>8 DEF CommitWorking, TypeOK, Pcs, Bufs
  <2>9. CASE CommitSafe
    BY <2>9 DEF CommitSafe, TypeOK, Pcs
  <2>10. CASE preload_data
    BY <2>10 DEF preload_data, TypeOK, Pcs
  <2>11. CASE tdm_isr
    BY <2>11 DEF tdm_isr, TypeOK, Capture, NoCapture, TriggerStates
  <2>12. CASE FsyncEdge
    BY <2>1, <2>12, TriggerAfterEdgeType DEF FsyncEdge, TypeOK
  <2>13. CASE UNCHANGED vars
    BY <2>13 DEF vars, TypeOK
  <2>14. QED
    BY <2>2, <2>3, <2>4, <2>5, <2>6, <2>7, <2>8, <2>9, <2>10, <2>11, <2>12,
       <2>13 DEF Next, MainLoop

(* The initial state is well typed.                                       *)
LEMMA InitType == Init => TypeOK
<1> SUFFICES ASSUME Init PROVE TypeOK
  OBVIOUS
<1>1. Zeroed \in Capture
  BY DEF Zeroed, Capture
<1>2. in_s \in [Bufs -> Capture]
  BY <1>1 DEF Init
<1>3. received \in Capture
  BY <1>1 DEF Init
<1>4. /\ pc \in Pcs /\ restart \in RestartAnswers /\ trigger \in TriggerStates
      /\ current_buf_no \in Bufs /\ working_buf \in Bufs /\ safe_buf \in Bufs
      /\ last_out \in Bufs \cup {NoBuf}
  BY DEF Init, Pcs, RestartAnswers, TriggerStates, Bufs, NoBuf
<1>5. masked \in BOOLEAN /\ first_frame \in BOOLEAN
  BY Zenon DEF Init
<1>6. restarts \in 0..MaxRestarts /\ sessions \in 0..MaxSessions
  BY DEF Init
<1>7. QED
  BY <1>2, <1>3, <1>4, <1>5, <1>6 DEF TypeOK

(* TypeOK, the type invariant of TdmSlave, holds in every reachable state *)
(* of the engine: main loop, interrupt and bus together.                  *)
THEOREM TypeCorrect == Spec => []TypeOK
BY InitType, TypeInductive, PTL DEF Spec

-----------------------------------------------------------------------------
(***************************************************************************)
(* For one call of tdm_slave, the word preload_data queues is always      *)
(* taken from the buffer process filled last (the priming call included): *)
(* commit_buffers never hands the transmit path a buffer the application  *)
(* has not just written. OutputIInv is the inductive strengthening.       *)
(***************************************************************************)
LEMMA OutputInit == ASSUME MaxSessions = 1 PROVE Init => OutputIInv
BY InitType DEF Init, OutputIInv, CallShape, SelectorAgrees, LastOutTracked

LEMMA OutputStep == ASSUME MaxSessions = 1
                    PROVE OutputIInv /\ [Next]_vars => OutputIInv'
<1> SUFFICES ASSUME OutputIInv, [Next]_vars PROVE OutputIInv'
  OBVIOUS
<1>1. TypeOK'
  BY TypeInductive DEF OutputIInv
<1> USE DEF OutputIInv, CallShape, SelectorAgrees, LastOutTracked
<1>2. CASE tdm_slave
  <2>1. sessions = 0 /\ pc = "idle" /\ current_buf_no = 0
    BY <1>2 DEF tdm_slave, TypeOK
  <2>2. QED
    BY <1>1, <1>2, <2>1 DEF tdm_slave, tdm_slave_init_ports, MainLoopEntry
<1>3. CASE Configure
  <2>1. /\ pc' = "first_sync" /\ sessions' = sessions /\ sessions # 0
        /\ working_buf' = current_buf_no
        /\ current_buf_no' = 1 - current_buf_no
        /\ safe_buf' = 1 - current_buf_no
        /\ safe_buf = current_buf_no
    BY <1>3 DEF Configure
  <2>2. NumOut > 0 => last_out' = safe_buf
    BY <1>3 DEF Configure
  <2>3. current_buf_no \in {0, 1}
    BY DEF TypeOK, Bufs
  <2>4. QED
    BY <1>1, <2>1, <2>2, <2>3
<1>4. CASE FirstSync
  BY <1>1, <1>4 DEF FirstSync, TypeOK
<1>5. CASE NextFrameSync
  BY <1>1, <1>5 DEF NextFrameSync, TypeOK
<1>6. CASE restart_check
  BY <1>1, <1>6 DEF restart_check, TypeOK
<1>7. CASE process
  BY <1>1, <1>7 DEF process, TypeOK
<1>8. CASE CommitWorking
  <2>1. /\ pc = "commit" /\ pc' = "commit_safe"
        /\ working_buf' = current_buf_no
        /\ current_buf_no' = 1 - current_buf_no
        /\ UNCHANGED <<safe_buf, last_out, sessions>>
    BY <1>8 DEF CommitWorking
  <2>2. current_buf_no \in {0, 1}
    BY DEF TypeOK, Bufs
  <2>3. QED
    BY <1>1, <2>1, <2>2
<1>9. CASE CommitSafe
  BY <1>1, <1>9 DEF CommitSafe, TypeOK, Bufs
<1>10. CASE preload_data
  BY <1>1, <1>10 DEF preload_data, TypeOK
<1>11. CASE tdm_isr
  BY <1>1, <1>11 DEF tdm_isr, TypeOK
<1>12. CASE FsyncEdge
  BY <1>1, <1>12 DEF FsyncEdge, FrameEnds, TypeOK
<1>13. CASE UNCHANGED vars
  BY <1>1, <1>13 DEF vars, TypeOK
<1>14. QED
  BY <1>2, <1>3, <1>4, <1>5, <1>6, <1>7, <1>8, <1>9, <1>10, <1>11, <1>12,
     <1>13 DEF Next, MainLoop

(* TransmitsLatestOutput holds in every reachable state of one call of    *)
(* tdm_slave, for any number of lines, restarts and any interrupt timing. *)
THEOREM OutputPath == ASSUME MaxSessions = 1
                      PROVE Spec => []TransmitsLatestOutput
<1>1. OutputIInv => TransmitsLatestOutput
  BY DEF OutputIInv, LastOutTracked, TransmitsLatestOutput
<1>2. QED
  BY <1>1, OutputInit, OutputStep, PTL DEF Spec

(* The inductive invariant of the output path itself: in one call of     *)
(* tdm_slave the pointers working/safe of tdm_main_loop, the selector     *)
(* current_buf_no of commit_buffers and the buffer preload_data sent last *)
(* agree at every step, across restarts and any interrupt timing.         *)
THEOREM OutputIInvHolds == ASSUME MaxSessions = 1
                           PROVE Spec => []OutputIInv
BY OutputInit, OutputStep, PTL DEF Spec


-----------------------------------------------------------------------------
(***************************************************************************)
(* FreshDelivery, through FreshIInv: when process returns after the       *)
(* frame's interrupt, every process call but the first after init reads   *)
(* the capture of the previous frame, for any number of calls, restarts   *)
(* and lines.                                                              *)
(***************************************************************************)
LEMMA FreshInit == Init => FreshIInv
BY InitType DEF Init, FreshIInv, LoopSelectors, TriggerInLoop, CaptureFollowed

(* A frame-sync edge turns this frame's capture into last frame's.         *)
LEMMA AgedZero == ASSUME NEW c \in Capture, c.age = 0 PROVE Aged(c).age = 1
BY DEF Aged, Capture, NoCapture

LEMMA FreshStep == ASSUME IsrBeforeCommit = TRUE
                   PROVE  FreshIInv /\ [Next]_vars => FreshIInv'
<1> SUFFICES ASSUME FreshIInv, [Next]_vars PROVE FreshIInv'
  OBVIOUS
<1>1. TypeOK'
  BY TypeInductive DEF FreshIInv
<1> USE DEF FreshIInv, LoopSelectors, TriggerInLoop, CaptureFollowed
<1>2. CASE tdm_slave
  BY <1>1, <1>2 DEF tdm_slave, MainLoopEntry
<1>3. CASE Configure
  BY <1>1, <1>3 DEF Configure, TypeOK, Bufs
<1>4. CASE FirstSync
  BY <1>1, <1>4 DEF FirstSync
<1>5. CASE NextFrameSync
  <2>1. /\ pc = "hold" /\ pc' = "check" /\ trigger = "NextFrame"
        /\ trigger' = "ThisFrame"
        /\ in_s' = [b \in Bufs |-> Aged(in_s[b])]
        /\ UNCHANGED <<safe_buf, working_buf, current_buf_no, first_frame>>
    BY <1>5 DEF NextFrameSync, FrameEnds, TriggerAfterEdge
  <2>2. NumIn > 0 /\ ~first_frame => in_s'[safe_buf].age = 1
    BY <2>1, AgedZero DEF TypeOK, Bufs
  <2>3. QED
    BY <1>1, <2>1, <2>2
<1>6. CASE restart_check
  BY <1>1, <1>6 DEF restart_check
<1>7. CASE process
  <2>1. /\ pc = "process" /\ pc' = "commit" /\ trigger = "NextFrame"
        /\ UNCHANGED <<in_s, trigger, safe_buf, working_buf, current_buf_no>>
    BY <1>7 DEF process
  <2>2. QED
    BY <1>1, <1>7, <2>1 DEF process
<1>8. CASE CommitWorking
  <2>1. /\ pc = "commit" /\ pc' = "commit_safe"
        /\ working_buf' = current_buf_no
        /\ current_buf_no' = 1 - current_buf_no
        /\ UNCHANGED <<in_s, trigger, safe_buf, first_frame>>
    BY <1>8 DEF CommitWorking
  <2>2. current_buf_no \in {0, 1}
    BY DEF TypeOK, Bufs
  <2>3. QED
    BY <1>1, <2>1, <2>2
<1>9. CASE CommitSafe
  BY <1>1, <1>9 DEF CommitSafe, TypeOK, Bufs
<1>10. CASE preload_data
  BY <1>1, <1>10 DEF preload_data
<1>11. CASE tdm_isr
  <2>1. /\ trigger = "ThisFrame" /\ trigger' = "NextFrame"
        /\ UNCHANGED <<pc, safe_buf, working_buf, current_buf_no, first_frame>>
    BY <1>11 DEF tdm_isr, IsrDue
  <2>2. pc \in {"check", "process"} => working_buf # safe_buf
    BY DEF TypeOK, Bufs
  <2>3. CASE NumIn > 0 /\ pc # "done"
    <3>1. in_s' = [in_s EXCEPT ![working_buf] = [age |-> 0, old |-> FALSE]]
      BY <1>11, <2>3 DEF tdm_isr
    <3>2. QED
      BY <1>1, <2>1, <2>2, <3>1 DEF TypeOK
  <2>4. CASE ~(NumIn > 0 /\ pc # "done")
    <3>1. in_s' = in_s
      BY <1>11, <2>4 DEF tdm_isr
    <3>2. QED
      BY <1>1, <2>1, <2>4, <3>1
  <2>5. QED
    BY <2>3, <2>4
<1>12. CASE FsyncEdge
  BY <1>1, <1>12 DEF FsyncEdge
<1>13. CASE UNCHANGED vars
  BY <1>1, <1>13 DEF vars
<1>14. QED
  BY <1>2, <1>3, <1>4, <1>5, <1>6, <1>7, <1>8, <1>9, <1>10, <1>11, <1>12,
     <1>13 DEF Next, MainLoop

(* tdm.h, tdm_process_t: when the process callback returns after the       *)
(* frame's interrupt, every call but the first after an init is given the *)
(* capture tdm_isr made one frame earlier, through any number of commits, *)
(* restarts and calls of tdm_slave.                                        *)
THEOREM FreshDeliveryHolds == ASSUME IsrBeforeCommit = TRUE
                              PROVE  Spec => []FreshDelivery
<1>1. FreshIInv => FreshDelivery
  BY DEF FreshIInv, CaptureFollowed, FreshDelivery
<1>2. QED
  BY <1>1, FreshInit, FreshStep, PTL DEF Spec
=============================================================================
