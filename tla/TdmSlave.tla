------------------------------ MODULE TdmSlave ------------------------------
(***************************************************************************)
(* The TDM slave frame engine of src/modules/i2s/src/tdm_slave.c: the main *)
(* loop tdm_main_loop (one hardware thread), the frame interrupt tdm_isr   *)
(* that preempts it, the double buffers in_s/out_s with the selector       *)
(* current_buf_no, and the restart state machine.                          *)
(*                                                                         *)
(* Data is abstracted to what the properties tell apart: an input buffer   *)
(* holds the capture of some frame, recorded as its age in frames (how     *)
(* many frame-sync edges ago the interrupt wrote it) and whether it was    *)
(* captured before the current configuration; an output buffer is only     *)
(* tracked through the ghost last_out (the buffer process last filled).    *)
(* Time is abstracted to frames: the interrupt fires once per frame, at    *)
(* offset + 32 bit clocks after the frame-sync edge, i.e. at some point of *)
(* the main loop's iteration for that frame and before the next edge.      *)
(***************************************************************************)
EXTENDS Integers

CONSTANTS
    NumOut,          \* num_out: number of output data lines
    NumIn,           \* num_in: number of input data lines
    MaxPorts,        \* TDM_MAX_PORTS
    AgeCap,          \* ages of captures saturate here: AgeCap means ">= AgeCap"
    MaxRestarts,     \* bound on the TDM_RESTART answers of restart_check
    MaxSessions,     \* bound on the calls of tdm_slave
    IsrBeforeCommit  \* timing: process runs past the frame's interrupt

ASSUME PortsAssumption == /\ MaxPorts \in Nat
                          /\ NumOut \in 0..MaxPorts
                          /\ NumIn \in 0..MaxPorts
ASSUME BoundsAssumption == /\ AgeCap \in Nat \ {0, 1}
                           /\ MaxRestarts \in Nat
                           /\ MaxSessions \in Nat \ {0}
                           /\ IsrBeforeCommit \in BOOLEAN

VARIABLES
    pc,             \* where tdm_main_loop is; "idle" before tdm_slave is called
    restart,        \* the local restart of tdm_main_loop
    current_buf_no, \* the static selector of commit_buffers
    working_buf,    \* tdm_interrupt_data.working_in/out_buffer (same index)
    safe_buf,       \* safe_in_buffer / safe_out_buffer (same index)
    in_s,           \* capture held by channels 0..1 of in_s.buffer[b]
    masked,         \* interrupt_mask_all in force on the thread
    trigger,        \* state of the p_bclk time trigger that raises tdm_isr
    last_out,       \* ghost: out_s buffer most recently filled by process
    first_frame,    \* ghost: no inner-loop process call since the last init
    received,       \* ghost: the capture the last process call was given
    restarts,       \* ghost: TDM_RESTART answers so far (bounded)
    sessions        \* ghost: calls of tdm_slave so far (bounded)

vars == <<pc, restart, current_buf_no, working_buf, safe_buf, in_s, masked,
          trigger, last_out, first_frame, received, restarts, sessions>>

Bufs == {0, 1}
NoCapture == -1         \* the memset contents: no frame captured into it
NoBuf == 2              \* last_out before any process call of the call
Capture == [age : {NoCapture} \cup 0..AgeCap, old : BOOLEAN]
Zeroed == [age |-> NoCapture, old |-> FALSE]
RestartAnswers == {"NoRestart", "Restart", "Shutdown"}
TriggerStates == {"Off", "NextFrame", "ThisFrame", "Missed"}
Pcs == {"idle", "configure", "first_sync", "hold", "check", "process",
        "commit", "commit_safe", "preload", "done"}

(* One more frame-sync edge has passed: every capture is a frame older.   *)
Aged(c) == IF c.age = NoCapture \/ c.age = AgeCap THEN c
           ELSE [c EXCEPT !.age = @ + 1]

(* The edge also moves the trigger time of tdm_isr one frame closer.      *)
TriggerAfterEdge(t) == CASE t = "NextFrame" -> "ThisFrame"
                         [] t = "ThisFrame" -> "Missed"
                         [] OTHER           -> t

(* The interrupt of the current frame has not fired and can fire now.     *)
IsrDue == trigger = "ThisFrame" /\ ~masked

(* A frame-sync edge can only come once this frame's interrupt is served: *)
(* it fires offset + 32 bit clocks into the frame.                         *)
FrameEnds == /\ ~IsrDue
             /\ in_s' = [b \in Bufs |-> Aged(in_s[b])]

-----------------------------------------------------------------------------
Init == /\ pc = "idle"
        /\ restart = "NoRestart"
        /\ current_buf_no = 0
        /\ working_buf = 1
        /\ safe_buf = 0
        /\ in_s = [b \in Bufs |-> Zeroed]
        /\ masked = FALSE
        /\ trigger = "Off"
        /\ last_out = NoBuf
        /\ first_frame = TRUE
        /\ received = Zeroed
        /\ restarts = 0
        /\ sessions = 0

(* tdm_slave_init_ports: port_reset(p_bclk) drops any time trigger left  *)
(* on the bit-clock port; the rest only configures hardware.              *)
tdm_slave_init_ports == trigger' = "Off"

(* Entry of tdm_main_loop: the locals are zeroed and point working at     *)
(* buffer 1 and safe at buffer 0; the static current_buf_no is untouched. *)
MainLoopEntry == /\ pc' = "configure"
                 /\ restart' = "NoRestart"
                 /\ working_buf' = 1
                 /\ safe_buf' = 0
                 /\ in_s' = [b \in Bufs |-> Zeroed]
                 /\ last_out' = NoBuf
                 /\ first_frame' = TRUE
                 /\ received' = Zeroed

(* tdm_slave is called (again only after an earlier call has returned):   *)
(* the configuration asserts hold by PortsAssumption, the ports are       *)
(* initialised and tdm_main_loop is entered.                              *)
tdm_slave == /\ pc \in {"idle", "done"}
             /\ sessions < MaxSessions
             /\ sessions' = sessions + 1
             /\ tdm_slave_init_ports
             /\ MainLoopEntry
             /\ UNCHANGED <<current_buf_no, masked, restarts>>

(* Top of the outer loop, interrupts masked: init callback, polarity and  *)
(* offset, the priming process call when there are outputs, and           *)
(* commit_buffers.                                                         *)
Configure == /\ pc = "configure"
             /\ masked' = TRUE
             /\ in_s' = [b \in Bufs |-> [in_s[b] EXCEPT !.old = @ \/ in_s[b].age # NoCapture]]
             /\ IF NumOut > 0
                  THEN /\ last_out' = safe_buf
                       /\ received' = in_s'[safe_buf]
                  ELSE UNCHANGED <<last_out, received>>
             /\ working_buf' = current_buf_no
             /\ current_buf_no' = 1 - current_buf_no
             /\ safe_buf' = 1 - current_buf_no
             /\ first_frame' = TRUE
             /\ pc' = "first_sync"
             /\ UNCHANGED <<restart, trigger, restarts, sessions>>

(* A frame-sync edge while the main loop is not waiting for one.          *)
(* Under the callback contract this happens only outside the frame loop.  *)
FsyncEdge == /\ pc \in {"idle", "configure", "done"}
             /\ FrameEnds
             /\ trigger' = TriggerAfterEdge(trigger)
             /\ UNCHANGED <<pc, restart, current_buf_no, working_buf, safe_buf,
                            masked, last_out, first_frame, received, restarts,
                            sessions>>

(* hold_for_frame_sync anchors the run; the trigger is set up for the     *)
(* next frame, interrupts are unmasked, the ports cleared and the first   *)
(* frame preloaded. The inner loop runs only while restart = NoRestart.  *)
FirstSync == /\ pc = "first_sync"
             /\ FrameEnds
             /\ trigger' = "NextFrame"
             /\ masked' = FALSE
             /\ pc' = IF restart = "NoRestart" THEN "hold" ELSE "configure"
             /\ UNCHANGED <<restart, current_buf_no, working_buf, safe_buf,
                            last_out, first_frame, received, restarts, sessions>>

(* hold_for_frame_sync in the inner loop.                                 *)
NextFrameSync == /\ pc = "hold"
                 /\ FrameEnds
                 /\ trigger' = TriggerAfterEdge(trigger)
                 /\ pc' = "check"
                 /\ UNCHANGED <<restart, current_buf_no, working_buf, safe_buf,
                                masked, last_out, first_frame, received,
                                restarts, sessions>>

(* The application's restart_check callback answers.                      *)
restart_check == /\ pc = "check"
                 /\ \E r \in RestartAnswers :
                       /\ r = "Restart" => restarts < MaxRestarts
                       /\ restart' = r
                       /\ restarts' = IF r = "Restart" THEN restarts + 1 ELSE restarts
                 /\ pc' = "process"
                 /\ UNCHANGED <<current_buf_no, working_buf, safe_buf, in_s,
                                masked, trigger, last_out, first_frame,
                                received, sessions>>

(* The application's process callback reads safe_in_buffer and fills     *)
(* safe_out_buffer; it returns after the frame's interrupt when           *)
(* IsrBeforeCommit holds.                                                  *)
process == /\ pc = "process"
           /\ IsrBeforeCommit => trigger # "ThisFrame"
           /\ last_out' = safe_buf
           /\ received' = in_s[safe_buf]
           /\ first_frame' = FALSE
           /\ pc' = "commit"
           /\ UNCHANGED <<restart, current_buf_no, working_buf, safe_buf, in_s,
                          masked, trigger, restarts, sessions>>

(* commit_buffers, first half: the working pointers take current_buf_no,  *)
(* which is then flipped. Interrupts are not masked here.                 *)
CommitFlipFirst == /\ pc = "commit"
                   /\ current_buf_no' = 1 - current_buf_no
                   /\ working_buf' = 1 - current_buf_no
                   /\ pc' = "commit_safe"
                   /\ UNCHANGED <<restart, safe_buf, in_s, masked, trigger,
                                  last_out, first_frame, received, restarts,
                                  sessions>>

CommitWorking == /\ pc = "commit"
                 /\ working_buf' = current_buf_no
                 /\ current_buf_no' = 1 - current_buf_no
                 /\ pc' = "commit_safe"
                 /\ UNCHANGED <<restart, safe_buf, in_s, masked, trigger,
                                last_out, first_frame, received, restarts,
                                sessions>>

(* commit_buffers, second half: the safe pointers take the new selector.  *)
CommitSafe == /\ pc = "commit_safe"
              /\ safe_buf' = current_buf_no
              /\ pc' = "preload"
              /\ UNCHANGED <<restart, current_buf_no, working_buf, in_s, masked,
                             trigger, last_out, first_frame, received,
                             restarts, sessions>>

(* preload_data queues working_out_buffer for the next frame; then the    *)
(* inner and outer loop conditions are tested.                             *)
preload_data == /\ pc = "preload"
                /\ pc' = CASE restart = "NoRestart" -> "hold"
                           [] restart = "Restart"   -> "configure"
                           [] OTHER                 -> "done"
                /\ UNCHANGED <<restart, current_buf_no, working_buf, safe_buf,
                               in_s, masked, trigger, last_out, first_frame,
                               received, restarts, sessions>>

(* Mutant of tdm_isr: schedules itself two frames ahead.                  *)
IsrTwoFrames == /\ IsrDue
                /\ in_s' = IF NumIn > 0 /\ pc # "done"
                             THEN [in_s EXCEPT ![working_buf] = [age |-> 0, old |-> FALSE]]
                             ELSE in_s
                /\ trigger' = "TwoFrames"
                /\ UNCHANGED <<pc, restart, current_buf_no, working_buf, safe_buf,
                               masked, last_out, first_frame, received,
                               restarts, sessions>>

(* Mutant of tdm_isr: writes through the safe pointer.                    *)
IsrIntoSafe == /\ IsrDue
               /\ in_s' = IF NumIn > 0 /\ pc # "done"
                            THEN [in_s EXCEPT ![safe_buf] = [age |-> 0, old |-> FALSE]]
                            ELSE in_s
               /\ trigger' = "NextFrame"
               /\ UNCHANGED <<pc, restart, current_buf_no, working_buf, safe_buf,
                              masked, last_out, first_frame, received,
                              restarts, sessions>>

(* tdm_isr: captures the first word of input line 0 into channels 0..1 of *)
(* the working input buffer and re-arms itself one frame later. After     *)
(* tdm_main_loop has returned it still fires, its data pointing into a    *)
(* dead stack frame: the model's buffers are no longer written then.      *)
tdm_isr == /\ IsrDue
           /\ in_s' = IF NumIn > 0 /\ pc # "done"
                        THEN [in_s EXCEPT ![working_buf] = [age |-> 0, old |-> FALSE]]
                        ELSE in_s
           /\ trigger' = "NextFrame"
           /\ UNCHANGED <<pc, restart, current_buf_no, working_buf, safe_buf,
                          masked, last_out, first_frame, received,
                          restarts, sessions>>

MainLoop == \/ tdm_slave \/ Configure \/ FirstSync \/ NextFrameSync
            \/ restart_check \/ process \/ CommitWorking \/ CommitSafe
            \/ preload_data

Next == MainLoop \/ tdm_isr \/ FsyncEdge

Spec == Init /\ [][Next]_vars

(* The thread running tdm_main_loop is never descheduled, the bus master  *)
(* keeps producing frame-sync edges and an armed, unmasked trigger fires. *)
FairSpec == /\ Spec
            /\ WF_vars(MainLoop)
            /\ WF_vars(tdm_isr)
            /\ WF_vars(FsyncEdge)

-----------------------------------------------------------------------------
(* Type invariant.                                                         *)
TypeOK == /\ pc \in Pcs
          /\ restart \in RestartAnswers
          /\ current_buf_no \in Bufs
          /\ working_buf \in Bufs
          /\ safe_buf \in Bufs
          /\ in_s \in [Bufs -> Capture]
          /\ masked \in BOOLEAN
          /\ trigger \in TriggerStates
          /\ last_out \in Bufs \cup {NoBuf}
          /\ first_frame \in BOOLEAN
          /\ received \in Capture
          /\ restarts \in 0..MaxRestarts
          /\ sessions \in 0..MaxSessions

(* tdm.h, tdm_process_t: process "will be called with a buffer of data    *)
(* received during the previous frame". Apart from the first call after   *)
(* init, the input buffer handed to process holds the capture tdm_isr     *)
(* made one frame-sync edge ago.                                          *)
FreshDelivery == (pc = "process" /\ ~first_frame /\ NumIn > 0)
                    => in_s[safe_buf].age = 1

(* The word preload_data queues (at first sync and after every commit) is *)
(* taken from the output buffer that process filled last: commit_buffers  *)
(* hands the application's buffer to the transmit path.                   *)
TransmitsLatestOutput == (pc \in {"first_sync", "preload"} /\ NumOut > 0)
                            => working_buf = last_out

(* Spec 4.4, RESTARTING: buffer contents are not preserved across a       *)
(* restart. No process call is handed data captured under an earlier      *)
(* configuration.                                                          *)
NoStaleDelivery == ~received.old

(* Spec 4.4, SHUTDOWN: after the engine exits there is no further bus     *)
(* activity. Once tdm_main_loop has returned, no trigger of p_bclk is     *)
(* left armed to run tdm_isr on its dead stack frame.                     *)
ExitDisarms == pc = "done" => trigger = "Off"

(* Spec 4.4, RESTARTING returns to INIT and then RUNNING: after           *)
(* restart_check asks for a restart the engine polls restart_check again. *)
RestartResumesFrames == (pc = "configure" /\ restart = "Restart") ~> (pc = "check")

-----------------------------------------------------------------------------
(***************************************************************************)
(* The inductive invariant behind TransmitsLatestOutput for one call of   *)
(* tdm_slave: the locals safe_buf and working_buf agree with the static   *)
(* current_buf_no everywhere but inside commit_buffers, and last_out is   *)
(* where preload_data will look for it.                                   *)
(***************************************************************************)
CallShape == /\ (pc = "idle") <=> (sessions = 0)
             /\ pc = "idle" => current_buf_no = 0

SelectorAgrees ==
    /\ pc \notin {"idle", "commit_safe"} =>
          /\ safe_buf = current_buf_no
          /\ pc # "configure" => working_buf = 1 - current_buf_no
    /\ pc = "commit_safe" =>
          /\ safe_buf = 1 - current_buf_no
          /\ working_buf = 1 - current_buf_no

LastOutTracked ==
    NumOut > 0 =>
       /\ pc \in {"first_sync", "commit_safe", "preload"} => last_out = working_buf
       /\ pc = "commit" => last_out = safe_buf

(* The selector of commit_buffers and the engine's buffer pointers stay   *)
(* consistent through init, commits and restarts of one call.             *)
OutputIInv == /\ TypeOK
              /\ CallShape
              /\ SelectorAgrees
              /\ LastOutTracked

-----------------------------------------------------------------------------
(***************************************************************************)
(* The inductive invariant behind FreshDelivery, for a process callback   *)
(* that returns after the frame's interrupt (IsrBeforeCommit). Through    *)
(* one iteration of the frame loop the capture tdm_isr made this frame    *)
(* (age 0) is followed: in working_in_buffer until commit_buffers, then    *)
(* in the buffer the flipped selector names, then in safe_in_buffer, which *)
(* the next frame-sync edge ages to 1 before process reads it. The         *)
(* pointers are consistent with the selector from the first sync on, for  *)
(* any number of calls of tdm_slave.                                       *)
(***************************************************************************)
LoopSelectors ==
    /\ pc \in {"first_sync", "hold", "check", "process", "commit", "preload"} =>
          /\ safe_buf = current_buf_no
          /\ working_buf = 1 - current_buf_no
    /\ pc = "commit_safe" =>
          /\ safe_buf = 1 - current_buf_no
          /\ working_buf = 1 - current_buf_no

TriggerInLoop ==
    /\ pc \in {"hold", "commit", "commit_safe", "preload"} => trigger = "NextFrame"
    /\ pc \in {"check", "process"} => trigger \in {"ThisFrame", "NextFrame"}

CaptureFollowed ==
  /\ pc = "first_sync" => first_frame
  /\ NumIn > 0 =>
       /\ pc \in {"check", "process"} /\ trigger = "NextFrame"
             => in_s[working_buf].age = 0
       /\ pc = "commit" => in_s[working_buf].age = 0
       /\ pc = "commit_safe" => in_s[current_buf_no].age = 0
       /\ pc = "preload" \/ (pc = "hold" /\ ~first_frame)
             => in_s[safe_buf].age = 0
       /\ pc \in {"check", "process"} /\ ~first_frame
             => in_s[safe_buf].age = 1

FreshIInv == /\ TypeOK
             /\ LoopSelectors
             /\ TriggerInLoop
             /\ CaptureFollowed
=============================================================================
