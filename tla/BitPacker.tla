------------------------------ MODULE BitPacker ------------------------------
(***************************************************************************)
(* The 16-bit data path of src/modules/i2s/src/tdm_slave.c: preload_data   *)
(* packs channels 0 and 1 of every output line with OUT16 and queues the   *)
(* word on the line's 32-bit buffered port; tdm_isr reads one word from    *)
(* an input port and unpacks it with IN16 into channels 0 and 1.           *)
(*                                                                         *)
(* A machine word is a function from bit index (0 = least significant) to *)
(* bit, so the xcore instructions zip, unzip and bitrev are the bit        *)
(* permutations they perform. The output and input ports shift the least  *)
(* significant bit first (xcore port hardware), which is what the bitrev   *)
(* in both macros compensates for. Output line l is looped back to input   *)
(* line l, as in the loopback scenario of the spec (section 8).            *)
(*                                                                         *)
(* The frame engine (which buffer is handed to whom) is TdmSlave's; here   *)
(* one frame's output buffer is packed, sent and captured.                 *)
(***************************************************************************)
EXTENDS Integers

CONSTANTS
    NumOut,     \* num_out
    NumIn,      \* num_in
    NumChans,   \* num_chans
    TestWords   \* the sample values process may write

VARIABLES
    phase,      \* which step of the frame's data path comes next
    tx,         \* tx[l][c]: channel c of line l of working_out_buffer
    wire,       \* wire[l]: the 32 bits on output line l, in time order
    rx          \* rx[l][c]: channel c of line l of working_in_buffer

vars == <<phase, tx, wire, rx>>

Bits == 0..31
Word == [Bits -> {0, 1}]
Zero == [i \in Bits |-> 0]
Transfer == [1..32 -> {0, 1}]

ASSUME LinesAssumption == /\ NumOut \in 1..4       \* TDM_MAX_PORTS
                          /\ NumIn = NumOut        \* loopback wiring
ASSUME ChansAssumption == /\ NumChans \in 2..16    \* TDM_MAX_CHANS
                          /\ TestWords \subseteq Word
                          /\ Zero \in TestWords

OutLines == 0..NumOut - 1
InLines == 0..NumIn - 1
Chans == 0..NumChans - 1

-----------------------------------------------------------------------------
(* The instructions of the macros. zip and unzip are used with s = 4: they *)
(* move 16-bit chunks of the 64-bit register pair d:e (d the high word).   *)
Chunk == 16

bitrev(w) == [i \in Bits |-> w[31 - i]]

(* zip d, e, 4: the chunks of d:e alternate e's and d's, lowest first.     *)
ZipLong(d, e) == [b \in 0..63 |->
                    LET k == b \div Chunk
                        j == (k \div 2) * Chunk + (b % Chunk)
                    IN  IF k % 2 = 0 THEN e[j] ELSE d[j]]

zip(d, e) == LET r == ZipLong(d, e)
             IN  <<[i \in Bits |-> r[i + 32]], [i \in Bits |-> r[i]]>>

(* unzip d, e, 4: odd chunks of d:e to d, even chunks to e.                *)
unzip(d, e) == LET r(b) == IF b < 32 THEN e[b] ELSE d[b - 32]
                   pick(parity) == [i \in Bits |->
                      r((2 * (i \div Chunk) + parity) * Chunk + (i % Chunk))]
               IN  <<pick(1), pick(0)>>

(* Mutant of OUT16: the operands of zip swapped.                           *)
Out16Swapped(X, Y) == LET z == zip(Y, X) IN <<z[1], bitrev(z[2])>>

(* OUT16(X, Y): zip X, Y, 4 then bitrev Y; returns <<X', Y'>>.             *)
OUT16(X, Y) == LET z == zip(X, Y) IN <<z[1], bitrev(z[2])>>

(* Mutant of IN16: the bitrev left out.                                    *)
In16NoBitrev(X, Y) == unzip(X, Y)

(* IN16(X, Y): bitrev Y then unzip X, Y, 4; returns <<X', Y'>>.            *)
IN16(X, Y) == unzip(X, bitrev(Y))

(* Port hardware: a buffered 32-bit port shifts bit 0 out (or in) first.   *)
PortOut(w) == [t \in 1..32 |-> w[t - 1]]
PortIn(s) == [i \in Bits |-> s[i + 1]]

-----------------------------------------------------------------------------
Init == /\ phase = "process"
        /\ tx = [l \in OutLines |-> [c \in Chans |-> Zero]]
        /\ wire = [l \in OutLines |-> PortOut(Zero)]
        /\ rx = [l \in InLines |-> [c \in Chans |-> Zero]]

(* process fills every channel of every output line of its buffer.        *)
process == /\ phase = "process"
           /\ \E f \in [OutLines -> [Chans -> TestWords]] : tx' = f
           /\ phase' = "preload"
           /\ UNCHANGED <<wire, rx>>

(* preload_data: for every output line, OUT16(channel[0], channel[1]) and *)
(* port_out_at_time of the second result.                                  *)
preload_data == /\ phase = "preload"
                /\ wire' = [l \in OutLines |->
                              PortOut(OUT16(tx[l][0], tx[l][1])[2])]
                /\ phase' = "capture"
                /\ UNCHANGED <<tx, rx>>

(* tdm_isr: the loop over the input lines breaks after line 0; d0 = 0,    *)
(* d1 = port_in, IN16(d0, d1) into channel[0] and channel[1].             *)
tdm_isr == /\ phase = "capture"
           /\ LET w == IN16(Zero, PortIn(wire[0]))
              IN  rx' = [rx EXCEPT ![0] = [@ EXCEPT ![0] = w[1], ![1] = w[2]]]
           /\ phase' = "process"
           /\ UNCHANGED <<tx, wire>>

Next == process \/ preload_data \/ tdm_isr

Spec == Init /\ [][Next]_vars

-----------------------------------------------------------------------------
TypeOK == /\ phase \in {"process", "preload", "capture"}
          /\ tx \in [OutLines -> [Chans -> Word]]
          /\ wire \in [OutLines -> Transfer]
          /\ rx \in [InLines -> [Chans -> Word]]

(* The TDM slot layout of a 16-bit frame: channel 0 in bit times 1..16,   *)
(* channel 1 in 17..32, each most significant bit first (tdm.h: the low   *)
(* num_data_bits bits of a sample are the signal).                         *)
SlotLayout(c0, c1) == [t \in 1..32 |-> IF t <= 16 THEN c0[16 - t]
                                                  ELSE c1[32 - t]]

Low16(w) == [i \in 0..15 |-> w[i]]

(* What preload_data queues on every output line puts channels 0 and 1 of *)
(* the line in their slots, most significant bit first: OUT16's zip and   *)
(* bitrev undo the port's least-significant-first shifting.               *)
WireOrder == phase = "capture" =>
                \A l \in OutLines : wire[l] = SlotLayout(tx[l][0], tx[l][1])

(* Spec section 8, loopback: once tdm_isr has captured a frame, every     *)
(* channel of every input line holds the 16-bit sample sent in it, so     *)
(* IN16 inverts OUT16 through the ports.                                   *)
LoopbackIntact == phase = "process" =>
                     \A l \in InLines, c \in Chans :
                        Low16(rx[l][c]) = Low16(tx[l][c])
=============================================================================
