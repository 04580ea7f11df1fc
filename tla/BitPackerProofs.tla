-------------------------- MODULE BitPackerProofs --------------------------
(***************************************************************************)
(* Proofs about the 16-bit data path of BitPacker.tla for every pair of   *)
(* 32-bit sample words, where TLC checks the words with one bit set.       *)
(***************************************************************************)
EXTENDS BitPacker, TLAPS

USE LinesAssumption, ChansAssumption

(* OUT16 followed by the port's shifting puts channel 0 and then channel 1 *)
(* on the wire, each most significant bit first.                           *)
LEMMA Out16Wire == ASSUME NEW a \in Word, NEW b \in Word
                   PROVE  PortOut(OUT16(a, b)[2]) = SlotLayout(a, b)
<1> DEFINE z == ZipLong(a, b)
<1>1. \A i \in 0..31 : z[i] = IF i < 16 THEN b[i] ELSE a[i - 16]
  BY DEF ZipLong, Chunk, Word
<1>2. OUT16(a, b)[2] = [i \in Bits |-> z[31 - i]]
  BY DEF OUT16, zip, bitrev, Bits
<1>3. QED
  BY <1>1, <1>2 DEF PortOut, SlotLayout, Bits

(* IN16 of what the input port reads from that wire gives channel 0 and   *)
(* channel 1 back in the low 16 bits.                                      *)
LEMMA In16Slots == ASSUME NEW a \in Word, NEW b \in Word
                   PROVE  LET w == IN16(Zero, PortIn(SlotLayout(a, b)))
                          IN  /\ Low16(w[1]) = Low16(a)
                              /\ Low16(w[2]) = Low16(b)
<1> DEFINE y == bitrev(PortIn(SlotLayout(a, b)))
<1>1. \A i \in 0..31 : y[i] = IF i < 16 THEN b[i] ELSE a[i - 16]
  BY DEF bitrev, PortIn, SlotLayout, Bits, Word
<1>2. IN16(Zero, PortIn(SlotLayout(a, b))) = unzip(Zero, y)
  BY DEF IN16
<1>3. \A i \in 0..15 : unzip(Zero, y)[1][i] = y[16 + i]
  BY DEF unzip, Chunk, Bits
<1>4. \A i \in 0..15 : unzip(Zero, y)[2][i] = y[i]
  BY DEF unzip, Chunk, Bits
<1>5. QED
  BY <1>1, <1>2, <1>3, <1>4 DEF Low16

(* What the data path writes is well typed.                                *)
LEMMA PackTypes == ASSUME NEW a \in Word, NEW b \in Word, NEW x \in Transfer
                   PROVE  /\ PortOut(OUT16(a, b)[2]) \in Transfer
                          /\ IN16(Zero, PortIn(x))[1] \in Word
                          /\ IN16(Zero, PortIn(x))[2] \in Word
<1>0. SlotLayout(a, b) \in Transfer
  BY DEF SlotLayout, Word, Transfer, Bits
<1>1. PortOut(OUT16(a, b)[2]) \in Transfer
  BY <1>0, Out16Wire
<1>2. bitrev(PortIn(x)) \in Word
  BY DEF bitrev, PortIn, Word, Transfer, Bits
<1>3. /\ IN16(Zero, PortIn(x))[1] \in Word
      /\ IN16(Zero, PortIn(x))[2] \in Word
  BY <1>2 DEF IN16, unzip, Chunk, Zero, Word, Bits
<1>4. QED
  BY <1>1, <1>3

(* Every step of the data path preserves the type invariant.               *)
LEMMA TypeInductive == TypeOK /\ [Next]_vars => TypeOK'
<1> SUFFICES ASSUME TypeOK, [Next]_vars PROVE TypeOK'
  OBVIOUS
<1>1. CASE process
  BY <1>1 DEF process, TypeOK
<1>2. CASE preload_data
  <2>1. \A l \in OutLines : tx[l][0] \in Word /\ tx[l][1] \in Word
    BY DEF TypeOK, Chans
  <2>2. QED
    BY <1>2, <2>1, PackTypes DEF preload_data, TypeOK
<1>3. CASE tdm_isr
  <2>1. 0 \in InLines /\ 0 \in OutLines /\ 0 \in Chans /\ 1 \in Chans
    BY DEF InLines, OutLines, Chans
  <2>2. wire[0] \in Transfer
    BY <2>1 DEF TypeOK
  <2>3. QED
    BY <1>3, <2>1, <2>2, PackTypes DEF tdm_isr, TypeOK
<1>4. CASE UNCHANGED vars
  BY <1>4 DEF vars, TypeOK
<1>5. QED
  BY <1>1, <1>2, <1>3, <1>4 DEF Next

(* TypeOK holds in every reachable state of the data path.                 *)
THEOREM TypeCorrect == Spec => []TypeOK
<1>1. Init => TypeOK
  <2>1. Zero \in Word /\ PortOut(Zero) \in Transfer
    BY DEF Zero, Word, PortOut, Transfer, Bits
  <2>2. QED
    BY <2>1 DEF Init, TypeOK
<1>2. QED
  BY <1>1, TypeInductive, PTL DEF Spec

-----------------------------------------------------------------------------
(* Each step keeps the queued words in slot order.                         *)
LEMMA WireOrderStep == TypeOK /\ WireOrder /\ [Next]_vars => WireOrder'
<1> SUFFICES ASSUME TypeOK, WireOrder, [Next]_vars PROVE WireOrder'
  OBVIOUS
<1>1. CASE process
  BY <1>1 DEF process, WireOrder
<1>2. CASE preload_data
  <2>1. \A l \in OutLines : tx[l][0] \in Word /\ tx[l][1] \in Word
    BY DEF TypeOK, Chans
  <2>2. QED
    BY <1>2, <2>1, Out16Wire DEF preload_data, WireOrder
<1>3. CASE tdm_isr
  BY <1>3 DEF tdm_isr, WireOrder
<1>4. CASE UNCHANGED vars
  BY <1>4 DEF vars, WireOrder
<1>5. QED
  BY <1>1, <1>2, <1>3, <1>4 DEF Next

(* WireOrder holds in every reachable state, for any number of lines and  *)
(* channels and every sample value process writes: preload_data always   *)
(* queues channels 0 and 1 in their TDM slots, most significant bit first. *)
THEOREM WireOrderHolds == Spec => []WireOrder
<1>1. Init => WireOrder
  BY DEF Init, WireOrder
<1>2. QED
  BY <1>1, TypeCorrect, WireOrderStep, PTL DEF Spec

(* With one line of two channels, the loopback keeps every sample.         *)
LEMMA LoopbackStep == ASSUME NumIn = 1, NumChans = 2
                      PROVE  TypeOK /\ WireOrder /\ LoopbackIntact /\ [Next]_vars
                                => LoopbackIntact'
<1> SUFFICES ASSUME TypeOK, WireOrder, LoopbackIntact, [Next]_vars
             PROVE  LoopbackIntact'
  OBVIOUS
<1>1. CASE process
  BY <1>1 DEF process, LoopbackIntact
<1>2. CASE preload_data
  BY <1>2 DEF preload_data, LoopbackIntact
<1>3. CASE tdm_isr
  <2>1. InLines = {0} /\ OutLines = {0} /\ Chans = {0, 1}
    BY DEF InLines, OutLines, Chans
  <2>2. tx[0][0] \in Word /\ tx[0][1] \in Word
    BY <2>1 DEF TypeOK
  <2>3. wire[0] = SlotLayout(tx[0][0], tx[0][1])
    BY <1>3, <2>1 DEF tdm_isr, WireOrder
  <2> DEFINE w == IN16(Zero, PortIn(wire[0]))
  <2>4. Low16(w[1]) = Low16(tx[0][0]) /\ Low16(w[2]) = Low16(tx[0][1])
    BY <2>2, <2>3, In16Slots
  <2>5. rx' = [rx EXCEPT ![0] = [@ EXCEPT ![0] = w[1], ![1] = w[2]]] /\ tx' = tx
    BY <1>3 DEF tdm_isr
  <2>6. rx \in [InLines -> [Chans -> Word]]
    BY DEF TypeOK
  <2>7. /\ rx'[0][0] = w[1] /\ rx'[0][1] = w[2]
    BY <2>1, <2>5, <2>6
  <2>8. QED
    BY <2>1, <2>4, <2>5, <2>7 DEF LoopbackIntact
<1>4. CASE UNCHANGED vars
  BY <1>4 DEF vars, LoopbackIntact
<1>5. QED
  BY <1>1, <1>2, <1>3, <1>4 DEF Next

(* LoopbackIntact holds in every reachable state of the configuration the *)
(* code implements (one line, two 16-bit channels), for every sample      *)
(* value: IN16 after the ports inverts OUT16 on the low 16 bits.           *)
THEOREM LoopbackHolds == ASSUME NumIn = 1, NumChans = 2
                         PROVE  Spec => []LoopbackIntact
<1>1. Init => LoopbackIntact
  <2>1. InLines = OutLines
    BY DEF InLines, OutLines
  <2>2. QED
    BY <2>1 DEF Init, LoopbackIntact
<1>2. TypeOK /\ WireOrder /\ LoopbackIntact /\ [Next]_vars => LoopbackIntact'
  BY LoopbackStep
<1>3. QED
  BY <1>1, <1>2, TypeCorrect, WireOrderHolds, PTL DEF Spec
=============================================================================
