------------------------------- MODULE Audio -------------------------------
(***************************************************************************)
(* The driver of the audio controller, audio.cc, as play runs it.          *)
(*                                                                         *)
(* The driver is written for a controller that takes verbs from a ring in  *)
(* memory, the CORB, and puts answers into another, the RIRB.  But what    *)
(* init_dev() maps as the registers is a frame of memory that it has just  *)
(* allocated: a register holds what was last written to it, a wide write   *)
(* also changes the registers behind, and nobody moves a pointer.          *)
(***************************************************************************)
EXTENDS Integers, Sequences

CONSTANT Garbage  \* BOUND: what may be in memory of the heap that is not set

VARIABLES
  mmio,     \* the bytes of the registers
  rings,    \* the words of the page with both rings
  dev,      \* the fields of the hda_audio_device that count
  todo,     \* the verbs that are still to be transmitted
  driver    \* where the driver is

audioVars == <<mmio, rings, dev, todo, driver>>

(* The registers; audio.h:21.                                              *)
GCTL == 8
WAKEEN == 12
STATESTS == 14
INTCTL == 32
CORBLBASE == 64
CORBUBASE == 68
CORBWP == 72
CORBRP == 74
CORBCTL == 76
CORBSIZE == 78
RIRBLBASE == 80
RIRBUBASE == 84
RIRBWP == 88
RINTCNT == 90
RIRBCTL == 92
RIRBSTS == 93
RIRBSIZE == 94
O0_CTLU == 258
O0_CBL == 264
O0_STLVI == 268
O0_FMT == 274
O0_BDLPL == 280
O0_BDLPU == 284

Byte(val, k) == (val \div (256 ^ k)) % 256

(* Little-endian accesses of n bytes.                                      *)
Out(m, reg, n, val) == [b \in DOMAIN m |-> IF b \in reg..(reg + n - 1) THEN Byte(val, b - reg) ELSE m[b]]
OUTL(m, reg, val) == Out(m, reg, 4, val)
OUTW(m, reg, val) == Out(m, reg, 2, val)
OUTB(m, reg, val) == Out(m, reg, 1, val)
INB(m, reg) == m[reg]
INW(m, reg) == m[reg] + 256 * m[reg + 1]

Bit(val, k) == (val \div (2 ^ k)) % 2 = 1

Zeros(n) == [b \in 0..(n - 1) |-> 0]

AudioInit ==
  /\ mmio = Zeros(288) /\ rings = Zeros(1024)
  /\ dev = [corb_entries |-> 0, rirb_entries |-> 0, rirb_rp |-> 0]
  /\ todo = <<>>
  /\ driver = "idle"

-----------------------------------------------------------------------------

Then(from, to) == driver = from /\ driver' = to

(* init_dev() up to the reset.  Frames come filled with zeros, the device  *)
(* comes from malloc() as it is.                                           *)
init_dev ==
  /\ Then("idle", "reset")
  /\ mmio' = Zeros(288) /\ rings' = Zeros(1024)
  /\ \E g \in Garbage : dev' = [corb_entries |-> g, rirb_entries |-> g, rirb_rp |-> g]
  /\ UNCHANGED todo

Running == Bit(INB(mmio, CORBCTL), 1) \/ Bit(INB(mmio, RIRBCTL), 1)

(* audio_reset(): each loop ends when the register has the value.          *)
stopRings ==
  /\ Then("reset", "stopped")
  /\ mmio' = OUTL(OUTL(mmio, CORBCTL, 0), RIRBCTL, 0)
  /\ UNCHANGED <<rings, dev, todo>>

enterReset ==
  /\ Then("stopped", "in_reset") /\ ~Running
  /\ mmio' = OUTL(mmio, GCTL, 0)
  /\ UNCHANGED <<rings, dev, todo>>

(* Fault: the bit is taken for its number.                                 *)
GCTL_RESET_BIT == 0

GCTL_RESET == 1

leaveReset ==
  /\ Then("in_reset", "out_of_reset") /\ ~Bit(INB(mmio, GCTL), 0)
  /\ mmio' = OUTL(mmio, GCTL, GCTL_RESET)
  /\ UNCHANGED <<rings, dev, todo>>

(* INTCTL gets 0x800000FF, written as two words here.                      *)
clearInterrupts ==
  /\ Then("out_of_reset", "corb") /\ Bit(INB(mmio, GCTL), 0)
  /\ mmio' = OUTW(OUTW(OUTW(mmio, WAKEEN, 65535), INTCTL, 255), INTCTL + 2, 32768)
  /\ UNCHANGED <<rings, dev, todo>>

(* The size that a ring supports: the entries and the bits that select it; *)
(* the entries stay as they are if there is none.                          *)
Sizes(reg, entries) ==
  IF Bit(reg, 6) THEN <<256, 2>> ELSE IF Bit(reg, 5) THEN <<16, 1>>
  ELSE IF Bit(reg, 4) THEN <<2, 0>> ELSE <<entries, 0>>

OrBits(reg, bits) ==
  reg + (IF Bit(bits, 0) /\ ~Bit(reg, 0) THEN 1 ELSE 0) + (IF Bit(bits, 1) /\ ~Bit(reg, 1) THEN 2 ELSE 0)

(* rings->pa[0], where rings->pa is the address of the frame, plus 7: four *)
(* bytes from its second and third word.                                   *)
pa0 == rings[1] \div 2^24 + (rings[2] % 2^24) * 256

StartRing(m, ctl) == OUTB(m, ctl, 2)

init_corb ==
  LET asked == OUTB(mmio, CORBSIZE, 255)
      reg == INB(asked, CORBSIZE)
      size == Sizes(reg, dev.corb_entries)
      sized == OUTB(asked, CORBSIZE, OrBits(reg, size[2]))
      based == OUTL(OUTL(sized, CORBLBASE, pa0), CORBUBASE, 0) IN
  /\ Then("corb", "rirb")
  /\ dev' = [dev EXCEPT !.corb_entries = size[1]]
  /\ mmio' = StartRing(based, CORBCTL)
  /\ UNCHANGED <<rings, todo>>

init_rirb ==
  LET asked == OUTB(mmio, RIRBSIZE, 255)
      reg == INB(asked, RIRBSIZE)
      size == Sizes(reg, dev.rirb_entries)
      sized == OUTB(asked, RIRBSIZE, OrBits(reg, size[2]))
      based == OUTL(OUTL(sized, RIRBLBASE, pa0 + 1024), RIRBUBASE, 0) IN
  /\ Then("rirb", "codecs")
  /\ dev' = [dev EXCEPT !.rirb_entries = size[1]]
  /\ mmio' = StartRing(OUTB(based, RINTCNT, 66), RIRBCTL)
  /\ UNCHANGED <<rings, todo>>

(* No codec has announced itself, so that none is looked at.               *)
audio_init_codec ==
  /\ Then("codecs", "output")
  /\ \A i \in 0..14 : ~Bit(INW(mmio, STATESTS), i)
  /\ UNCHANGED <<mmio, rings, dev, todo>>

SetStreamChannel == 7 * 65536 + 6 * 256 + 16
SetFormat == 2 * 65536 + 16 + 1

(* init_output_widget() on an output whose codec and node are zero.        *)
init_output_widget ==
  /\ Then("output", "write")
  /\ todo' = <<SetStreamChannel, SetFormat>>
  /\ UNCHANGED <<mmio, rings, dev>>

(* Waits for space.                                                        *)
corb_write ==
  LET next == (INB(mmio, CORBWP) + 1) % dev.corb_entries IN
  /\ Then("write", "read")
  /\ next # INB(mmio, CORBRP)
  /\ rings' = [rings EXCEPT ![next] = Head(todo)]
  /\ mmio' = OUTW(mmio, CORBWP, next)
  /\ UNCHANGED <<dev, todo>>

Answered == INB(mmio, RIRBWP) # dev.rirb_rp

(* Waits for an answer; the driver does not use the two that it asks for.  *)
rirb_read ==
  /\ Then("read", IF Len(todo) > 1 THEN "write" ELSE "format")
  /\ Answered
  /\ dev' = [dev EXCEPT !.rirb_rp = (@ + 1) % dev.rirb_entries]
  /\ mmio' = OUTB(mmio, RIRBSTS, 5)
  /\ todo' = Tail(todo)
  /\ UNCHANGED <<rings>>

output_widget_config ==
  /\ Then("format", "stream")
  /\ mmio' = OUTL(mmio, O0_FMT, 17)
  /\ UNCHANGED <<rings, dev, todo>>

(* The descriptors of buffers are reached through pointers that are null.  *)
stream_descriptor_init ==
  /\ Then("stream", "panic")
  /\ mmio' = OUTL(OUTL(OUTW(OUTL(OUTB(mmio, O0_CTLU, 16), O0_CBL, 4 * 65536), O0_STLVI, 3),
                       O0_BDLPL, pa0 + 3072), O0_BDLPU, 0)
  /\ UNCHANGED <<rings, dev, todo>>

AudioStep ==
  \/ stopRings \/ enterReset \/ leaveReset \/ clearInterrupts \/ init_corb \/ init_rirb
  \/ audio_init_codec \/ init_output_widget \/ corb_write \/ rirb_read
  \/ output_widget_config \/ stream_descriptor_init

-----------------------------------------------------------------------------

(* Of all the loops of the driver that wait for a register (audio.cc:112,  *)
(* 130, 336, 340, 342) only that for an answer may wait for good; else the *)
(* driver comes to where it panics.                                        *)
WaitsOnlyForAnswers ==
  [](driver # "idle" => <>(driver = "panic" \/ (driver = "read" /\ ~Answered)))

=============================================================================
