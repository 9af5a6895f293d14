------------------------------ MODULE Machine ------------------------------
(***************************************************************************)
(* A machine from power on until its first program, init, has called play: *)
(* StartUp and then Audio.  The audio driver runs in the kernel; when it   *)
(* panics the machine stops.                                               *)
(***************************************************************************)
EXTENDS StartUp, Audio

Init == StartInit /\ AudioInit

(* init.c opens a file and plays it, whether it is there or not.           *)
play == init_dev

Driver ==
  /\ main = "user" /\ halted = "no"
  /\ play \/ AudioStep
  /\ halted' = IF driver' = "panic" THEN "panic" ELSE "no"
  /\ UNCHANGED <<hardware, kernel, smp, mainThread, core>>

Next == (StartNext /\ UNCHANGED audioVars) \/ Driver

vars == <<startVars, audioVars>>

(* Cores execute, whatever they are at.                                    *)
Spec ==
  /\ Init /\ [][Next]_vars
  /\ WF_vars(halted = "no" /\ BootStep /\ UNCHANGED audioVars)
  /\ \A c \in Cores : WF_vars(halted = "no" /\ CoreStep(c) /\ UNCHANGED audioVars)
  /\ WF_vars(halted = "no" /\ MainStep /\ UNCHANGED audioVars)
  /\ WF_vars(Driver)

=============================================================================
