----------------------------- MODULE MCMachine -----------------------------
(* Machines with one to three processors.                                  *)
EXTENDS Machine

Cpu(k) == [type |-> "cpu", processorId |-> k, apicId |-> k]
Chip(type) == [type |-> type, processorId |-> 0, apicId |-> 0]

(* As QEMU describes three processors: all of them, then the IO APIC and   *)
(* overrides.  Zeros behind the table look like processor 0.               *)
Three ==
  [table |-> <<Cpu(0), Cpu(1), Cpu(2), Chip("ioapic"), Chip("other")>>, behind |-> Cpu(0),
   answers |-> {1, 2}, sectors |-> 4, ax |-> 15360, bx |-> 1792, ticks |-> 25,
   functions |-> <<TRUE, FALSE, TRUE, TRUE>>, disk |-> "good"]

One == [Three EXCEPT !.table = <<Cpu(0), Chip("ioapic")>>, !.answers = {}, !.sectors = 1]

(* Processor 2 is in the table but cannot be started.                      *)
Disabled == [Three EXCEPT !.answers = {1}]

(* The table begins with another processor, which is missed.               *)
OtherFirst == [Three EXCEPT !.table = <<Cpu(2), Cpu(0), Cpu(1)>>, !.behind = Chip("other")]

Failing == {[One EXCEPT !.disk = d] : d \in {"short", "no_init", "not_elf"}} \cup {[Three EXCEPT !.ticks = 9]}

AllMachines == {Three, One, Disabled, OtherFirst} \cup Failing

=============================================================================
