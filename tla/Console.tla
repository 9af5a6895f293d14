------------------------------ MODULE Console ------------------------------
(***************************************************************************)
(* What comes out on the serial line: Debug of debug.cc, the printf of the *)
(* programs, printf.c, and the interpreter of formats that both have,      *)
(* dopr().                                                                 *)
(*                                                                         *)
(* Threads in the kernel print a line under a lock.  Programs print each   *)
(* character with a system call of its own.  A thread that panics takes    *)
(* the lock away from whoever has it, prints, and turns the machine off.   *)
(***************************************************************************)
EXTENDS Format

CONSTANTS
  Threads,   \* threads in the kernel, each on a core
  Programs,
  Plans      \* BOUND: what they print, see ConsoleInit

Callers == Threads \cup Programs

VARIABLES
  console,   \* the characters, with the caller and the call they are of
  debugTaken,     \* Debug's lock
  todo,      \* per caller, the calls that are to come; the first may be in progress
  nr,        \* per caller, how many calls have begun
  place,     \* the step each caller is at
  at,        \* the locals of dopr()
  panicked,  \* who has panicked
  off        \* the machine is off

consoleVars == <<console, debugTaken, todo, nr, place, at, panicked, off>>

(* Before the next conversion; format and arguments are not read yet.      *)
Start(items) ==
  [state |-> "default", format |-> Text(items), args |-> Arguments(items),
   flags |-> {}, min |-> 0, max |-> -1, currlen |-> 0, out |-> <<>>]

ConsoleInit ==
  /\ console = <<>> /\ debugTaken = FALSE
  /\ todo \in Plans
  /\ nr = [c \in Callers |-> 0]
  /\ place = [c \in Callers |-> "out"]
  /\ at = [c \in Callers |-> Start(<<>>)]
  /\ panicked = {} /\ off = FALSE

InKernel(c) == c \in Threads \cup panicked

GoOn(c, label) == place' = [place EXCEPT ![c] = label]

-----------------------------------------------------------------------------

(* printf(), also that of shutdown().  The semaphore that printf.c takes   *)
(* is never made, since nothing calls printf_init(): down() of number 0    *)
(* fails, and the program goes on.                                         *)
printf(c) ==
  /\ place[c] = "out" /\ todo[c] # <<>> /\ Head(todo[c]).kind # "panic"
  /\ nr' = [nr EXCEPT ![c] = @ + 1]
  /\ at' = [at EXCEPT ![c] = Start(Head(todo[c]).items)]
  /\ GoOn(c, IF InKernel(c) THEN "lock" ELSE "dopr")
  /\ UNCHANGED <<console, debugTaken, todo, panicked, off>>

Halting == [kind |-> "shutdown", items |-> <<Char("h"), Char("!")>>]

(* Fault: the lock is left to whoever has it.                              *)
PanicPolitely(c, message) ==
  /\ panicked' = panicked \cup {c}
  /\ nr' = [nr EXCEPT ![c] = @ + 1]
  /\ todo' = [todo EXCEPT ![c] = <<[kind |-> "panic", items |-> message], Halting>>]
  /\ at' = [at EXCEPT ![c] = Start(message)]
  /\ GoOn(c, "lock")
  /\ UNCHANGED <<console, debugTaken, off>>

(* "things are going bad, force unlock" and two lines.                     *)
vpanic(c, message) ==
  /\ panicked' = panicked \cup {c}
  /\ debugTaken' = FALSE
  /\ nr' = [nr EXCEPT ![c] = @ + 1]
  /\ todo' = [todo EXCEPT ![c] = <<[kind |-> "panic", items |-> message], Halting>>]
  /\ at' = [at EXCEPT ![c] = Start(message)]
  /\ GoOn(c, "lock")
  /\ UNCHANGED <<console, off>>

panic(c) ==
  /\ place[c] = "out" /\ todo[c] # <<>> /\ Head(todo[c]).kind = "panic"
  /\ vpanic(c, Head(todo[c]).items)

(* Fault: the lock is not looked at.                                       *)
LockAnyway(c) ==
  /\ place[c] = "lock"
  /\ debugTaken' = TRUE
  /\ GoOn(c, "dopr")
  /\ UNCHANGED <<console, todo, nr, at, panicked, off>>

Lock(c) ==
  /\ place[c] = "lock" /\ ~debugTaken
  /\ debugTaken' = TRUE
  /\ GoOn(c, "dopr")
  /\ UNCHANGED <<console, todo, nr, at, panicked, off>>

-----------------------------------------------------------------------------
(* dopr(): one turn of its loop per step.                                  *)

Ended(c) == at[c].format = <<>> \/ at[c].currlen >= MaxLen

Reading(c, state) ==
  /\ place[c] = "dopr" /\ at[c].state = state /\ at[c].out = <<>> /\ ~Ended(c)
  /\ UNCHANGED <<console, debugTaken, todo, nr, place, panicked, off>>

ch(c) == Head(at[c].format)

(* The character is used up, or it is looked at in another state.          *)
Consume(c, locals) == at' = [at EXCEPT ![c] = [locals EXCEPT !.format = Tail(@)]]
Again(c, state) == at' = [at EXCEPT ![c].state = state]

Put(locals, s) == [locals EXCEPT !.out = s, !.currlen = @ + Len(s)]

ReadDefault(c) ==
  /\ Reading(c, "default")
  /\ Consume(c, IF ch(c) = "%" THEN [at[c] EXCEPT !.state = "flags"] ELSE Put(at[c], <<ch(c)>>))

ReadFlags(c) ==
  /\ Reading(c, "flags")
  /\ IF ch(c) \in {"-", "+", " ", "#", "0"}
     THEN Consume(c, [at[c] EXCEPT !.flags = @ \cup {ch(c)}])
     ELSE Again(c, "min")

ReadMin(c) ==
  /\ Reading(c, "min")
  /\ IF isdigit(ch(c)) THEN Consume(c, [at[c] EXCEPT !.min = 10 * @ + char_to_int(ch(c))])
     ELSE IF ch(c) = "*"
     THEN Consume(c, [at[c] EXCEPT !.min = Head(at[c].args), !.args = Tail(@), !.state = "dot"])
     ELSE Again(c, "dot")

ReadDot(c) ==
  /\ Reading(c, "dot")
  /\ IF ch(c) = "." THEN Consume(c, [at[c] EXCEPT !.state = "max"]) ELSE Again(c, "mod")

ReadMax(c) ==
  /\ Reading(c, "max")
  /\ IF isdigit(ch(c)) THEN Consume(c, [at[c] EXCEPT !.max = 10 * MaxOf(@, 0) + char_to_int(ch(c))])
     ELSE IF ch(c) = "*"
     THEN Consume(c, [at[c] EXCEPT !.max = Head(at[c].args), !.args = Tail(@), !.state = "mod"])
     ELSE Again(c, "mod")

(* A long is as wide as an int.                                            *)
ReadMod(c) ==
  /\ Reading(c, "mod")
  /\ IF ch(c) \in {"h", "l", "L"} THEN Consume(c, [at[c] EXCEPT !.state = "conv"])
     ELSE Again(c, "conv")

Argument(c) == IF ch(c) \in TakesArgument THEN Head(at[c].args) ELSE 0

ReadConv(c) ==
  LET a == at[c] IN
  /\ Reading(c, "conv")
  /\ ~(ch(c) = "s" /\ Argument(c) = Bad)
  /\ Consume(c, [Put(a, Converted(ch(c), Argument(c), a.min, a.max, a.flags)) EXCEPT
                 !.args = IF ch(c) \in TakesArgument THEN Tail(@) ELSE @,
                 !.state = "default", !.flags = {}, !.min = 0, !.max = -1])

CannotHandle == <<Char("?")>>

(* A page fault that cannot be handled, in the middle of a line.           *)
pageFault(c) ==
  /\ place[c] = "dopr" /\ at[c].state = "conv" /\ at[c].out = <<>> /\ ~Ended(c)
  /\ ch(c) = "s" /\ Argument(c) = Bad
  /\ vpanic(c, CannotHandle)

(* dopr_outch(): in the kernel directly to the UART, by a program through  *)
(* write(), which takes and releases the lock for the character.           *)
dopr_outch(c) ==
  /\ place[c] = "dopr" /\ at[c].out # <<>>
  /\ InKernel(c) \/ ~debugTaken
  /\ console' = Append(console, [by |-> c, nr |-> nr[c], ch |-> Head(at[c].out)])
  /\ at' = [at EXCEPT ![c].out = Tail(@)]
  /\ UNCHANGED <<debugTaken, todo, nr, place, panicked, off>>

(* At the end of a line.                                                   *)
Unlock(c) ==
  /\ place[c] = "dopr" /\ at[c].out = <<>> /\ Ended(c)
  /\ debugTaken' = IF InKernel(c) THEN FALSE ELSE debugTaken
  /\ GoOn(c, IF Head(todo[c]).kind = "shutdown" THEN "off" ELSE "out")
  /\ todo' = [todo EXCEPT ![c] = Tail(@)]
  /\ UNCHANGED <<console, nr, at, panicked, off>>

(* The port that ends the emulator.                                        *)
TurnOff(c) ==
  /\ place[c] = "off"
  /\ off' = TRUE
  /\ UNCHANGED <<console, debugTaken, todo, nr, place, at, panicked>>

-----------------------------------------------------------------------------

Proceed(c) ==
  \/ printf(c) \/ panic(c) \/ Lock(c) \/ ReadDefault(c) \/ ReadFlags(c) \/ ReadMin(c)
  \/ ReadDot(c) \/ ReadMax(c) \/ ReadMod(c) \/ ReadConv(c) \/ pageFault(c)
  \/ dopr_outch(c) \/ Unlock(c) \/ TurnOff(c)

ConsoleNext == \E c \in Callers : ~off /\ Proceed(c)

(* Cores execute; there are no more calls than are planned, so that nobody *)
(* spins for ever.                                                         *)
ConsoleSpec ==
  /\ ConsoleInit /\ [][ConsoleNext]_consoleVars
  /\ \A c \in Callers : WF_consoleVars(~off /\ Proceed(c))

-----------------------------------------------------------------------------

(* As long as no thread panics, nothing comes between the characters that  *)
(* a thread in the kernel prints with one call (debug.cc:22).              *)
LinesStayWhole ==
  panicked = {} =>
    \A i, j, k \in DOMAIN console :
      i < j /\ j < k /\ console[i].by \in Threads
        /\ console[i].by = console[k].by /\ console[i].nr = console[k].nr
      => console[j].by = console[i].by /\ console[j].nr = console[i].nr

Printed(c) ==
  LET mine == SelectSeq(console, LAMBDA x : x.by = c /\ x.nr = nr[c])
  IN  [k \in DOMAIN mine |-> mine[k].ch]

(* What a call has printed when it is through is what the C standard asks  *)
(* for, if the conversions are among those for which the code is meant.    *)
PrintsAsAsked ==
  \A c \in Callers :
    place[c] = "dopr" /\ at[c].out = <<>> /\ Ended(c) =>
      LET items == Head(todo[c]).items IN
      (\A k \in DOMAIN items : Plain(items[k])) => Printed(c) = AllAsked(items)

(* A panic is reported (debug.cc:50): the machine goes off, after a thread *)
(* that has panicked has come through to its last line, although it may    *)
(* have had the lock itself, or another have died with it.                 *)
Reported(c) ==
  LET last == SelectSeq(console, LAMBDA x : x.by = c /\ x.nr = nr[c]) IN
  /\ c \in panicked /\ place[c] = "off"
  /\ [k \in DOMAIN last |-> last[k].ch] = AllAsked(Halting.items)

PanicIsReported == [](panicked # {} => <>(off /\ \E c \in Callers : Reported(c)))

=============================================================================
