------------------------------- MODULE ShortId -------------------------------
(* ShortIDGenerator.Generate of h/ids.go, called by several goroutines: two    *)
(* atomics, the time of the last identifier and a counter, and a buffer that   *)
(* is shared without any protection.                                           *)
(*                                                                             *)
(* The widths are constants: in the code an identifier has 8 digits of base    *)
(* 36, the counter gives it 12 bits and the machine 10.  Time is counted in    *)
(* milliseconds from timeOffset; 0 stands for the lastTime of a new generator. *)
(* The counter of the code wraps at 2^32, a multiple of 2^12, which changes no *)
(* identifier, so it is not bounded here.                                      *)
EXTENDS Naturals, Sequences, FiniteSets

CONSTANTS Callers,
          Times,                    \* the milliseconds the clock can show
          Base, Digits,             \* len(alphabet), len(buffer)
          CounterBits, MachineBits, \* bits of an identifier
          MachineID,
          Window,                   \* time after which identifiers repeat: 3^16 ms in the code
          MaxCalls, MaxSetBacks     \* bounds: calls made, times the clock is set back

Encode(time, count) == (time * 2^MachineBits + MachineID) * 2^CounterBits + count
Counts == 0..(2^CounterBits - 1)
Positions == 1..Digits

\* Mutant: the most significant digit takes what is left of the number.
DigitUnreduced(n, i) == n \div Base^(Digits - i)

Digit(n, i) == (n \div Base^(Digits - i)) % Base

ASSUME IdAssumption ==
  /\ IsFiniteSet(Callers)
  /\ Times \subseteq Nat \ {0} /\ Base \in Nat \ {0, 1} /\ Digits \in Nat \ {0}
  /\ CounterBits \in Nat /\ MachineBits \in Nat /\ MachineID \in 0..(2^MachineBits - 1)
  /\ Window \in Nat /\ MaxCalls \in Nat /\ MaxSetBacks \in Nat

\* Arithmetic: a power of a natural number is one.
ASSUME PowerAssumption ==
  /\ 2^CounterBits \in Nat \ {0} /\ 2^MachineBits \in Nat \ {0}
  /\ \A i \in Positions : Base^(Digits - i) \in Nat \ {0}

\* Within a window the digits that are kept tell the pairs of time and count apart.
ASSUME WidthAssumption ==
  \A t, u \in Times, c, d \in Counts :
    t <= u /\ u - t < Window /\ <<t, c>> # <<u, d>>
      => \E i \in Positions : Digit(Encode(t, c), i) # Digit(Encode(u, d), i)

VARIABLES
  clock,     \* time.Now(): the wall clock, which may be set back
  setBacks,  \* how often it was (history)
  lastTime, counter, buffer,
  stage, now, last, count,  \* the goroutines and the locals of Generate
  written,   \* digits already written to the buffer by the loop of each call
  copied,    \* digits already copied from it by string(g.buffer)
  alone,     \* no other call has overlapped this one (history)
  era,       \* setBacks when the call read the clock (history)
  issued     \* the identifiers returned, in order (history)

shared == <<clock, setBacks, lastTime, counter, buffer>>
idVars == <<shared, stage, now, last, count, written, copied, alone, era, issued>>

Busy(g) == stage[g] # "idle"
Others(g) == {h \in Callers \ {g} : Busy(h)}

IdTypeOK ==
  /\ clock \in Times /\ setBacks \in 0..MaxSetBacks
  /\ lastTime \in Times \cup {0} /\ counter \in 0..MaxCalls
  /\ buffer \in [Positions -> 0..(Base - 1)]
  /\ stage \in [Callers -> {"idle", "clock", "load", "swap", "reset", "add", "write", "copy"}]
  /\ now \in [Callers -> Times \cup {0}] /\ last \in [Callers -> Times \cup {0}]
  /\ count \in [Callers -> Counts]
  /\ written \in [Callers -> 0..Digits]
  /\ copied \in [Callers -> Seq(0..(Base - 1))]
  /\ alone \in [Callers -> BOOLEAN]
  /\ era \in [Callers -> 0..MaxSetBacks]
  /\ issued \in Seq([id : [Positions -> 0..(Base - 1)], time : Times, alone : BOOLEAN, era : 0..MaxSetBacks])

IdInit ==
  /\ clock \in Times /\ setBacks = 0
  /\ lastTime = 0 /\ counter = 0 /\ buffer = [i \in Positions |-> 0]
  /\ stage = [g \in Callers |-> "idle"]
  /\ now = [g \in Callers |-> 0] /\ last = [g \in Callers |-> 0]
  /\ count = [g \in Callers |-> 0]
  /\ written = [g \in Callers |-> 0] /\ copied = [g \in Callers |-> <<>>]
  /\ alone = [g \in Callers |-> FALSE]
  /\ era = [g \in Callers |-> 0] /\ issued = <<>>

-------------------------------------------------------------------------------
Moves(g, from, to) == stage[g] = from /\ stage' = [stage EXCEPT ![g] = to]

Generate(g) ==
  /\ Moves(g, "idle", "clock")
  /\ Len(issued) + Cardinality({h \in Callers : Busy(h)}) < MaxCalls
  /\ alone' = [h \in Callers |-> IF h = g THEN Others(g) = {} ELSE alone[h] /\ ~Busy(h)]
  /\ UNCHANGED <<shared, now, last, count, written, copied, era, issued>>

ReadClock(g) ==
  /\ Moves(g, "clock", "load")
  /\ now' = [now EXCEPT ![g] = clock]
  /\ era' = [era EXCEPT ![g] = setBacks]
  /\ UNCHANGED <<shared, last, count, written, copied, alone, issued>>

LoadLast(g) ==
  /\ Moves(g, "load", IF now[g] # lastTime THEN "swap" ELSE "add")
  /\ last' = [last EXCEPT ![g] = lastTime]
  /\ UNCHANGED <<shared, now, count, written, copied, alone, era, issued>>

\* CompareAndSwap: a goroutine that fails begins Generate again.
Swap(g) ==
  /\ Moves(g, "swap", IF lastTime = last[g] THEN "reset" ELSE "clock")
  /\ lastTime' = IF lastTime = last[g] THEN now[g] ELSE lastTime
  /\ UNCHANGED <<clock, setBacks, counter, buffer, now, last, count, written, copied, alone, era, issued>>

\* The counter is set to 0 in a second atomic step.
Reset(g) ==
  /\ Moves(g, "reset", "write")
  /\ counter' = 0
  /\ count' = [count EXCEPT ![g] = 0]
  /\ UNCHANGED <<clock, setBacks, lastTime, buffer, now, last, written, copied, alone, era, issued>>

\* count&0xFFF >= 4096: the low bits of a number are never that many.
Overflows(n) == n % 2^CounterBits >= 2^CounterBits

\* Mutant: the value before the increment is used.
AddReturnsOld(g) ==
  /\ Moves(g, "add", IF Overflows(counter) THEN "clock" ELSE "write")
  /\ counter' = counter + 1
  /\ count' = [count EXCEPT ![g] = counter % 2^CounterBits]
  /\ UNCHANGED <<clock, setBacks, lastTime, buffer, now, last, written, copied, alone, era, issued>>

\* A further identifier of the same millisecond.
Add(g) ==
  /\ Moves(g, "add", IF Overflows(counter + 1) THEN "clock" ELSE "write")
  /\ counter' = counter + 1
  /\ count' = [count EXCEPT ![g] = (counter + 1) % 2^CounterBits]
  /\ UNCHANGED <<clock, setBacks, lastTime, buffer, now, last, written, copied, alone, era, issued>>

\* The loop writes the digits from the last to the first.
WriteDigit(g) ==
  /\ Moves(g, "write", IF written[g] + 1 < Digits THEN "write" ELSE "copy")
  /\ LET i == Digits - written[g]
     IN buffer' = [buffer EXCEPT ![i] = Digit(Encode(now[g], count[g]), i)]
  /\ written' = [written EXCEPT ![g] = @ + 1]
  /\ UNCHANGED <<clock, setBacks, lastTime, counter, now, last, count, copied, alone, era, issued>>

\* string(g.buffer) copies the digits from the first to the last.
CopyDigit(g) ==
  /\ stage[g] = "copy" /\ Len(copied[g]) < Digits
  /\ copied' = [copied EXCEPT ![g] = Append(@, buffer[Len(@) + 1])]
  /\ UNCHANGED <<shared, stage, now, last, count, written, alone, era, issued>>

\* Generate returns; its locals are dropped.
Returns(g) ==
  /\ Len(copied[g]) = Digits
  /\ Moves(g, "copy", "idle")
  /\ issued' = Append(issued, [id |-> copied[g], time |-> now[g], alone |-> alone[g], era |-> era[g]])
  /\ now' = [now EXCEPT ![g] = 0] /\ last' = [last EXCEPT ![g] = 0]
  /\ count' = [count EXCEPT ![g] = 0]
  /\ written' = [written EXCEPT ![g] = 0] /\ copied' = [copied EXCEPT ![g] = <<>>]
  /\ alone' = [alone EXCEPT ![g] = FALSE] /\ era' = [era EXCEPT ![g] = 0]
  /\ UNCHANGED shared

\* The wall clock moves on, or is set back.
SetClock(t) ==
  /\ t # clock
  /\ clock' = t
  /\ setBacks' = IF t < clock THEN setBacks + 1 ELSE setBacks
  /\ setBacks' <= MaxSetBacks
  /\ UNCHANGED <<lastTime, counter, buffer, stage, now, last, count, written, copied, alone, era, issued>>

Step(g) ==
  \/ ReadClock(g) \/ LoadLast(g) \/ Swap(g) \/ Reset(g) \/ Add(g)
  \/ WriteDigit(g) \/ CopyDigit(g) \/ Returns(g)

IdNext ==
  \/ \E g \in Callers : Generate(g) \/ Step(g)
  \/ \E t \in Times : SetClock(t)

IdSpec == IdInit /\ [][IdNext]_idVars

-------------------------------------------------------------------------------
(* Properties *)

\* Two calls that overlapped no other call return different identifiers unless the
\* clock was set back between them, the window is over, or the counter came round
\* within one millisecond.  So the races between overlapping calls (a counter reset
\* after it was read, a lastTime set to a stale now, a torn buffer) leave nothing
\* behind that makes later, separate calls collide.
DuplicatesHaveACause ==
  \A i, j \in DOMAIN issued :
    LET a == issued[i]  b == issued[j] IN
      i < j /\ a.id = b.id /\ a.alone /\ b.alone /\ a.era = b.era
        => b.time - a.time >= Window \/ j - i >= 2^CounterBits
=============================================================================
