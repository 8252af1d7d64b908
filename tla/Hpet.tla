-------------------------------- MODULE Hpet --------------------------------
(***************************************************************************)
(* The HPET as a clock, drivers/hpet.c: hpet_init reads the period of the  *)
(* counter and starts it at 0; hpet_sleep_us spins until the counter has   *)
(* reached a target.  The caller spins; the counter ticks.                 *)
(*                                                                         *)
(* The moment a sleep begins lies phase units of time after a tick.  The   *)
(* units are those of the period: femtoseconds in the build.               *)
(***************************************************************************)
EXTENDS Integers

CONSTANTS
  FsPerSec,     \* 10^15 in the source
  UsPerSec,     \* 10^6
  UsPerMs,      \* 1000
  WordMod,      \* 2^64: targets and products are computed modulo WordMod
  CounterMod,   \* the counter counts modulo CounterMod, 2^64 or 2^32
  Slack         \* bound on the ticks that pass before a late look at the counter

ASSUME HpetAssumption ==
  /\ UsPerSec \in Nat \ {0} /\ FsPerSec \in Nat /\ FsPerSec % UsPerSec = 0
  /\ UsPerMs \in Nat \ {0}
  /\ CounterMod \in Nat \ {0} /\ WordMod \in Nat /\ CounterMod <= WordMod
  /\ Slack \in Nat

VARIABLES
  hpet_period, hpet_freq,
  counter,    \* the main counter
  sleep       \* the call under way: [us, start, target, phase]

hpetVars == <<hpet_period, hpet_freq, counter, sleep>>

Awake == [us |-> 0, start |-> 0, target |-> 0, phase |-> 0]
Sleeping == sleep # Awake

HpetInit == hpet_period = 0 /\ hpet_freq = 0 /\ counter = 0 /\ sleep = Awake

(* The rest of hpet_init, once its registers are mapped.                   *)
HpetStart(period) ==
  /\ hpet_period' = period
  /\ hpet_freq' = FsPerSec \div period
  /\ counter' = 0
  /\ UNCHANGED sleep

TicksOfWholeSeconds(us) == (us \div UsPerSec) * hpet_freq
Ticks(us) == ((us * hpet_freq) % WordMod) \div UsPerSec

hpet_sleep_us(us, phase) ==
  /\ ~Sleeping
  /\ sleep' = [us |-> us, start |-> counter, phase |-> phase,
               target |-> (counter + Ticks(us)) % WordMod]
  /\ UNCHANGED <<hpet_period, hpet_freq, counter>>

hpet_sleep_ms(ms, phase) == hpet_sleep_us((ms * UsPerMs) % WordMod, phase)

Tick ==
  /\ Sleeping /\ counter < sleep.target + Slack
  /\ counter' = (counter + 1) % CounterMod
  /\ UNCHANGED <<hpet_period, hpet_freq, sleep>>

(* The caller looks at the counter and goes on.                            *)
ReachedExactly == counter = sleep.target
Reached == counter >= sleep.target
Wake ==
  /\ Sleeping /\ Reached
  /\ sleep' = Awake
  /\ UNCHANGED <<hpet_period, hpet_freq, counter>>

-----------------------------------------------------------------------------
(* A sleep of at most a second returns less than three ticks early: one    *)
(* for the tick it began in, one each for the two divisions that round     *)
(* down.                                                                   *)
SleepLongEnough ==
  [][(Wake /\ sleep.us <= UsPerSec) =>
       (counter - sleep.start) * hpet_period - sleep.phase + 3 * hpet_period
         > sleep.us * (FsPerSec \div UsPerSec)]_hpetVars
=============================================================================
