---------------------------- MODULE Conversions ----------------------------
(***************************************************************************)
(* The quantities that em-bindgen hands to JavaScript in another range     *)
(* than it is given: the milliseconds of sleep, which come in pieces, of   *)
(* set_timeout (under future::sleep), which are clamped, and the years of  *)
(* chrono.rs, which are shifted.                                           *)
(*                                                                         *)
(* Durations are in whole milliseconds, as as_millis gives them.  IntMax   *)
(* is c_int::MAX and stands for 2^31 - 1 by a smaller value: the code only *)
(* compares and divides by it.                                             *)
(***************************************************************************)
EXTENDS Integers

CONSTANTS
  IntMax,     \* c_int::MAX
  Durations,  \* bound: the durations asked for
  Years       \* bound: the years asked for

ASSUME ConversionsAssumption ==
  IntMax \in Nat \ {0} /\ Durations \subseteq Nat /\ Years \subseteq Int

UintMax == 2 * IntMax + 1

VARIABLES
  op,     \* the latest operation
  argument,  \* what its caller passed
  given,  \* what was handed to JavaScript, in all
  got,    \* what JavaScript made of that: the time waited, the year of the Date
  pieces  \* the full pieces that sleep has still to wait for

conversionVars == <<op, argument, given, got, pieces>>

-----------------------------------------------------------------------------
(* A definition placed before another with the same parameter is a faulty
   variant of it, kept to show that the property depends on it. *)

(* setTimeout in JavaScript, where an argument that passed through wasm is
   signed and a negative delay is none. *)
Waits(ms) == IF ms <= IntMax THEN ms ELSE 0

(* div and rem in sleep. *)
PiecesUp(ms) == ms \div UintMax + 1
Pieces(ms) == ms \div UintMax
Rest(ms) == ms % UintMax

(* c_int::try_from(dur.as_millis()).unwrap_or(c_int::MAX) *)
Wrapped(ms) == ms % (UintMax + 1)
Clamped(ms) == IF ms <= IntMax THEN ms ELSE IntMax

(* The year in offset_from_local_datetime: div_euclid rounds down. *)
ShiftedToZero(year) == IF year < 100 THEN year - (year \div 400) * 400 ELSE year
Shifted(year) == IF year < 100 THEN year - ((year - 100) \div 400) * 400 ELSE year

(* new Date(year, ...) in JavaScript. *)
DateYear(year) == IF year \in 0..99 THEN 1900 + year ELSE year

-----------------------------------------------------------------------------
ConversionsInit == op = "none" /\ argument = 0 /\ given = 0 /\ got = 0 /\ pieces = 0

(* sleep: first the rest, then the full pieces, one call after the other. *)
Sleep(ms) ==
  /\ pieces = 0
  /\ op' = "sleep" /\ argument' = ms
  /\ given' = Rest(ms) /\ got' = Waits(Rest(ms))
  /\ pieces' = Pieces(ms)

SleepOn ==
  /\ pieces > 0
  /\ given' = given + UintMax /\ got' = got + Waits(UintMax)
  /\ pieces' = pieces - 1
  /\ UNCHANGED <<op, argument>>

(* set_timeout, which future::sleep calls to mark its flag. *)
SetTimeout(ms) ==
  /\ pieces = 0
  /\ op' = "timeout" /\ argument' = ms
  /\ given' = Clamped(ms) /\ got' = Waits(Clamped(ms))
  /\ UNCHANGED pieces

(* offset_from_local_datetime. *)
LocalOffset(year) ==
  /\ pieces = 0
  /\ op' = "offset" /\ argument' = year
  /\ given' = Shifted(year) /\ got' = DateYear(Shifted(year))
  /\ UNCHANGED pieces

ConversionsNext ==
  \/ SleepOn
  \/ \E ms \in Durations : Sleep(ms) \/ SetTimeout(ms)
  \/ \E year \in Years : LocalOffset(year)

ConversionsSpec == ConversionsInit /\ [][ConversionsNext]_conversionVars

-----------------------------------------------------------------------------
(* Every duration is handed over whole by sleep, and waited for exactly up to
   c_int::MAX milliseconds by all; above that nobody waits longer than asked.
   A Date sees every year with the calendar of the year asked for, and years
   from 100 on as they are. *)
JsGetsWhatWasAsked ==
  /\ op \in {"sleep", "timeout"} =>
       got <= argument /\ (argument <= IntMax /\ pieces = 0 => got = argument)
  /\ op = "sleep" => given + pieces * UintMax = argument
  /\ op = "timeout" /\ argument > IntMax => got = IntMax
  /\ op = "offset" =>
       got % 400 = argument % 400 /\ (argument >= 100 => got = argument)
=============================================================================
