----------------------------- MODULE FadeDuration -----------------------------
(***************************************************************************)
(* Durations and the instants computed from them (src/duration.rs and      *)
(* FileRecord::new in src/metadata.rs).  A text is what it is after        *)
(* trim and to_ascii_lowercase, split into what stands before its last     *)
(* character and that character; the widths of u64 and i64 and the seconds *)
(* of the units are constants.                                             *)
(***************************************************************************)
EXTENDS Naturals, FiniteSetsExt

CONSTANTS
    Forever,      \* Ttl::Forever, and the NULL of an instant
    Invalid,      \* an error: InvalidDuration, TimeOverflow
    U64Max,       \* u64::MAX
    I64Max,       \* i64::MAX
    Minute, Hour, Day   \* the seconds of the units

ASSUME DurationAssumption ==
    /\ {U64Max, I64Max} \subseteq Nat /\ 1 < I64Max /\ I64Max < U64Max
    /\ {Forever, Invalid} \cap Nat = {} /\ Forever # Invalid
    /\ {Minute, Hour, Day} \subseteq Nat
    /\ 1 < Minute /\ Minute < Hour /\ Hour < Day
    /\ Hour % Minute = 0 /\ Day % Hour = 0

Multiplier == [s |-> 1, m |-> Minute, h |-> Hour, d |-> Day]
Units == DOMAIN Multiplier

\* "digits" before the last character, nothing, the letters of "forever", or
\* anything else.
Text == [before : {"digits", "nothing", "foreve", "other"},
         value : Nat,
         last : Units \cup {"r", "0", "other", "nothing"}]

ForeverText == [before |-> "foreve", value |-> 0, last |-> "r"]
ZeroText == [before |-> "nothing", value |-> 0, last |-> "0"]
Label(value, unit) == [before |-> "digits", value |-> value, last |-> unit]

------------------------------------------------------------------------------
\* Mutant: a multiplication that wraps.
CheckedMulWraps(a, b) == (a * b) % (U64Max + 1)

CheckedMul(a, b) == IF a * b <= U64Max THEN a * b ELSE Invalid

CheckedAdd(a, b) == IF a + b <= I64Max THEN a + b ELSE Invalid

\* A value beyond u64 fails to parse.
ParseDuration(text, allow_zero) ==
    IF allow_zero /\ text = ZeroText THEN 0
    ELSE IF /\ text.last \in Units
            /\ text.before = "digits"
            /\ text.value <= U64Max
            /\ text.value = 0 => allow_zero
      THEN CheckedMul(text.value, Multiplier[text.last])
      ELSE Invalid

ParseTtl(text) == IF text = ForeverText THEN Forever ELSE ParseDuration(text, FALSE)

\* Mutant: the units are tried from the smallest.
FormatDurationSmallest(seconds) == Label(seconds, "s")

FormatDuration(seconds) ==
    LET exact(unit) == seconds > 0 /\ seconds % Multiplier[unit] = 0
        unit == CHOOSE u \in Units :
                    /\ u = "s" \/ exact(u)
                    /\ \A v \in Units : exact(v) => Multiplier[v] <= Multiplier[u]
    IN Label(seconds \div Multiplier[unit], unit)

\* Ttl::label
TtlLabel(ttl) == IF ttl = Forever THEN ForeverText ELSE FormatDuration(ttl)

------------------------------------------------------------------------------
\* as_secs().min(i64::MAX)
Seconds(duration) == Min({duration, I64Max})

\* Mutant: the cast as it is, without the minimum and the checked addition.
ExpiresAtWraps(ttl, created_at) ==
    IF ttl = Forever THEN Forever ELSE (created_at + ttl) % (I64Max + 1)

ExpiresAt(ttl, created_at) ==
    IF ttl = Forever THEN Forever ELSE CheckedAdd(created_at, Seconds(ttl))

\* FileRecord::new: the instants of a file created now, or Invalid.
Record(ttl, window, now) ==
    LET expires_at == ExpiresAt(ttl, now)
        deadline == IF expires_at \in {Forever, Invalid} THEN expires_at
                    ELSE CheckedAdd(expires_at, Seconds(window))
    IN IF deadline = Invalid THEN Invalid
       ELSE [expires_at |-> expires_at, recovery_deadline |-> deadline]

------------------------------------------------------------------------------
(* Properties of one call *)

\* What a duration is printed as is read back as the same duration, by every
\* reader that takes it, and no other unit would print it shorter; what is read
\* is what was written, or an error, never a product that wrapped around.
Faithful(text, allow_zero) ==
    LET seconds == ParseDuration(text, allow_zero)
        label == FormatDuration(seconds)
    IN seconds # Invalid =>
        /\ seconds <= U64Max
        /\ text = ZeroText \/ seconds = text.value * Multiplier[text.last]
        /\ ParseDuration(label, allow_zero) = seconds
        /\ text # ZeroText /\ seconds > 0 => label.value <= text.value

\* The instants of a record are the exact sums or there is no record: a file
\* never expires before it was created, nor is it due before it expires, however
\* large the TTL and the window.
ExactInstants(ttl, window, now) ==
    LET r == Record(ttl, window, now)
    IN IF ttl = Forever THEN r = [expires_at |-> Forever, recovery_deadline |-> Forever]
       ELSE IF now + ttl + window <= I64Max
         THEN r = [expires_at |-> now + ttl, recovery_deadline |-> now + ttl + window]
       ELSE r # Invalid => now = 0 /\ r.recovery_deadline = I64Max
=============================================================================
